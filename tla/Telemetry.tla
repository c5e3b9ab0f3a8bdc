------------------------------ MODULE Telemetry ------------------------------
(***************************************************************************)
(* The telemetry fan-out: TelemetryHub of telemetry.py on the coordinator, *)
(* the script CoordinatorRole.run_campaign publishes over it, and the      *)
(* dashboards that subscribe, with either of the two readers.              *)
(*                                                                         *)
(* publish() holds the hub's lock while it writes to every subscriber on   *)
(* blocking sockets, so one write is one step.  A line is a head and a     *)
(* tail, and recv() may return them apart.                                 *)
(***************************************************************************)
EXTENDS Integers, Sequences, FiniteSets

CONSTANTS
  Observer,   \* dashboards and loggers
  Polls,      \* those that read with recv_one: the dashboard command
  Points,     \* wall points of the campaign
  Capacity,   \* half-lines a connection buffers
  MaxFaults   \* bound on the observers that die or stop reading

ASSUME TelemetryAssumption == {Points, Capacity, MaxFaults} \subseteq Nat

\* The roster, one figure per point, the summary, the final figure.
Final == Points + 3
Summary == Points + 2

VARIABLES
  hub,      \* "open", then "ending" (the campaign returned or raised), "stopping" (_stop
            \* is set), "closing" (and the accept loop will see it), "stopped"
  said,     \* messages publish() has been called with
  todo,     \* subscribers the publish in progress has still to write to: the lock is held
  subs,     \* _subs
  conn,     \* where each connection is on the hub's side
  since,    \* since[o]: what had been said when o entered _subs
  wire,     \* the half-lines in o's socket
  buf,      \* the message whose head o's reader keeps, or 0
  got,      \* the messages on_message was called with
  reader,   \* what o's reader does
  failed,   \* what befell the observers: <<o, "dead">>, <<o, "suspended">>
  jammed    \* history: observers that had stopped reading when a write found them full

tvars == <<hub, said, todo, subs, conn, since, wire, buf, got, reader, failed, jammed>>
hubSide == <<hub, said, todo, subs, conn, since>>
readSide == <<buf, got, reader>>

TelemetryInit ==
  /\ hub = "open" /\ said = 0 /\ todo = {} /\ subs = {}
  /\ conn = [o \in Observer |-> "none"]
  /\ since = [o \in Observer |-> 0]
  /\ wire = [o \in Observer |-> <<>>]
  /\ buf = [o \in Observer |-> 0]
  /\ got = [o \in Observer |-> <<>>]
  /\ reader = [o \in Observer |-> "off"]
  /\ failed = {} /\ jammed = {}

Dead(o) == <<o, "dead">> \in failed
Suspended(o) == <<o, "suspended">> \in failed
Reads(o) == reader[o] = "reading" /\ ~Dead(o) /\ ~Suspended(o)
\* Its end of the connection is closed: the process died, or is done.
Gone(o) == Dead(o) \/ reader[o] = "left"
Ended(o) == conn[o] \in {"closed", "reset"}
Room(o) == Len(wire[o]) + 2 <= Capacity

-----------------------------------------------------------------------------
\* The hub -------------------------------------------------------------------

\* Connecting needs only the listening socket; afterwards it is refused.
Dial(o) ==
  /\ conn[o] = "none"
  /\ conn' = [conn EXCEPT ![o] = IF hub = "stopped" THEN "refused" ELSE "backlog"]
  /\ reader' = [reader EXCEPT ![o] = IF hub = "stopped" THEN "left" ELSE "reading"]
  /\ UNCHANGED <<hub, said, todo, subs, since, wire, buf, got, failed, jammed>>

\* A loop that was inside accept() when _stop was set takes one more.
AcceptOne(o) ==
  /\ conn[o] = "backlog"
  /\ \A x \in Observer : conn[x] # "inHand"
  /\ hub \in {"open", "ending", "stopping"}
  /\ hub' = IF hub = "stopping" THEN "closing" ELSE hub
  /\ conn' = [conn EXCEPT ![o] = "inHand"]
  /\ UNCHANGED <<said, todo, subs, since, wire, readSide, failed, jammed>>

\* The accept loop waits for the lock.  It does not look at _stop again: a
\* hub that was stopped in between keeps the connection for good.
Join(o) ==
  /\ conn[o] = "inHand"
  /\ todo = {}
  /\ subs' = subs \cup {o}
  /\ since' = [since EXCEPT ![o] = said]
  /\ conn' = [conn EXCEPT ![o] = IF hub = "stopped" THEN "leaked" ELSE "served"]
  /\ UNCHANGED <<hub, said, todo, wire, readSide, failed, jammed>>

\* The roster first, a figure per wall point, the summary, the final figure.
Publish ==
  /\ hub = "open" /\ todo = {} /\ said < Final
  /\ said' = said + 1
  /\ todo' = subs
  /\ UNCHANGED <<hub, subs, conn, since, wire, readSide, failed, jammed>>

Write(o) ==
  /\ o \in todo /\ ~Gone(o) /\ Room(o)
  /\ wire' = [wire EXCEPT ![o] = @ \o <<<<said, "head">>, <<said, "tail">>>>]
  /\ todo' = todo \ {o}
  /\ UNCHANGED <<hub, said, subs, conn, since, readSide, failed, jammed>>

\* A subscriber that errors is pruned, and the rest are still written to.
WriteFails(o) ==
  /\ o \in todo /\ Gone(o)
  /\ subs' = subs \ {o}
  /\ conn' = [conn EXCEPT ![o] = "closed"]
  /\ todo' = todo \ {o}
  /\ UNCHANGED <<hub, said, since, wire, readSide, failed, jammed>>

\* The kernel takes the first write after the peer has gone.
WriteLost(o) ==
  /\ o \in todo /\ Gone(o)
  /\ todo' = todo \ {o}
  /\ UNCHANGED <<hub, said, subs, conn, since, wire, readSide, failed, jammed>>

\* No room and nobody reading: publish() waits, with the lock, inside the
\* campaign's callback.
WriteWaits(o) ==
  /\ o \in todo \ jammed /\ ~Gone(o) /\ ~Room(o) /\ ~Reads(o)
  /\ jammed' = jammed \cup {o}
  /\ UNCHANGED <<hubSide, wire, readSide, failed>>

\* run_campaign has published everything, or raises between two messages.
CampaignEnds ==
  /\ hub = "open" /\ todo = {}
  /\ hub' = "ending"
  /\ UNCHANGED <<said, todo, subs, conn, since, wire, readSide, failed, jammed>>

SetStop ==
  /\ hub = "ending"
  /\ hub' = IF \E o \in Observer : conn[o] = "inHand" THEN "closing" ELSE "stopping"
  /\ UNCHANGED <<said, todo, subs, conn, since, wire, readSide, failed, jammed>>

\* mutant: the hub clears the list and leaves the sockets open
CloseAll_Unclosed ==
  /\ hub \in {"stopping", "closing"}
  /\ hub' = "stopped"
  /\ subs' = {}
  /\ conn' = [o \in Observer |-> IF conn[o] = "backlog" THEN "reset" ELSE conn[o]]
  /\ UNCHANGED <<said, todo, since, wire, readSide, failed, jammed>>

\* stop() takes the lock, closes every subscriber, and then the listening
\* socket: connections nobody accepted are reset with it.
CloseAll ==
  /\ hub \in {"stopping", "closing"}
  /\ hub' = "stopped"
  /\ subs' = {}
  /\ conn' = [o \in Observer |-> CASE conn[o] = "served" -> "closed"
                                  [] conn[o] = "backlog" -> "reset"
                                  [] OTHER -> conn[o]]
  /\ UNCHANGED <<said, todo, since, wire, readSide, failed, jammed>>

-----------------------------------------------------------------------------
\* The observers -------------------------------------------------------------

\* recv() returns some of what is there.  The reader works through it half by
\* half: the head of an unfinished line stays in the buffer, and the tail that
\* completes a line hands it to on_message.  A tail whose head went missing does
\* not parse and is skipped.
Recv(o) ==
  /\ Reads(o) /\ wire[o] # <<>>
  /\ LET half == Head(wire[o])
     IN  /\ buf' = [buf EXCEPT ![o] = IF half[2] = "head" THEN half[1] ELSE 0]
         /\ got' = [got EXCEPT ![o] = IF half = <<buf[o], "tail">> THEN Append(@, half[1]) ELSE @]
  /\ wire' = [wire EXCEPT ![o] = Tail(@)]
  /\ UNCHANGED <<hubSide, reader, failed, jammed>>

HasSummary(o) == \E i \in DOMAIN got[o] : got[o][i] = Summary

\* mutant: the background reader starts its buffer afresh after an idle window
Idle_Drops(o) ==
  /\ Reads(o) /\ ~Ended(o)
  /\ buf' = [buf EXCEPT ![o] = 0]
  /\ reader' = [reader EXCEPT ![o] = IF o \notin Polls THEN @
                                     ELSE IF HasSummary(o) THEN "left" ELSE "blind"]
  /\ UNCHANGED <<hubSide, wire, got, failed, jammed>>

\* A window in which nothing arrives, be it under way.  The background reader
\* keeps its buffer.
\* The dashboard command leaves if it has the summary; otherwise its file
\* object raises at every later readline, so it never reads again.
Idle(o) ==
  /\ Reads(o) /\ ~Ended(o)
  /\ reader' = [reader EXCEPT ![o] = IF o \notin Polls THEN @
                                     ELSE IF HasSummary(o) THEN "left" ELSE "blind"]
  /\ UNCHANGED <<hubSide, wire, buf, got, failed, jammed>>

\* End of file.  The dashboard command goes on asking if it has no summary.
EndOfFile(o) ==
  /\ Reads(o) /\ wire[o] = <<>> /\ Ended(o)
  /\ reader' = [reader EXCEPT ![o] = IF o \in Polls /\ ~HasSummary(o) THEN "blind" ELSE "left"]
  /\ UNCHANGED <<hubSide, wire, buf, got, failed, jammed>>

\* The observer's process is killed, or its host stops answering.
Fail(o, how) ==
  /\ reader[o] # "off" /\ Cardinality(failed) < MaxFaults
  /\ failed' = failed \cup {<<o, how>>}
  /\ UNCHANGED <<hubSide, wire, readSide, jammed>>

-----------------------------------------------------------------------------
Fan(o) == Write(o) \/ WriteFails(o) \/ WriteLost(o) \/ WriteWaits(o)
Listen(o) == EndOfFile(o) \/ Recv(o)

TelemetryNext ==
  \/ Publish \/ CampaignEnds \/ SetStop \/ CloseAll
  \/ \E o \in Observer :
       \/ Dial(o) \/ AcceptOne(o) \/ Join(o) \/ Fan(o) \/ Listen(o) \/ Idle(o)
       \/ \E how \in {"dead", "suspended"} : Fail(o, how)

-----------------------------------------------------------------------------
\* The lines on their way to o that its reader will make whole.
Whole(o) ==
  {i \in DOMAIN wire[o] : wire[o][i][2] = "tail"
                          /\ <<wire[o][i][1], "head">> = IF i = 1 THEN <<buf[o], "head">>
                                                         ELSE wire[o][i - 1]}
UpTo(o) == IF o \in todo THEN said - 1 ELSE said

\* An observer is told everything that was published after it joined, in
\* order and once, or it is whole on its way: nothing is lost when a line arrives in
\* two pieces with an idle window between them, nor when another subscriber dies in
\* mid fan-out.
NobodyIsSkipped ==
  \A o \in Observer :
    conn[o] \in {"served", "closed"} /\ ~Gone(o) =>
      /\ \A i \in DOMAIN got[o] : got[o][i] = since[o] + i
      /\ \A m \in (since[o] + Len(got[o]) + 1)..UpTo(o) :
           \E i \in Whole(o) : wire[o][i][1] = m

\* A dashboard that subscribed ends with all the coordinator published, and
\* knows the stream is over.  Excused: one that has itself failed; everybody,
\* while publish() waits for one that stopped reading; and the dashboard
\* command, which an idle window makes blind or sends home.
ResultReaches ==
  \A o \in Observer :
    (conn[o] = "served") ~>
      \/ reader[o] = "left" /\ got[o] = [i \in 1..(said - since[o]) |-> since[o] + i]
      \/ Dead(o) \/ Suspended(o)
      \/ jammed # {}
      \/ o \in Polls /\ reader[o] \in {"left", "blind"}
=============================================================================

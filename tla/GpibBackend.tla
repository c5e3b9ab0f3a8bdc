----------------------------- MODULE GpibBackend -----------------------------
(***************************************************************************)
(* LinuxGpibBackend of gpib_bridge/ni_gpib_server.py, one per session, all *)
(* on one adapter and one instrument, and NetworkTransport._bus_op of      *)
(* drivers.py, which climbs from a retry over a re-address to Z recover.   *)
(*                                                                         *)
(* _BUS_LOCK makes each backend call one step.  What a linux-gpib call     *)
(* leaves in its registers is external: Touch lists what it can be.  Some  *)
(* builds of the binding have no iberr(), which then reads as 0.           *)
(***************************************************************************)
EXTENDS Integers

CONSTANTS
  Client,       \* sessions, each with its client's transport
  MaxUpsets     \* bound on what happens to the bench

ASSUME BackendAssumption == MaxUpsets \in Nat

VARIABLES
  build,     \* "full", or "noIberr"
  adapter,   \* "ok" or "gone": the FX2 dropped off USB
  instr,     \* "answers", "silent" or "off"
  board,     \* "ok", or "stale": the addressing state ibonl clears
  handle,    \* handle[s]: "fresh", or "stale": a Gpib object that no longer addresses
  upsets,    \* upsets so far
  bus,       \* where s's bus operation is
  reply,     \* the last reply s's thread sent, and what was true when it did
  upset      \* history: sessions whose operation saw an upset, or started under one

gvars == <<build, adapter, instr, board, handle, upsets, bus, reply, upset>>
world == <<build, adapter, instr, board, upsets>>

Errno == {19, 110}         \* _ERRNO_NAMES
Counts == {0, 7, 19}       \* bytes a read had moved when it timed out

NoReply == [class |-> "none", truth |-> "none", count |-> 0]

BackendInit ==
  /\ build \in {"full", "noIberr"}
  /\ adapter = "ok" /\ instr = "answers" /\ board = "ok" /\ upsets = 0
  /\ handle = [s \in Client |-> "fresh"]
  /\ bus = [s \in Client |-> "idle"]
  /\ reply = [s \in Client |-> NoReply]
  /\ upset = {}

-----------------------------------------------------------------------------
\* The truth of a call on handle h, and the registers it may leave: ibsta's
\* bits, iberr and ibcnt.
Regs(truth, err, sta, counts) ==
  [truth : {truth}, iberr : {IF build = "full" THEN err ELSE 0}, ibsta : {sta}, ibcnt : counts]

Touch(h) ==
  CASE adapter = "gone" -> Regs("gone", 0, {"ERR"}, Errno)
    [] adapter = "ok" /\ (instr = "off" \/ board = "stale" \/ h = "stale") ->
         Regs("noListener", 2, {"ERR"}, {0})
    [] OTHER ->
         IF instr = "silent" THEN Regs("silent", 6, {"ERR", "TIMO"}, Counts)
         ELSE Regs("whole", 0, {"END"}, {7}) \cup Regs("cut", 0, {}, {7}) \cup Regs("cut", 0, {"END"}, {0})

\* mutant: the mapping by iberr alone, which takes a missing iberr for EDVR
Classify_IberrOnly(r) ==
  CASE r.iberr = 6 -> "DEVICE_SILENT"
    [] r.iberr = 2 -> "BUS_WEDGED"
    [] OTHER -> "ADAPTER_WEDGED"

\* _classify_fault.  An iberr of 0 says nothing: an errno in ibcnt, then
\* TIMO, then ERR decide.
Classify(r) ==
  CASE r.iberr = 6 -> "DEVICE_SILENT"
    [] r.iberr = 2 -> "BUS_WEDGED"
    [] r.iberr = 0 ->
         IF r.ibcnt \in Errno THEN "ADAPTER_WEDGED"
         ELSE IF "TIMO" \in r.ibsta THEN "DEVICE_SILENT"
         ELSE IF "ERR" \in r.ibsta THEN "BUS_WEDGED" ELSE "ADAPTER_WEDGED"
    [] OTHER -> "FAULT"

\* A read without END, or of nothing, raises no error of its own.
ReadIsShort(r) == r.ibcnt <= 0 \/ "END" \notin r.ibsta

Answered(r) ==
  IF "ERR" \in r.ibsta THEN Classify(r) ELSE IF ReadIsShort(r) THEN "SHORT_READ" ELSE "="

Say(s, class, r) == reply' = [reply EXCEPT ![s] = [class |-> class, truth |-> r.truth, count |-> r.ibcnt]]

\* The client tells a listener that is missing from every other error by the text.
Sent(s, here, onEnol) ==
  \E r \in Touch(handle[s]) :
    /\ bus[s] = here
    /\ Say(s, Answered(r), r)
    /\ bus' = [bus EXCEPT ![s] = IF r.truth = "noListener" THEN onEnol ELSE "idle"]
    /\ UNCHANGED <<world, handle>>

Begin(s) ==
  /\ bus[s] = "idle"
  /\ bus' = [bus EXCEPT ![s] = "first"]
  /\ reply' = [reply EXCEPT ![s] = NoReply]
  /\ upset' = IF adapter = "ok" /\ instr = "answers" /\ board = "ok" THEN upset \ {s}
              ELSE upset \cup {s}
  /\ UNCHANGED <<world, handle>>

First(s) == Sent(s, "first", "readdress") /\ UNCHANGED upset

\* mutant: A keeps the handle that does not address
Readdress_KeepsHandle(s) ==
  /\ bus[s] = "readdress"
  /\ bus' = [bus EXCEPT ![s] = "again"]
  /\ UNCHANGED <<world, handle, reply, upset>>

\* A: bind makes a new Gpib object.
Readdress(s) ==
  /\ bus[s] = "readdress"
  /\ handle' = [handle EXCEPT ![s] = "fresh"]
  /\ bus' = [bus EXCEPT ![s] = "again"]
  /\ UNCHANGED <<world, reply, upset>>

\* The constructor, or setting its timeout, raises: the client's caller gets that
\* error, and the session keeps the old object unless the new one was made.
ReaddressFails(s) ==
  /\ bus[s] = "readdress"
  /\ \E h \in {handle[s], "fresh"} : handle' = [handle EXCEPT ![s] = h]
  /\ bus' = [bus EXCEPT ![s] = "idle"]
  /\ UNCHANGED <<world, reply, upset>>

Again(s) == Sent(s, "again", "recover") /\ UNCHANGED upset

\* _probe_locked: a serial poll.
Probed(r) == IF "ERR" \in r.ibsta THEN Classify(r) ELSE "OK"

\* recover: ibclr, ibonl, a fresh handle, a serial poll, each whatever became
\* of the one before.  Its verdict goes into the error the client raises.
Recover(s) ==
  /\ bus[s] = "recover"
  /\ UNCHANGED <<build, adapter, upsets, upset>>
  /\ instr' \in IF adapter = "ok" /\ instr = "silent" THEN {"silent", "answers"} ELSE {instr}
  /\ board' = IF adapter = "ok" THEN "ok" ELSE board
  /\ handle' = [handle EXCEPT ![s] = "fresh"]
  /\ \E r \in Touch("fresh")' : Say(s, Probed(r), r)
  /\ bus' = [bus EXCEPT ![s] = "raised"]

\* AdapterNotAnswering reaches the caller.
Raised(s) ==
  /\ bus[s] = "raised"
  /\ bus' = [bus EXCEPT ![s] = "idle"]
  /\ UNCHANGED <<world, handle, reply, upset>>

\* ping: the poll on its own.
Ping(s) ==
  /\ bus[s] = "idle"
  /\ \E r \in Touch(handle[s]) : Say(s, Probed(r), r)
  /\ UNCHANGED <<world, handle, bus, upset>>

\* The bench: a plug is pulled or put back, an instrument hangs or is switched.
Happens ==
  /\ upsets < MaxUpsets
  /\ upsets' = upsets + 1
  /\ upset' = Client
  /\ \/ /\ adapter' = IF adapter = "ok" THEN "gone" ELSE "ok"
        /\ UNCHANGED <<instr, board>>
     \/ /\ instr' \in {"answers", "silent", "off"} \ {instr}
        /\ UNCHANGED <<adapter, board>>
     \/ /\ board = "ok" /\ board' = "stale"
        /\ UNCHANGED <<adapter, instr>>
  /\ UNCHANGED <<build, handle, bus, reply>>

\* One session's object stops addressing; the bus and the others are well.
HandleStales(s) ==
  /\ bus[s] \in {"idle", "first"} /\ upsets < MaxUpsets
  /\ upsets' = upsets + 1
  /\ handle' = [handle EXCEPT ![s] = "stale"]
  /\ UNCHANGED <<build, adapter, instr, board, bus, reply, upset>>

BackendNext ==
  \/ Happens
  \/ \E s \in Client :
       \/ Begin(s) \/ First(s) \/ Readdress(s) \/ ReaddressFails(s) \/ Again(s) \/ Recover(s)
       \/ Raised(s) \/ Ping(s) \/ HandleStales(s)

-----------------------------------------------------------------------------
\* What a reply says is what is so, on either build: data only of a whole
\* read, and "power-cycle the adapter" only when the adapter is gone.
\* Excused, without iberr(): a read that timed out after as many bytes as an
\* errno has for its number.
RepliesAreTrue ==
  \A s \in Client :
    LET said == reply[s]
    IN  /\ said.class = "=" => said.truth = "whole"
        /\ said.class = "BUS_WEDGED" => said.truth = "noListener"
        /\ said.class = "DEVICE_SILENT" => said.truth = "silent"
        /\ said.truth = "gone" => said.class = "ADAPTER_WEDGED"
        /\ said.class = "ADAPTER_WEDGED" =>
             \/ said.truth = "gone"
             \/ build = "noIberr" /\ said.truth = "silent" /\ said.count \in Errno

\* A session whose own handle went stale never escalates to recover, which clears the
\* bus under everybody: re-addressing once gets it through, or is itself what fails.
\* It recovers only if something was wrong with the bus or the instrument.
ReaddressSuffices ==
  \A s \in Client : bus[s] \in {"recover", "raised"} => s \in upset
=============================================================================

---------------------------- MODULE RaspikeSensor ----------------------------
(***************************************************************************)
(* Reading a sensor that has modes (DELAYED_SENSOR_COMMON, used by the     *)
(* colour sensor): if the status block does not say that the port is in    *)
(* the mode wanted, the mode is asked for and a status frame that says so  *)
(* is waited for; then, in another section of fgStatusMutex, the data is   *)
(* read.  The status block is written by the receiver: by status frames,   *)
(* by drive telemetry, and by a HELLO of a new session, which zeroes it.   *)
(*                                                                         *)
(* One port: ports share short sections of fgStatusMutex, each one step,   *)
(* and the send buffer, of which fg_send_buffer holds the frames of this   *)
(* port.  It is left with a frame when a flush fails, and whoever flushes  *)
(* next sends it.  What was measured is the mode it was measured in.       *)
(* The hub is external: it carries out changes of mode in their order; a   *)
(* status frame names the mode its data was measured in; drive telemetry   *)
(* has a reflection only while the sensor measures that.                   *)
(***************************************************************************)
EXTENDS Integers, Sequences

CONSTANTS
  User,          \* application threads
  Mode,          \* commands that select a mode
  Reflection,    \* RP_CMD_ID_COL_REF, the mode that drive telemetry reports on
  NoMode,        \* cmd 0
  Zero, Mixed,   \* data of zeros; data of one mode written over that of another
  \* bounds: getters called, sessions, frames in flight, frames in the send buffer
  MaxReads, MaxSession, LinkCapacity, BufferCapacity

ASSUME SensorAssumption ==
  /\ Reflection \in Mode /\ NoMode \notin Mode
  /\ {Zero, Mixed} \cap Mode = {} /\ Zero # Mixed
  /\ MaxReads \in Nat /\ MaxSession \in Nat \ {0}
  /\ LinkCapacity \in Nat /\ BufferCapacity \in Nat

VARIABLES
  fgStatus,        \* the entry of the port; session is history, that of its data
  fgSessionId, clearing,  \* the HELLO handler has still to zero the status block
  pc, want, result,  \* where each user is; the mode wanted; what its last getter returned
  sentIn,          \* history: the session of the change of mode it asked for
  disturbed,       \* history: getters have overlapped, or one gave up too early, and
                   \*          no new session has wiped the traces of it
  reads,           \* bound: getters called so far
  fg_send_buffer,  \* frames of this port that are still to be flushed
  toHub, toHost,   \* frames in flight
  hubSession, hubMode

users  == <<pc, want, result, sentIn, disturbed, reads>>
status == <<fgStatus, fgSessionId, clearing>>
sent   == <<fg_send_buffer, toHub>>
link   == <<sent, toHost>>
hub    == <<hubSession, hubMode>>
vars   == <<users, status, link, hub>>

Data     == Mode \cup {Zero, Mixed}
Sessions == 1..MaxSession
Entry    == [cmd : Mode \cup {NoMode}, data : Data, session : 0..MaxSession]
Cleared  == [cmd |-> NoMode, data |-> Zero, session |-> 0]

Changes == [mode : Mode, session : Sessions]
Frames  == [type : {"status", "telemetry", "hello"}, session : Sessions,
            mode : Mode \cup {NoMode}]

Init ==
  /\ fgStatus = Cleared /\ fgSessionId = 1 /\ clearing = FALSE
  /\ pc = [u \in User |-> "idle"]
  /\ want = [u \in User |-> Reflection] /\ result = [u \in User |-> Zero]
  /\ sentIn = [u \in User |-> 0]
  /\ disturbed = FALSE /\ reads = 0
  /\ fg_send_buffer = <<>> /\ toHub = <<>> /\ toHost = <<>>
  /\ hubSession = 1 /\ hubMode = NoMode

Goto(u, label) == pc' = [pc EXCEPT ![u] = label]

-----------------------------------------------------------------------------
(* DELAYED_SENSOR_COMMON *)

Get(u, m) ==
  /\ pc[u] = "idle" /\ reads < MaxReads
  /\ reads' = reads + 1
  /\ want' = [want EXCEPT ![u] = m]
  /\ disturbed' = (disturbed \/ \E v \in User : pc[v] # "idle")
  /\ Goto(u, "check")
  /\ UNCHANGED <<result, sentIn, status, link, hub>>

\* raspike_port_com_change_if_needed: already_set ...
CheckMode(u) ==
  /\ pc[u] = "check"
  /\ Goto(u, IF fgStatus.cmd = want[u] THEN "read" ELSE "send")
  /\ UNCHANGED <<want, result, sentIn, disturbed, reads, status, link, hub>>

Wanted(u) == [mode |-> want[u], session |-> fgSessionId]

Transmit(frames) ==
  /\ Len(toHub) + Len(frames) <= LinkCapacity
  /\ toHub' = toHub \o frames

\* ... or the mode is asked for with a priority frame: behind what the buffer holds in
\* BUFFERED mode, ahead of it in NORMAL mode,
SendChange(u) ==
  /\ pc[u] = "send"
  /\ \/ Transmit(Append(fg_send_buffer, Wanted(u)))
     \/ Transmit(<<Wanted(u)>> \o fg_send_buffer)
  /\ fg_send_buffer' = <<>>
  /\ sentIn' = [sentIn EXCEPT ![u] = fgSessionId]
  /\ Goto(u, "wait")
  /\ UNCHANGED <<want, result, disturbed, reads, status, toHost, hub>>

ReturnZero(u) == Goto(u, "idle") /\ result' = [result EXCEPT ![u] = Zero]

\* no link, no room in the buffer, or a NORMAL write that fails,
SendFails(u) ==
  /\ pc[u] = "send"
  /\ ReturnZero(u)
  /\ UNCHANGED <<want, sentIn, disturbed, reads, status, link, hub>>

\* or its flush fails, after n frames of this port have gone: the buffer is kept whole, with
\* the frame in it, or the frame has gone ahead of it.
FlushFails(u) ==
  /\ pc[u] = "send"
  /\ \/ /\ Len(fg_send_buffer) < BufferCapacity
        /\ fg_send_buffer' = Append(fg_send_buffer, Wanted(u))
        /\ \E n \in 0..(Len(fg_send_buffer) + 1) : Transmit(SubSeq(fg_send_buffer', 1, n))
     \/ /\ \E n \in 0..Len(fg_send_buffer) :
             Transmit(<<Wanted(u)>> \o SubSeq(fg_send_buffer, 1, n))
        /\ UNCHANGED fg_send_buffer
  /\ sentIn' = [sentIn EXCEPT ![u] = fgSessionId]
  /\ disturbed' = TRUE
  /\ ReturnZero(u)
  /\ UNCHANGED <<want, reads, status, toHost, hub>>

\* A flush for another port, or by the application, succeeds, or fails after n frames.
Flush ==
  /\ fg_send_buffer # <<>>
  /\ \/ Transmit(fg_send_buffer) /\ fg_send_buffer' = <<>>
     \/ /\ \E n \in 1..Len(fg_send_buffer) : Transmit(SubSeq(fg_send_buffer, 1, n))
        /\ UNCHANGED fg_send_buffer
  /\ UNCHANGED <<users, status, toHost, hub>>

\* Mutant: nothing is waited for.
ModeReportedAtOnce(u) ==
  /\ pc[u] = "wait"
  /\ Goto(u, "read")
  /\ UNCHANGED <<want, result, sentIn, disturbed, reads, status, link, hub>>

\* and raspike_wait_port_cmd_change waits for the report ...
ModeReported(u) ==
  /\ pc[u] = "wait" /\ fgStatus.cmd = want[u]
  /\ Goto(u, "read")
  /\ UNCHANGED <<want, result, sentIn, disturbed, reads, status, link, hub>>

\* What u asked for may still be reported, or the status block bear traces of it.
UnderWay(u) == sentIn[u] = fgSessionId \/ clearing

\* ... for one second.
WaitTimesOut(u) ==
  /\ pc[u] = "wait" /\ fgStatus.cmd # want[u]
  /\ disturbed' = (disturbed \/ UnderWay(u))
  /\ ReturnZero(u)
  /\ UNCHANGED <<want, sentIn, reads, status, link, hub>>

\* The mode was right; now the data is read.
ReadData(u) ==
  /\ pc[u] = "read"
  /\ result' = [result EXCEPT ![u] = fgStatus.data]
  /\ Goto(u, "idle")
  /\ UNCHANGED <<want, sentIn, disturbed, reads, status, link, hub>>

-----------------------------------------------------------------------------
(* process_command; a frame of another session is dropped. *)

Receiving(type) ==
  /\ ~clearing /\ toHost # <<>> /\ Head(toHost).type = type
  /\ toHost' = Tail(toHost)

OfThisSession == Head(toHost).session = fgSessionId

\* Mutant: the session is not looked at.
ReceiveAnyStatus ==
  /\ Receiving("status")
  /\ LET f == Head(toHost) IN
       fgStatus' = [cmd |-> f.mode, data |-> IF f.mode = NoMode THEN Zero ELSE f.mode,
                    session |-> f.session]
  /\ UNCHANGED <<users, fgSessionId, clearing, sent, hub>>

ReceiveStatus ==
  /\ Receiving("status")
  /\ LET f == Head(toHost) IN
       fgStatus' = IF ~OfThisSession THEN fgStatus ELSE
         [cmd |-> f.mode, data |-> IF f.mode = NoMode THEN Zero ELSE f.mode,
          session |-> f.session]
  /\ UNCHANGED <<users, fgSessionId, clearing, sent, hub>>

\* The reflection goes over the first bytes of the data; cmd stays.
ReceiveTelemetry ==
  /\ Receiving("telemetry")
  /\ fgStatus' = IF ~OfThisSession THEN fgStatus ELSE
       [fgStatus EXCEPT !.data = IF @ \in {Zero, Reflection} THEN Reflection ELSE Mixed,
                        !.session = fgSessionId]
  /\ UNCHANGED <<users, fgSessionId, clearing, sent, hub>>

\* Mutant: the session is counted, not taken from the frame.
ReceiveHelloCounted ==
  /\ Receiving("hello")
  /\ fgSessionId' = fgSessionId + 1
  /\ clearing' = ~OfThisSession
  /\ UNCHANGED <<users, fgStatus, sent, hub>>

\* process_hello_payload publishes the session ...
ReceiveHello ==
  /\ Receiving("hello")
  /\ fgSessionId' = Head(toHost).session
  /\ clearing' = ~OfThisSession
  /\ UNCHANGED <<users, fgStatus, sent, hub>>

\* No getter is inside, none has asked for anything in this session.
Untouched == \A u \in User : pc[u] = "idle" /\ sentIn[u] # fgSessionId

\* ... and, once it has reset the ports, zeroes the status block.
ClearStatus ==
  /\ clearing /\ clearing' = FALSE
  /\ fgStatus' = Cleared
  /\ disturbed' = (disturbed /\ ~Untouched)
  /\ UNCHANGED <<pc, want, result, sentIn, reads, fgSessionId, link, hub>>

-----------------------------------------------------------------------------
(* The hub. *)

HubChangesMode ==
  /\ toHub # <<>> /\ toHub' = Tail(toHub)
  /\ hubMode' = IF Head(toHub).session = hubSession THEN Head(toHub).mode ELSE hubMode
  /\ UNCHANGED <<users, status, fg_send_buffer, toHost, hubSession>>

LoseChange ==
  /\ toHub # <<>> /\ toHub' = Tail(toHub)
  /\ UNCHANGED <<users, status, fg_send_buffer, toHost, hub>>

HubSends(type) ==
  /\ type = "telemetry" => hubMode = Reflection
  /\ Len(toHost) < LinkCapacity
  /\ toHost' = Append(toHost, [type |-> type, session |-> hubSession, mode |-> hubMode])
  /\ UNCHANGED <<users, status, sent, hub>>

HubRestart ==
  /\ hubSession < MaxSession
  /\ hubSession' = hubSession + 1 /\ hubMode' = NoMode
  /\ UNCHANGED <<users, status, link>>

Getter(u) ==
  \/ CheckMode(u) \/ SendChange(u) \/ SendFails(u) \/ FlushFails(u)
  \/ ModeReported(u) \/ WaitTimesOut(u) \/ ReadData(u)

Next ==
  \/ \E u \in User : Getter(u) \/ \E m \in Mode : Get(u, m)
  \/ Flush \/ ReceiveStatus \/ ReceiveTelemetry \/ ReceiveHello \/ ClearStatus
  \/ HubChangesMode \/ LoseChange \/ HubRestart
  \/ HubSends("status") \/ HubSends("telemetry") \/ HubSends("hello")

Spec == Init /\ [][Next]_vars

-----------------------------------------------------------------------------
(* Properties. *)

\* Every variable has its type.
TypeOK ==
  /\ fgStatus \in Entry /\ fgSessionId \in Sessions /\ clearing \in BOOLEAN
  /\ pc \in [User -> {"idle", "check", "send", "wait", "read"}]
  /\ want \in [User -> Mode] /\ result \in [User -> Data]
  /\ sentIn \in [User -> 0..MaxSession] /\ disturbed \in BOOLEAN /\ reads \in 0..MaxReads
  /\ toHub \in Seq(Changes) /\ toHost \in Seq(Frames)
  /\ fg_send_buffer \in Seq(Changes) /\ Len(fg_send_buffer) <= BufferCapacity
  /\ Len(toHub) <= LinkCapacity /\ Len(toHost) <= LinkCapacity
  /\ hubSession \in Sessions /\ hubMode \in Mode \cup {NoMode}

\* Once a HELLO has been handled, the status block holds nothing of an earlier session,
\* although frames of it may still arrive. (The session check of process_command and the
\* zeroing in process_hello_payload.)
StatusOfThisSession == ~clearing => fgStatus.session \in {0, fgSessionId}

Reads(u) == pc[u] = "read" /\ pc'[u] = "idle"

\* As long as getters do not overlap, and none gave up on a change of mode in the session
\* it was asked for in, be it for a report that did not come or for a flush that failed, a
\* getter returns data of the mode it is for, or zeros, whatever telemetry, new sessions and
\* frames of earlier sessions that leave the send buffer late do. What was disturbed is in
\* order again once a new session begins with no getter inside. (The report of the mode is waited
\* for before the data is read; a frame bears the session it was made in.)
UndisturbedGetterGetsItsMode == [][\A u \in User :
  Reads(u) /\ ~disturbed => result'[u] \in {want[u], Zero}]_vars

\* The same without conditions. (colorsensor.h: "Get the percentage of how much a surface
\* reflects the light emmited by the sensor", "Get the ambient light intensity".)
GetterGetsItsMode == [][\A u \in User :
  Reads(u) => result'[u] \in {want[u], Zero}]_vars
=============================================================================

------------------------------ MODULE RaspikeLink ------------------------------
(***************************************************************************)
(* The byte stream between hub and host, as raspike_protocol.c reads it:   *)
(* the handshake of raspike_prot_init (INIT, version, legacy HELLO), and   *)
(* raspike_prot_receive with its two kinds of frames, v2 (checksummed) and *)
(* legacy (not).  One thread reads: the one that calls init and then       *)
(* receive.  Bytes can be lost or changed on their way, any read can time  *)
(* out, the hub can restart.                                               *)
(*                                                                         *)
(* Bytes are the program's; only the 32-bit fields (sequence, session),    *)
(* the flags and the version of the firmware are cut to one byte each, and *)
(* the HELLO payload to version and session.  The sequence numbers the     *)
(* frames of the hub, to tell them apart.  The checksum is a parameter,    *)
(* which TLC gets from RaspikeCrc.                                         *)
(***************************************************************************)
EXTENDS Integers, Sequences, SequencesExt, FiniteSets

CONSTANTS
  rp_v2_crc16(_),  \* the checksum of a sequence of bytes
  Payload,      \* payload bytes of the hub's frames
  Noise,        \* what a damaged byte can become
  Chunk,        \* how many bytes can arrive at a time, besides all
  Attempts,     \* RP_HANDSHAKE_ATTEMPTS
  MaxPayload,   \* RP_V2_MAX_PAYLOAD
  Backlog,      \* bound: bytes on their way when the hub sends more
  MaxFrames,    \* bound: frames the hub sends
  MaxRestarts,  \* bound: restarts of the hub
  MaxFaults     \* bound: bytes lost or changed, and frames that time out half way

Byte == 0..255

INIT == 174   START == 234   MAGIC == 206   V2_START == 235
V2_VERSION == 2
PORT_NONE == 255
HELLO_SIZE == 2
FIRMWARE == 3              \* SPIKE_EXPECTED_VERSION_*

\* Commands: type in the upper three bits, index in the lower five.
MAKE_CMD(type, id) == type * 32 + id
ALL_STATUS == MAKE_CMD(0, 1)
ACK        == MAKE_CMD(0, 2)
LINK_HELLO == MAKE_CMD(0, 8)
DRIVE_TELEMETRY   == MAKE_CMD(0, 12)
RUNTIME_TELEMETRY == MAKE_CMD(0, 14)
\* The payload of a command whose size is checked.
PayloadSize == [cmd \in {ALL_STATUS, ACK, DRIVE_TELEMETRY, RUNTIME_TELEMETRY} |->
                  IF cmd = ALL_STATUS THEN 1 ELSE 2]

raspike_is_valid_port(port) == port < 6 \/ port = PORT_NONE

ASSUME LinkAssumption ==
  /\ Payload \cup Noise \subseteq Byte
  /\ Chunk \subseteq Nat \ {0}
  /\ Attempts \in Nat \ {0} /\ MaxPayload \in Nat /\ MaxPayload >= HELLO_SIZE
  /\ {Backlog, MaxRestarts, MaxFaults} \subseteq Nat
  /\ {MaxFrames, MaxRestarts + 1} \subseteq Byte   \* the sequence, and the session

-----------------------------------------------------------------------------
(* The checksum and the frames. *)

rp_v2_put_u16(value) == <<value % 256, value \div 256>>
rp_v2_get_u16(p) == p[1] + 256 * p[2]

V2Body(cmd, port, sequence, session, payload) ==
  <<V2_VERSION, cmd, port, Len(payload), sequence, session>> \o payload
V2Frame(body) == <<V2_START>> \o body \o rp_v2_put_u16(rp_v2_crc16(body))
HEADER == 6          \* bytes of the body before its payload
CRC_SIZE == 2

LegacyFrame(cmd, port, payload) == <<START, cmd, Len(payload), port>> \o payload
Hello(session) == LegacyFrame(LINK_HELLO, PORT_NONE, <<V2_VERSION, session>>)
HandshakeAnswer(session) == <<INIT, MAGIC, FIRMWARE>> \o Hello(session)

\* What the hub puts in its frames.
Status(number, session, byte) == V2Body(ALL_STATUS, PORT_NONE, number, session, <<byte>>)
HubBody == {Status(number, session, byte) :
              number \in 1..MaxFrames, session \in 1..(MaxRestarts + 1), byte \in Payload}

\* The checksum has 16 bits.
ASSUME ChecksumAssumption ==
  \A body \in HubBody : rp_v2_crc16(body) \in Nat /\ rp_v2_crc16(body) < 65536

\* No data looks like the beginning of a HELLO, to which the handshake scans.
ASSUME LookalikeAssumption ==
  \A body \in HubBody : \A i \in 1..(Len(V2Frame(body)) - 4) :
    SubSeq(V2Frame(body), i, i + 4) # <<START, LINK_HELLO, HELLO_SIZE, PORT_NONE, V2_VERSION>>

-----------------------------------------------------------------------------
VARIABLES
  phase,        \* what the reading thread is about to read
  attempt,      \* of the handshake
  header,       \* bytes of the frame read so far
  fgSessionId,
  fgLinkStats,  \* the counters of received frames and errors
  line,         \* bytes the host has not read
  inits,        \* external: INIT bytes that the hub has not answered
  hub,          \* external: session, frames and restarts so far
  hubOut,       \* external: bytes that have not arrived
  sent,         \* history: bodies of the frames sent
  delivered,    \* history: bodies handed to process_command, in order
  first,        \* history: number of the first frame sent since init succeeded
  reads,        \* history: calls of raspike_prot_receive that found a byte
  damage, timeouts   \* bounds, and history: bytes damaged; reads that timed out

host    == <<phase, attempt, header, fgSessionId, fgLinkStats>>
world   == <<inits, hub, hubOut, sent>>
history == <<delivered, first, reads>>
faults  == <<damage, timeouts>>
vars    == <<host, line, world, history, faults>>

Init ==
  /\ phase = "init" /\ attempt = 0 /\ header = <<>>
  /\ fgSessionId = 0
  /\ fgLinkStats = [rx_frames |-> 0, crc_errors |-> 0, framing_errors |-> 0,
                    session_errors |-> 0]
  /\ line = <<>> /\ inits = 0
  /\ hub = [session |-> 1, frames |-> 0, restarts |-> 0] /\ hubOut = <<>>
  /\ sent = {} /\ delivered = <<>> /\ first = 0 /\ reads = 0
  /\ damage = 0 /\ timeouts = 0

Drop(n) == SubSeq(line, n + 1, Len(line))
Got(n)  == SubSeq(line, 1, n)

\* raspike_com_receive_timeout of n bytes: all of them, or only some before the time is
\* up; those are lost.
Read(n) == n <= Len(line) /\ line' = Drop(n)
TimesOut(n) == \E k \in 0..(n - 1) :
  /\ k <= Len(line) /\ (k = 0 => line = <<>>)
  /\ line' = Drop(k)

-----------------------------------------------------------------------------
(* raspike_prot_init. *)

Retry == IF attempt < Attempts THEN "init" ELSE "failed"

Waiting(next) ==
  /\ phase' = next
  /\ UNCHANGED <<attempt, header, fgSessionId, fgLinkStats, world, history, faults>>

BeginAttempt ==
  /\ phase = "init"
  /\ line' = <<>>
  /\ attempt' = attempt + 1 /\ inits' = inits + 1
  /\ phase' = "scan"
  /\ UNCHANGED <<header, fgSessionId, fgLinkStats, hub, hubOut, sent, history, faults>>

\* scan_for_byte: everything before the target is skipped.
Scan(target, next) ==
  \/ \E at \in 1..Len(line) :
       /\ line[at] = target /\ \A i \in 1..(at - 1) : line[i] # target
       /\ line' = Drop(at) /\ Waiting(next)
  \/ /\ line # <<>> /\ \A i \in 1..Len(line) : line[i] # target
     /\ line' = <<>> /\ UNCHANGED <<host, world, history, faults>>

ScanInit  == phase = "scan" /\ Scan(INIT, "magic")
ReadMagic == phase = "magic" /\ Read(1) /\ Waiting(IF Head(line) = MAGIC THEN "version"
                                                  ELSE Retry)
\* A version other than the expected one ends init.
ReadVersion == phase = "version" /\ Read(1) /\ Waiting(IF Head(line) = FIRMWARE
                                                       THEN "hello" ELSE "failed")
\* receive_legacy_hello
ScanHello == phase = "hello" /\ Scan(START, "hello_header")
ReadHelloHeader ==
  /\ phase = "hello_header" /\ Read(3)
  /\ Waiting(IF Got(3) = <<LINK_HELLO, HELLO_SIZE, PORT_NONE>> THEN "hello_payload"
             ELSE "failed")

ReadHelloPayload ==
  /\ phase = "hello_payload" /\ Read(HELLO_SIZE)
  /\ fgSessionId' = IF Got(2)[1] = V2_VERSION THEN Got(2)[2] ELSE fgSessionId
  /\ phase' = IF Got(2)[1] = V2_VERSION /\ Got(2)[2] # 0 THEN "start" ELSE "failed"
  /\ first' = hub.frames + 1
  /\ UNCHANGED <<attempt, header, fgLinkStats, world, delivered, reads, faults>>

\* The deadlines of the handshake: for an attempt they are followed by the next one.
HandshakeTimesOut ==
  \/ /\ phase \in {"scan", "hello"} /\ UNCHANGED line
     /\ Waiting(IF phase = "scan" THEN Retry ELSE "failed")
  \/ phase \in {"magic", "version"} /\ TimesOut(1) /\ Waiting(Retry)
  \/ phase = "hello_header" /\ TimesOut(3) /\ Waiting("failed")
  \/ phase = "hello_payload" /\ TimesOut(HELLO_SIZE) /\ Waiting("failed")

-----------------------------------------------------------------------------
(* raspike_prot_receive. *)

Count(counters) ==
  fgLinkStats' = [c \in DOMAIN fgLinkStats |->
                    fgLinkStats[c] + (IF c \in counters THEN 1 ELSE 0)]

\* A frame has been read, or given up: the next call starts with the next byte.
Return(counters) ==
  /\ phase' = "start" /\ header' = <<>>
  /\ Count(counters)

Continue(next, bytes) == phase' = next /\ header' = bytes /\ UNCHANGED fgLinkStats

\* Mutant: a byte that starts no frame empties the input.
ReadStartFlushing ==
  /\ phase = "start" /\ line # <<>>
  /\ reads' = reads + 1
  /\ \/ /\ Head(line) = V2_START /\ Continue("v2_header", <<>>)
        /\ line' = Tail(line)
     \/ Head(line) = START /\ Continue("legacy_header", <<>>) /\ line' = Tail(line)
     \/ /\ Head(line) \notin {START, V2_START}
        /\ Return({"framing_errors"}) /\ line' = <<>>
  /\ UNCHANGED <<attempt, fgSessionId, world, delivered, first, faults>>

ReadStart ==
  /\ phase = "start" /\ Read(1)
  /\ reads' = reads + 1
  /\ CASE Head(line) = V2_START -> Continue("v2_header", <<>>)
       [] Head(line) = START    -> Continue("legacy_header", <<>>)
       [] OTHER                 -> Return({"framing_errors"})
  /\ UNCHANGED <<attempt, fgSessionId, world, delivered, first, faults>>

HelloSession(payload) ==
  IF Len(payload) = HELLO_SIZE /\ payload[1] = V2_VERSION THEN payload[2] ELSE 0

\* Mutant: a HELLO after the handshake is ignored.
SessionKept(cmd, payload) == fgSessionId

\* process_hello_payload: a HELLO of another session switches to it at once (what else
\* it resets is in RaspikeRequest and RaspikeSensor).
SessionAfter(cmd, payload) ==
  IF cmd = LINK_HELLO /\ HelloSession(payload) # 0 THEN HelloSession(payload)
  ELSE fgSessionId

\* process_command (what a command does is in the other modules): the counters depend on
\* why a frame is dropped; a payload of the wrong size is dropped uncounted.
process_command(cmd, port, session, payload) ==
  /\ fgSessionId' = SessionAfter(cmd, payload)
  /\ Return(CASE cmd = LINK_HELLO -> {"rx_frames"}
              [] cmd # LINK_HELLO /\ ~raspike_is_valid_port(port) -> {"framing_errors"}
              [] cmd # LINK_HELLO /\ raspike_is_valid_port(port) /\ session # fgSessionId
                   -> {"session_errors", "rx_frames"}
              [] cmd \in DOMAIN PayloadSize /\ raspike_is_valid_port(port)
                 /\ session = fgSessionId /\ Len(payload) # PayloadSize[cmd] -> {}
              [] OTHER -> {"rx_frames"})

\* Mutant: the size is not compared with the buffer.
ReadV2HeaderUnchecked ==
  /\ phase = "v2_header" /\ Read(HEADER)
  /\ Continue(IF Head(line) # V2_VERSION THEN "discard" ELSE "v2_payload", Got(HEADER))
  /\ UNCHANGED <<attempt, fgSessionId, world, history, faults>>

\* receive_v2_frame: a frame of another version, or too large, is skipped.
ReadV2Header ==
  /\ phase = "v2_header" /\ Read(HEADER)
  /\ Continue(IF Head(line) # V2_VERSION \/ Got(HEADER)[4] > MaxPayload
              THEN "discard" ELSE "v2_payload", Got(HEADER))
  /\ UNCHANGED <<attempt, fgSessionId, world, history, faults>>

Discard ==
  /\ phase = "discard"
  /\ Read(header[4] + CRC_SIZE) \/ TimesOut(header[4] + CRC_SIZE)
  /\ Return({"framing_errors"})
  /\ UNCHANGED <<attempt, fgSessionId, world, history, faults>>

\* Mutant: the checksum is read and not compared.
IntactUnchecked(body, crc) == TRUE

Intact(body, crc) == rp_v2_get_u16(crc) = rp_v2_crc16(body)

\* Mutant: a damaged frame is counted as received, too.
BadFrameReceived ==
  Return({"crc_errors", "rx_frames"}) /\ UNCHANGED <<fgSessionId, delivered>>

BadFrame == Return({"crc_errors"}) /\ UNCHANGED <<fgSessionId, delivered>>

ReadV2Payload ==
  /\ phase = "v2_payload"
  /\ LET size    == header[4]
         payload == Got(size)
         crc     == SubSeq(line, size + 1, size + CRC_SIZE)
     IN /\ Read(size + CRC_SIZE)
        /\ \/ /\ Intact(header \o payload, crc)
              /\ process_command(header[2], header[3], header[6], payload)
              /\ delivered' = IF header[6] = fgSessionId
                              THEN Append(delivered, header \o payload) ELSE delivered
           \/ ~Intact(header \o payload, crc) /\ BadFrame
  /\ UNCHANGED <<attempt, world, first, reads, faults>>

\* receive_legacy_frame: no checksum, and the session is the current one.
ReadLegacyHeader ==
  /\ phase = "legacy_header" /\ Read(3)
  /\ IF raspike_is_valid_port(Got(3)[3]) THEN Continue("legacy_payload", Got(3))
     ELSE Return({"framing_errors"})
  /\ UNCHANGED <<attempt, fgSessionId, world, history, faults>>

ReadLegacyPayload ==
  /\ phase = "legacy_payload" /\ Read(header[2])
  /\ process_command(header[1], header[3], fgSessionId, Got(header[2]))
  /\ UNCHANGED <<attempt, world, history, faults>>

\* A frame that does not arrive in time: what was read of it is lost.
FrameTimesOut ==
  /\ \/ phase = "v2_header" /\ TimesOut(HEADER)
     \/ phase = "v2_payload" /\ TimesOut(header[4] + CRC_SIZE)
     \/ phase = "legacy_header" /\ TimesOut(3)
     \/ phase = "legacy_payload" /\ TimesOut(header[2])
  /\ damage + timeouts < MaxFaults /\ timeouts' = timeouts + 1
  /\ Return({})
  /\ UNCHANGED <<attempt, fgSessionId, world, history, damage>>

\* raspike_link_get_stats, of the calls of raspike_prot_receive that found a byte.
Counted == fgLinkStats.rx_frames + fgLinkStats.crc_errors + fgLinkStats.framing_errors

-----------------------------------------------------------------------------
(* The hub and the wire: not part of the repository. *)

\* The hub answers every INIT with its version and a HELLO.
HubAnswer ==
  /\ inits > 0 /\ inits' = inits - 1
  /\ hubOut' = hubOut \o HandshakeAnswer(hub.session)
  /\ UNCHANGED <<host, line, hub, sent, history, faults>>

HubSend ==
  /\ hub.frames < MaxFrames /\ Len(hubOut) < Backlog
  /\ \E byte \in Payload :
       LET body == Status(hub.frames + 1, hub.session, byte)
       IN sent' = sent \cup {body} /\ hubOut' = hubOut \o V2Frame(body)
  /\ hub' = [hub EXCEPT !.frames = @ + 1]
  /\ UNCHANGED <<host, line, inits, history, faults>>

\* A restarted hub has a new session and says so.
HubRestart ==
  /\ hub.restarts < MaxRestarts /\ Len(hubOut) < Backlog
  /\ hub' = [hub EXCEPT !.session = @ + 1, !.restarts = @ + 1]
  /\ hubOut' = hubOut \o Hello(hub.session + 1)
  /\ UNCHANGED <<host, line, inits, sent, history, faults>>

\* Some or all of the bytes on their way arrive, and one may be lost or changed.
Arrive ==
  /\ hubOut # <<>>
  /\ \E n \in Chunk \cup {Len(hubOut)} :
       /\ n <= Len(hubOut)
       /\ LET bytes == SubSeq(hubOut, 1, n) IN
            \/ line' = line \o bytes /\ UNCHANGED damage
            \/ /\ damage + timeouts < MaxFaults /\ damage' = damage + 1
               /\ \E i \in 1..n :
                    \/ line' = line \o RemoveAt(bytes, i)
                    \/ \E byte \in Noise : line' = line \o ReplaceAt(bytes, i, byte)
       /\ hubOut' = SubSeq(hubOut, n + 1, Len(hubOut))
  /\ UNCHANGED <<host, inits, hub, sent, history, timeouts>>

Next ==
  \/ BeginAttempt \/ ScanInit \/ ReadMagic \/ ReadVersion
  \/ ScanHello \/ ReadHelloHeader \/ ReadHelloPayload \/ HandshakeTimesOut
  \/ ReadStart \/ ReadV2Header \/ ReadV2Payload \/ Discard
  \/ ReadLegacyHeader \/ ReadLegacyPayload \/ FrameTimesOut
  \/ HubAnswer \/ HubSend \/ HubRestart \/ Arrive

Spec == Init /\ [][Next]_vars

-----------------------------------------------------------------------------
(* What must hold. *)

\* Every variable keeps its type, and a payload fits the buffer it is read into
\* (receive_v2_frame checks the size byte before it reads).
TypeOK ==
  /\ attempt \in 0..Attempts
  /\ {line[i] : i \in 1..Len(line)} \subseteq Byte
  /\ fgSessionId \in Byte
  /\ phase = "v2_payload" => header[4] <= MaxPayload

Clean == damage = 0 /\ timeouts = 0
Quiet == phase = "start" /\ line = <<>> /\ hubOut = <<>>

\* Whatever was lost, changed or left over: a v2 frame that is processed is one the hub
\* sent, and frames are processed in the order they were sent, none of them twice.
Genuine ==
  /\ \A i \in 1..Len(delivered) : delivered[i] \in sent
  /\ \A i, j \in 1..Len(delivered) : i < j => delivered[i][5] < delivered[j][5]

\* Late answers to earlier attempts of the handshake, HELLOs and data that looks like a
\* start byte cost no frame: without damage, everything the hub sends after
\* raspike_prot_init succeeded is processed.
NothingMissed ==
  Quiet /\ Clean => \A body \in sent :
    body[5] >= first => \E i \in 1..Len(delivered) : delivered[i] = body

\* Without damage the host ends up in the session of the hub, whichever of several
\* HELLOs (answers to repeated INITs, restarts) the handshake consumed.
SessionAgrees == Quiet /\ Clean => fgSessionId = hub.session

\* raspike_link_get_stats: a call of raspike_prot_receive that finds a byte counts at
\* most once, and exactly once if nothing was damaged.
CountedOnce ==
  /\ Counted <= reads /\ fgLinkStats.session_errors <= fgLinkStats.rx_frames
  /\ phase = "start" /\ Clean => Counted = reads
=============================================================================

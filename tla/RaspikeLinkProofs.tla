-------------------------- MODULE RaspikeLinkProofs --------------------------
(***************************************************************************)
(* Proofs about RaspikeLink, for any payloads, chunks, damage, checksum    *)
(* and bounds.  Shaped and Tallied hold whatever happens to the bytes.     *)
(* While nothing is damaged, the bytes the hub ever sent can be cut into   *)
(* units (InStep), and the reading thread is where one begins.             *)
(***************************************************************************)
EXTENDS RaspikeLink, SequenceTheorems, TLAPS

Handshaking == {"init", "scan", "magic", "version", "hello", "hello_header", "hello_payload",
                "failed"}
\* A call of raspike_prot_receive that has read a byte.
Busy == {"v2_header", "v2_payload", "discard", "legacy_header", "legacy_payload"}
Receiving == {"start"} \cup Busy

Stats == [rx_frames : Nat, crc_errors : Nat, framing_errors : Nat, session_errors : Nat]

\* The types, with what a header that has been read says of its frame.
Shaped ==
  /\ phase \in Handshaking \cup Receiving
  /\ attempt \in 0..Attempts /\ (phase = "init" => attempt < Attempts)
  /\ line \in Seq(Byte) /\ hubOut \in Seq(Byte) /\ header \in Seq(Byte)
  /\ phase \in {"v2_payload", "discard"} => Len(header) = HEADER
  /\ phase = "v2_payload" => header[4] <= MaxPayload
  /\ phase = "legacy_payload" => Len(header) = 3
  /\ fgSessionId \in Byte /\ fgLinkStats \in Stats
  /\ hub \in [session : 1..(MaxRestarts + 1), frames : 0..MaxFrames, restarts : 0..MaxRestarts]
  /\ hub.session = hub.restarts + 1
  /\ sent \subseteq HubBody
  /\ {inits, first, reads, damage, timeouts} \subseteq Nat
  /\ delivered \in Seq(Seq(Byte))
  /\ phase \notin Receiving => delivered = <<>>

\* No call is counted before it is over.
Tallied ==
  /\ Counted <= reads /\ (phase \in Busy => Counted < reads)
  /\ fgLinkStats.session_errors <= fgLinkStats.rx_frames
  /\ phase \notin Receiving => Counted = reads

-----------------------------------------------------------------------------
(* The bytes w that the hub ever sent, and the set B of the places where a   *)
(* unit begins: a HELLO, a status frame, or a byte of the answer to INIT.    *)

Size(byte) == IF byte = V2_START THEN 10 ELSE IF byte = START THEN 6 ELSE 1

Body(w, b) == SubSeq(w, b + 1, b + 7)

IsHello(w, b) ==
  /\ w[b] = START /\ w[b + 1] = LINK_HELLO /\ w[b + 2] = HELLO_SIZE
  /\ w[b + 3] = PORT_NONE /\ w[b + 4] = V2_VERSION

\* The bytes s begin at b.
Stands(s, w, b) == \A i \in 1..Len(s) : w[b + i - 1] = s[i]

\* A unit at b; the frames are those of bodies in S.
Unit(w, b, S) ==
  \/ w[b] \in {INIT, MAGIC, FIRMWARE}
  \/ IsHello(w, b)
  \/ w[b] = V2_START /\ Body(w, b) \in S /\ Stands(V2Frame(Body(w, b)), w, b)

\* Units follow each other without a gap.
Framed(w, B, S) ==
  /\ w \in Seq(Byte) /\ B \subseteq 1..Len(w)
  /\ \A b \in B : b + Size(w[b]) <= Len(w) + 1 /\ Unit(w, b, S)
  /\ \A b, c \in B : b < c => b + Size(w[b]) <= c
  /\ \A i \in 1..Len(w) : \E b \in B : b <= i /\ i < b + Size(w[b])

Hellos(w, B) == {b \in B : w[b] = START}
Frames(w, B) == {b \in B : w[b] = V2_START}
\* The session that a HELLO announces, and the number and the session of a frame.
Announced(w, b) == w[b + 5]
Number(w, b) == w[b + 5]
SessionOf(w, b) == w[b + 6]

\* The frames are those of S, numbered in their order up to n, and sessions only grow, up
\* to s; a frame of a session later than that of a HELLO comes behind the HELLO of its own.
InOrder(w, B, S, n, s) ==
  /\ \A h \in Hellos(w, B) : Announced(w, h) \in 1..s
  /\ \A b \in Frames(w, B) : Number(w, b) <= n /\ SessionOf(w, b) <= s
  /\ \A g, h \in Hellos(w, B) : g < h => Announced(w, g) <= Announced(w, h)
  /\ \A b \in Frames(w, B), h \in Hellos(w, B) :
       /\ b < h => SessionOf(w, b) <= Announced(w, h)
       /\ h < b => Announced(w, h) <= SessionOf(w, b)
  /\ \A b, c \in Frames(w, B) : b < c => Number(w, b) < Number(w, c)
  /\ \A h \in Hellos(w, B), b \in Frames(w, B) :
       h < b /\ Announced(w, h) < SessionOf(w, b) =>
         \E g \in Hellos(w, B) : h < g /\ g < b /\ Announced(w, g) = SessionOf(w, b)
  /\ \A h \in Hellos(w, B) : Announced(w, h) < s =>
       \E g \in Hellos(w, B) : h < g /\ Announced(w, g) = s
  /\ \A body \in S : \E b \in Frames(w, B) : Body(w, b) = body

\* How many bytes have been read, or discarded.
Pos(w) == Len(w) - Len(line) - Len(hubOut)

\* What has not been read is what the hub sent last.
Flows(w) ==
  /\ Pos(w) \in Nat
  /\ \A i \in 1..Len(line) : line[i] = w[Pos(w) + i]
  /\ \A i \in 1..Len(hubOut) : hubOut[i] = w[Pos(w) + Len(line) + i]

\* Where the unit begins that is being read.
BytesRead == IF phase \in {"v2_header", "legacy_header"} THEN 1
             ELSE IF phase = "v2_payload" THEN 7
             ELSE IF phase = "legacy_payload" THEN 4 ELSE 0
Begin(w) == Pos(w) + 1 - BytesRead

\* The thread has read what it takes for the beginning of a HELLO, or is in a unit.
Placed(w, B) ==
  /\ phase = "hello_header" => Pos(w) >= 1 /\ w[Pos(w)] = START
  /\ phase = "hello_payload" =>
       Pos(w) >= 4 /\ w[Pos(w) - 3] = START /\ w[Pos(w) - 2] = LINK_HELLO
         /\ w[Pos(w) - 1] = HELLO_SIZE /\ w[Pos(w)] = PORT_NONE
  /\ phase = "start" => Begin(w) \in B \/ Begin(w) = Len(w) + 1
  /\ phase \in {"v2_header", "v2_payload"} => Begin(w) \in Frames(w, B)
  /\ phase = "v2_payload" => \A i \in 1..HEADER : header[i] = w[Begin(w) + i]
  /\ phase \in {"legacy_header", "legacy_payload"} => Begin(w) \in Hellos(w, B)
  /\ phase = "legacy_payload" => header = <<LINK_HELLO, HELLO_SIZE, PORT_NONE>>
  /\ phase # "discard"

\* In step at e: the host is in the session of the last HELLO before e, and has processed
\* every frame before e since the handshake, and none behind it.
Processed(w, B, e) ==
  /\ \E h \in Hellos(w, B) :
       /\ h < e /\ Announced(w, h) = fgSessionId
       /\ \A g \in Hellos(w, B) : g < e => g <= h
  /\ \A b \in Frames(w, B) : b < e /\ Number(w, b) >= first =>
       \E i \in 1..Len(delivered) : delivered[i] = Body(w, b)
  /\ \A i \in 1..Len(delivered), b \in Frames(w, B) :
       b >= e => delivered[i][5] < Number(w, b)
  /\ \A i \in 1..Len(delivered) : delivered[i] \in sent /\ delivered[i][5] <= hub.frames
  /\ \A i, j \in 1..Len(delivered) : i < j => delivered[i][5] < delivered[j][5]

\* So it is at the unit that is being read, and every call has counted that is over.
CaughtUp(w, B) ==
  Processed(w, B, Begin(w)) /\ Counted = IF phase = "start" THEN reads ELSE reads - 1

InStepWith(w, B) ==
  /\ Framed(w, B, sent) /\ InOrder(w, B, sent, hub.frames, hub.session)
  /\ Flows(w) /\ Placed(w, B)
  /\ phase \in Receiving => CaughtUp(w, B)

InStep == \E w \in Seq(Byte) : \E B \in SUBSET (1..Len(w)) : InStepWith(w, B)

Inductive == Shaped /\ Tallied /\ (Clean => InStep)

-----------------------------------------------------------------------------
(* Bytes and frames. *)

USE DEF INIT, START, MAGIC, V2_START, V2_VERSION, PORT_NONE, HELLO_SIZE, FIRMWARE,
        HEADER, CRC_SIZE, ALL_STATUS, ACK, LINK_HELLO, MAKE_CMD

\* A byte has eight bits.
LEMMA Bytes == \A n : n \in Byte <=> n \in Nat /\ n < 256
BY DEF Byte

\* Sequences of bytes one behind the other.
LEMMA Joined ==
  ASSUME NEW s \in Seq(Byte), NEW t \in Seq(Byte)
  PROVE  /\ s \o t \in Seq(Byte) /\ Len(s \o t) = Len(s) + Len(t)
         /\ Len(s) \in Nat /\ Len(t) \in Nat
         /\ \A i \in 1..Len(s) : (s \o t)[i] = s[i]
         /\ \A i \in 1..Len(t) : (s \o t)[Len(s) + i] = t[i]
<1>1. /\ s \o t \in Seq(Byte) /\ Len(s \o t) = Len(s) + Len(t)
      /\ \A i \in 1..(Len(s) + Len(t)) :
           (s \o t)[i] = IF i <= Len(s) THEN s[i] ELSE t[i - Len(s)]
  BY ConcatProperties
<1>2. Len(s) \in Nat /\ Len(t) \in Nat
  OBVIOUS
<1>3. ASSUME NEW i \in 1..Len(s) PROVE (s \o t)[i] = s[i]
  <2>1. i \in 1..(Len(s) + Len(t)) /\ i <= Len(s)
    BY <1>2
  <2> QED BY <1>1, <2>1
<1>4. ASSUME NEW i \in 1..Len(t) PROVE (s \o t)[Len(s) + i] = t[i]
  <2>1. /\ Len(s) + i \in 1..(Len(s) + Len(t)) /\ ~(Len(s) + i <= Len(s))
        /\ Len(s) + i - Len(s) = i
    BY <1>2
  <2> QED BY <1>1, <2>1
<1> QED BY <1>1, <1>2, <1>3, <1>4

\* What the hub puts in a frame, byte by byte.
LEMMA StatusBytes ==
  ASSUME LinkAssumption, NEW n \in 1..MaxFrames, NEW s \in 1..(MaxRestarts + 1),
         NEW byte \in Payload, NEW body, body = Status(n, s, byte)
  PROVE  /\ body \in Seq(Byte) /\ Len(body) = 7
         /\ body[1] = V2_VERSION /\ body[2] = ALL_STATUS /\ body[3] = PORT_NONE /\ body[4] = 1
         /\ body[5] = n /\ body[6] = s
<1>2. n \in Byte /\ s \in Byte /\ byte \in Byte
  BY LinkAssumption, Bytes DEF LinkAssumption
<1> DEFINE top == <<V2_VERSION, ALL_STATUS, PORT_NONE, 1, n, s>>
           data == <<byte>>
<1>3. body = top \o data
  BY DEF Status, V2Body
<1>4. /\ top \in Seq(Byte) /\ Len(top) = 6 /\ data \in Seq(Byte) /\ Len(data) = 1
      /\ top[1] = V2_VERSION /\ top[2] = ALL_STATUS /\ top[3] = PORT_NONE /\ top[4] = 1
      /\ top[5] = n /\ top[6] = s
  BY <1>2, Bytes
<1> HIDE DEF top, data
<1>5. /\ body \in Seq(Byte) /\ Len(body) = Len(top) + Len(data)
      /\ \A i \in 1..Len(top) : body[i] = top[i]
  <2>1. top \in Seq(Byte) /\ data \in Seq(Byte)
    BY <1>4
  <2> QED BY <1>3, <2>1, Joined
<1>6. 1 \in 1..Len(top) /\ 2 \in 1..Len(top) /\ 3 \in 1..Len(top)
      /\ 4 \in 1..Len(top) /\ 5 \in 1..Len(top) /\ 6 \in 1..Len(top)
  BY <1>4
<1>7. /\ body[1] = top[1] /\ body[2] = top[2] /\ body[3] = top[3] /\ body[4] = top[4]
      /\ body[5] = top[5] /\ body[6] = top[6]
  BY <1>5, <1>6
<1> QED BY <1>4, <1>5, <1>7

\* So it is for every body the hub can send.
LEMMA BodyBytes ==
  ASSUME LinkAssumption, NEW body \in HubBody
  PROVE  /\ body \in Seq(Byte) /\ Len(body) = 7
         /\ body[1] = V2_VERSION /\ body[2] = ALL_STATUS /\ body[3] = PORT_NONE /\ body[4] = 1
         /\ body[5] \in 1..MaxFrames /\ body[6] \in 1..(MaxRestarts + 1)
<1>1. PICK n \in 1..MaxFrames, s \in 1..(MaxRestarts + 1), byte \in Payload :
        body = Status(n, s, byte)
  BY DEF HubBody
<1>2. /\ body \in Seq(Byte) /\ Len(body) = 7
      /\ body[1] = V2_VERSION /\ body[2] = ALL_STATUS /\ body[3] = PORT_NONE /\ body[4] = 1
      /\ body[5] = n /\ body[6] = s
  BY <1>1, StatusBytes
<1> QED BY <1>2

\* A frame of the hub on the wire.
LEMMA FrameBytes ==
  ASSUME LinkAssumption, ChecksumAssumption, NEW body \in HubBody
  PROVE  /\ V2Frame(body) \in Seq(Byte) /\ Len(V2Frame(body)) = 10
         /\ V2Frame(body)[1] = V2_START
         /\ \A i \in 1..Len(body) : V2Frame(body)[i + 1] = body[i]
         /\ V2Frame(body)[9] = rp_v2_crc16(body) % 256
         /\ V2Frame(body)[10] = rp_v2_crc16(body) \div 256
<1>1. body \in Seq(Byte) /\ Len(body) = 7
  BY BodyBytes
<1> DEFINE crc == rp_v2_crc16(body)
           tail == <<crc % 256, crc \div 256>>
           mark == <<V2_START>>
           front == mark \o body
           frame == front \o tail
<1>2. crc \in Nat /\ crc < 65536
  BY ChecksumAssumption DEF ChecksumAssumption
<1>3. V2Frame(body) = frame
  BY DEF V2Frame, rp_v2_put_u16
<1> HIDE DEF crc
<1>4. crc % 256 \in Byte /\ crc \div 256 \in Byte
  BY <1>2, Bytes
<1>5. /\ tail \in Seq(Byte) /\ Len(tail) = 2 /\ tail[1] = crc % 256 /\ tail[2] = crc \div 256
      /\ mark \in Seq(Byte) /\ Len(mark) = 1 /\ mark[1] = V2_START
  BY <1>4, Bytes
<1> HIDE DEF tail, mark
<1>6. /\ front \in Seq(Byte) /\ Len(front) = Len(mark) + Len(body)
      /\ \A i \in 1..Len(mark) : front[i] = mark[i]
      /\ \A i \in 1..Len(body) : front[Len(mark) + i] = body[i]
  <2>1. mark \in Seq(Byte) /\ body \in Seq(Byte)
    BY <1>1, <1>5
  <2> QED BY <2>1, Joined
<1> HIDE DEF front
<1>7. /\ frame \in Seq(Byte) /\ Len(frame) = Len(front) + Len(tail)
      /\ \A i \in 1..Len(front) : frame[i] = front[i]
      /\ \A i \in 1..Len(tail) : frame[Len(front) + i] = tail[i]
  <2>1. front \in Seq(Byte) /\ tail \in Seq(Byte)
    BY <1>5, <1>6
  <2> QED BY <2>1, Joined
<1> HIDE DEF frame
<1>8. Len(front) = 8 /\ Len(frame) = 10
  BY <1>1, <1>5, <1>6, <1>7
<1>9. frame[1] = V2_START
  <2>1. 1 \in 1..Len(front) /\ 1 \in 1..Len(mark)
    BY <1>5, <1>8
  <2>2. frame[1] = front[1] /\ front[1] = mark[1]
    BY <1>6, <1>7, <2>1
  <2> QED BY <1>5, <2>2
<1>10. ASSUME NEW i \in 1..Len(body) PROVE frame[i + 1] = body[i]
  <2>1. i + 1 \in 1..Len(front) /\ Len(mark) + i = i + 1
    BY <1>1, <1>5, <1>8
  <2>2. frame[i + 1] = front[i + 1] /\ front[Len(mark) + i] = body[i]
    BY <1>6, <1>7, <2>1
  <2> QED BY <2>1, <2>2
<1>11. frame[9] = tail[1] /\ frame[10] = tail[2]
  <2>1. /\ 1 \in 1..Len(tail) /\ 2 \in 1..Len(tail)
        /\ Len(front) + 1 = 9 /\ Len(front) + 2 = 10
    BY <1>5, <1>8
  <2>2. frame[Len(front) + 1] = tail[1] /\ frame[Len(front) + 2] = tail[2]
    BY <1>7, <2>1
  <2> QED BY <2>1, <2>2
<1>12. tail[1] = rp_v2_crc16(body) % 256 /\ tail[2] = rp_v2_crc16(body) \div 256
  BY <1>5 DEF crc
<1>13. frame \in Seq(Byte)
  BY <1>7
<1> QED BY <1>3, <1>8, <1>9, <1>10, <1>11, <1>12, <1>13

\* What is read and what is left.
LEMMA Reading ==
  ASSUME line \in Seq(Byte), NEW n \in 0..Len(line)
  PROVE  /\ Got(n) \in Seq(Byte) /\ Len(Got(n)) = n /\ \A i \in 1..n : Got(n)[i] = line[i]
         /\ Drop(n) \in Seq(Byte) /\ Len(Drop(n)) = Len(line) - n
         /\ \A i \in 1..(Len(line) - n) : Drop(n)[i] = line[n + i]
<1>1. \A i \in 1..Len(line) : line[i] \in Byte
  BY ElementOfSeq
<1>2. /\ Got(n) \in Seq(Byte) /\ Len(Got(n)) = IF 1 <= n THEN n - 1 + 1 ELSE 0
      /\ \A i \in 1..(n - 1 + 1) : Got(n)[i] = line[1 + i - 1]
  BY <1>1, SubSeqProperties DEF Got
<1>3. /\ Drop(n) \in Seq(Byte)
      /\ Len(Drop(n)) = IF n + 1 <= Len(line) THEN Len(line) - (n + 1) + 1 ELSE 0
      /\ \A i \in 1..(Len(line) - (n + 1) + 1) : Drop(n)[i] = line[n + 1 + i - 1]
  BY <1>1, SubSeqProperties DEF Drop
<1>4. \A i \in 1..n : Got(n)[i] = line[i]
  BY <1>2
<1>5. \A i \in 1..(Len(line) - n) : Drop(n)[i] = line[n + i]
  BY <1>3
<1> QED BY <1>2, <1>3, <1>4, <1>5

-----------------------------------------------------------------------------
(* What a step does, whatever the bytes are. *)

\* The steps of the reading thread.
Handshake ==
  \/ BeginAttempt \/ ScanInit \/ ReadMagic \/ ReadVersion
  \/ ScanHello \/ ReadHelloHeader \/ ReadHelloPayload \/ HandshakeTimesOut
Receive ==
  \/ ReadStart \/ ReadV2Header \/ ReadV2Payload \/ Discard
  \/ ReadLegacyHeader \/ ReadLegacyPayload \/ FrameTimesOut

\* Every step is one of the thread, of the hub or of the wire.
LEMMA Actors ==
  Next => Handshake \/ Receive \/ HubAnswer \/ HubSend \/ HubRestart \/ Arrive
BY DEF Next, Handshake, Receive

\* A read that times out takes what was there.
LEMMA TimingOut ==
  ASSUME line \in Seq(Byte), NEW n \in Nat, TimesOut(n)
  PROVE  \E k \in 0..Len(line) : line' = Drop(k)
<1>1. Len(line) \in Nat
  OBVIOUS
<1>2. PICK k \in 0..(n - 1) : k <= Len(line) /\ line' = Drop(k)
  BY DEF TimesOut
<1> QED BY <1>1, <1>2

\* A thread that reads takes bytes from the front of the line.
LEMMA ReadTakes ==
  ASSUME line \in Seq(Byte), NEW n \in Nat, Read(n)
  PROVE  n \in 0..Len(line) /\ line' = Drop(n)
BY DEF Read

\* Nothing, or everything, is a number of bytes too.
LEMMA Extremes ==
  ASSUME line \in Seq(Byte)
  PROVE  Drop(0) = line /\ Drop(Len(line)) = <<>> /\ Len(line) \in Nat
<1>1. Len(line) \in Nat
  OBVIOUS
<1>2. Drop(0) = line
  BY <1>1, SubSeqFull DEF Drop
<1>3. Drop(Len(line)) = <<>>
  BY <1>1, SubSeqEmpty DEF Drop
<1> QED BY <1>1, <1>2, <1>3

\* The thread only takes bytes from the front of the line.
LEMMA HandshakeTakes ==
  ASSUME line \in Seq(Byte), Handshake
  PROVE  \E k \in 0..Len(line) : line' = Drop(k)
<1> USE Extremes
<1> DEFINE Taken == \E k \in 0..Len(line) : line' = Drop(k)
<1>1. ASSUME NEW target, NEW next, Scan(target, next) PROVE Taken
  <2>1. line' = <<>> \/ \E at \in 1..Len(line) : line' = Drop(at)
    BY <1>1 DEF Scan
  <2>2. Len(line) \in 0..Len(line) /\ 1..Len(line) \subseteq 0..Len(line)
    OBVIOUS
  <2> QED BY <2>1, <2>2
<1>2. ASSUME NEW n \in Nat, Read(n) PROVE Taken
  BY <1>2, ReadTakes
<1>3. ASSUME NEW n \in Nat, TimesOut(n) PROVE Taken
  BY <1>3, TimingOut
<1>4. CASE BeginAttempt
  <2>1. line' = <<>> /\ Len(line) \in 0..Len(line)
    BY <1>4 DEF BeginAttempt
  <2> QED BY <2>1
<1>5. CASE ScanInit \/ ScanHello
  BY <1>1, <1>5 DEF ScanInit, ScanHello
<1>6. CASE ReadMagic \/ ReadVersion
  <2>1. Read(1) /\ 1 \in Nat
    BY <1>6 DEF ReadMagic, ReadVersion
  <2> QED BY <1>2, <2>1
<1>7. CASE ReadHelloHeader
  <2>1. Read(3) /\ 3 \in Nat
    BY <1>7 DEF ReadHelloHeader
  <2> QED BY <1>2, <2>1
<1>8. CASE ReadHelloPayload
  <2>1. Read(2) /\ 2 \in Nat
    BY <1>8 DEF ReadHelloPayload
  <2> QED BY <1>2, <2>1
<1>9. CASE HandshakeTimesOut
  <2>1. UNCHANGED line \/ \E n \in {1, 2, 3} : TimesOut(n)
    BY <1>9 DEF HandshakeTimesOut
  <2>2. CASE UNCHANGED line
    <3>1. line' = Drop(0) /\ 0 \in 0..Len(line)
      BY <2>2
    <3> QED BY <3>1
  <2>3. \A n \in {1, 2, 3} : n \in Nat
    OBVIOUS
  <2> QED BY <1>3, <2>1, <2>2, <2>3
<1> QED BY <1>4, <1>5, <1>6, <1>7, <1>8, <1>9 DEF Handshake

\* A call of raspike_prot_receive takes bytes from the front of the line, too.
LEMMA ReceiveTakes ==
  ASSUME Shaped, Receive
  PROVE  \E k \in 0..Len(line) : line' = Drop(k)
<1> DEFINE Taken == \E k \in 0..Len(line) : line' = Drop(k)
<1>0. line \in Seq(Byte) /\ header \in Seq(Byte)
  BY DEF Shaped
<1>1. ASSUME NEW n \in Nat, Read(n) PROVE Taken
  BY <1>0, <1>1, ReadTakes
<1>2. ASSUME NEW n \in Nat, TimesOut(n) PROVE Taken
  BY <1>0, <1>2, TimingOut
<1>3. ASSUME phase \in {"v2_payload", "discard"}
      PROVE  header[4] \in Nat /\ header[4] + 2 \in Nat
  <2>1. Len(header) = 6
    BY <1>3 DEF Shaped
  <2>2. 4 \in 1..Len(header)
    BY <2>1
  <2>3. header[4] \in Byte
    BY <1>0, <2>2, ElementOfSeq
  <2> QED BY <2>3, Bytes
<1>4. ASSUME phase = "legacy_payload" PROVE header[2] \in Nat
  <2>1. Len(header) = 3
    BY <1>4 DEF Shaped
  <2>2. 2 \in 1..Len(header)
    BY <2>1
  <2>3. header[2] \in Byte
    BY <1>0, <2>2, ElementOfSeq
  <2> QED BY <2>3, Bytes
<1>5. CASE ReadStart
  <2>1. Read(1) /\ 1 \in Nat
    BY <1>5 DEF ReadStart
  <2> QED BY <1>1, <2>1
<1>6. CASE ReadV2Header
  <2>1. Read(6) /\ 6 \in Nat
    BY <1>6 DEF ReadV2Header
  <2> QED BY <1>1, <2>1
<1>7. CASE ReadLegacyHeader
  <2>1. Read(3) /\ 3 \in Nat
    BY <1>7 DEF ReadLegacyHeader
  <2> QED BY <1>1, <2>1
<1>8. CASE ReadV2Payload
  <2>1. Read(header[4] + 2) /\ phase = "v2_payload"
    BY <1>8 DEF ReadV2Payload
  <2> QED BY <1>1, <1>3, <2>1
<1>9. CASE ReadLegacyPayload
  <2>1. Read(header[2]) /\ phase = "legacy_payload"
    BY <1>9 DEF ReadLegacyPayload
  <2> QED BY <1>1, <1>4, <2>1
<1>10. CASE Discard
  <2>1. (Read(header[4] + 2) \/ TimesOut(header[4] + 2)) /\ phase = "discard"
    BY <1>10 DEF Discard
  <2> QED BY <1>1, <1>2, <1>3, <2>1
<1>11. CASE FrameTimesOut
  <2>1. \/ TimesOut(6) \/ TimesOut(3)
        \/ phase = "v2_payload" /\ TimesOut(header[4] + 2)
        \/ phase = "legacy_payload" /\ TimesOut(header[2])
    BY <1>11 DEF FrameTimesOut
  <2>2. 6 \in Nat /\ 3 \in Nat
    OBVIOUS
  <2> QED BY <1>2, <1>3, <1>4, <2>1, <2>2
<1> QED BY <1>5, <1>6, <1>7, <1>8, <1>9, <1>10, <1>11 DEF Receive

\* The thread leaves the hub and the wire alone.
LEMMA ThreadLeaves ==
  ASSUME Handshake \/ Receive
  PROVE  /\ UNCHANGED <<hub, hubOut, sent, damage>>
         /\ inits' = inits \/ inits' = inits + 1
         /\ timeouts' = timeouts \/ timeouts' = timeouts + 1
BY DEF Handshake, Receive, BeginAttempt, ScanInit, ReadMagic, ReadVersion, ScanHello,
       ReadHelloHeader, ReadHelloPayload, HandshakeTimesOut, Scan, Waiting, ReadStart,
       ReadV2Header, ReadV2Payload, Discard, ReadLegacyHeader, ReadLegacyPayload,
       FrameTimesOut, world, faults, history

-----------------------------------------------------------------------------
(* Types. *)

\* Where the handshake goes from a phase.
LEMMA HandshakeLeads ==
  ASSUME Handshake, attempt \in Nat
  PROVE  /\ phase \in Handshaking
         /\ \/ phase' \in (Handshaking \ {"init"}) \cup {"start"}
            \/ phase' = "init" /\ attempt < Attempts
         /\ \/ attempt' = attempt
            \/ phase = "init" /\ attempt' = attempt + 1 /\ phase' = "scan"
         /\ UNCHANGED <<header, fgLinkStats, delivered, reads>>
         /\ \/ UNCHANGED <<fgSessionId, first>> /\ phase' # "start"
            \/ ReadHelloPayload
<1> DEFINE Next1 == (Handshaking \ {"init"}) \cup (IF attempt < Attempts THEN {"init"} ELSE {})
<1>1. ASSUME NEW next, Waiting(next)
      PROVE  phase' = next
             /\ UNCHANGED <<attempt, header, fgLinkStats, delivered, reads, fgSessionId, first>>
  BY <1>1 DEF Waiting, history
<1>2. Retry \in Next1
  BY DEF Retry, Handshaking
<1>3. {"scan", "magic", "version", "hello", "hello_header", "hello_payload", "failed"} \subseteq Next1
  BY DEF Handshaking
<1>4. CASE ScanInit \/ ScanHello
  <2>1. ASSUME NEW target, NEW next, Scan(target, next)
        PROVE  phase' \in {phase, next}
               /\ UNCHANGED <<attempt, header, fgLinkStats, delivered, reads, fgSessionId, first>>
    BY <1>1, <2>1 DEF Scan, host, history
  <2>2. /\ phase \in {"scan", "hello"}
        /\ Scan(INIT, "magic") \/ Scan(START, "hello_header")
    BY <1>4 DEF ScanInit, ScanHello
  <2>3. phase' \in {"scan", "hello", "magic", "hello_header"}
    BY <2>1, <2>2
  <2>4. UNCHANGED <<attempt, header, fgLinkStats, delivered, reads, fgSessionId, first>>
    BY <2>1, <2>2
  <2> QED BY <2>2, <2>3, <2>4 DEF Handshaking
<1>5. CASE ReadMagic \/ ReadVersion \/ ReadHelloHeader \/ HandshakeTimesOut
  <2>1. /\ phase \in Handshaking \ {"init"}
        /\ \E next \in {"version", "hello", "hello_payload", "failed", Retry} : Waiting(next)
    BY <1>5 DEF ReadMagic, ReadVersion, ReadHelloHeader, HandshakeTimesOut, Handshaking
  <2>2. PICK next \in {"version", "hello", "hello_payload", "failed", Retry} : Waiting(next)
    BY <2>1
  <2>3. phase' = next /\ next \in Next1
    BY <1>1, <1>2, <1>3, <2>2
  <2>4. next # "start"
    BY <2>2 DEF Retry
  <2>5. UNCHANGED <<attempt, header, fgLinkStats, delivered, reads, fgSessionId, first>>
    BY <1>1, <2>2
  <2>6. phase' \in Handshaking \ {"init"} \/ (phase' = "init" /\ attempt < Attempts)
    BY <2>3
  <2>7. phase' # "start"
    BY <2>3, <2>4
  <2> QED BY <2>1, <2>5, <2>6, <2>7
<1>6. CASE BeginAttempt
  BY <1>6 DEF BeginAttempt, Handshaking, history
<1>7. CASE ReadHelloPayload
  <2>1. /\ phase = "hello_payload" /\ phase' \in {"start", "failed"}
        /\ UNCHANGED <<attempt, header, fgLinkStats, delivered, reads>>
    BY <1>7 DEF ReadHelloPayload
  <2> QED BY <1>7, <2>1 DEF Handshaking
<1> QED BY <1>4, <1>5, <1>6, <1>7 DEF Handshake

\* The counters after a call.
LEMMA Counting ==
  ASSUME fgLinkStats \in Stats, NEW counters, Return(counters)
  PROVE  /\ phase' = "start" /\ header' = <<>> /\ fgLinkStats' \in Stats
         /\ \A c \in {"rx_frames", "crc_errors", "framing_errors", "session_errors"} :
              fgLinkStats'[c] = fgLinkStats[c] + (IF c \in counters THEN 1 ELSE 0)
BY DEF Stats, Return, Count

\* What process_command counts, and where it leaves the thread.
LEMMA Processing ==
  ASSUME NEW cmd, NEW port, NEW session, NEW payload,
         process_command(cmd, port, session, payload)
  PROVE  /\ fgSessionId' = SessionAfter(cmd, payload)
         /\ \/ Return({"rx_frames"}) \/ Return({"framing_errors"})
            \/ Return({"session_errors", "rx_frames"}) \/ Return({})
BY DEF process_command

\* A session is a byte of the HELLO.
LEMMA SessionIsByte ==
  ASSUME NEW cmd, NEW payload \in Seq(Byte), fgSessionId \in Byte
  PROVE  SessionAfter(cmd, payload) \in Byte
<1>1. CASE Len(payload) = 2
  <2>1. 2 \in 1..Len(payload)
    BY <1>1
  <2>2. payload[2] \in Byte
    BY <2>1, ElementOfSeq
  <2> QED BY <2>2, Bytes DEF SessionAfter, HelloSession
<1>2. CASE Len(payload) # 2
  BY <1>2 DEF SessionAfter, HelloSession
<1> QED BY <1>1, <1>2

\* What is read is bytes.
LEMMA ReadsBytes ==
  ASSUME line \in Seq(Byte), NEW n \in 0..Len(line)
  PROVE  Got(n) \in Seq(Byte) /\ Len(Got(n)) = n /\ \A i \in 1..n : Got(n)[i] \in Byte
<1>1. Got(n) \in Seq(Byte) /\ Len(Got(n)) = n
  BY Reading
<1>2. \A i \in 1..Len(Got(n)) : Got(n)[i] \in Byte
  BY <1>1, ElementOfSeq
<1> QED BY <1>1, <1>2

\* The handshake keeps the types.
LEMMA HandshakeKeepsShape ==
  ASSUME LinkAssumption, Shaped, Handshake
  PROVE  Shaped'
<1>1. line \in Seq(Byte) /\ attempt \in 0..Attempts /\ Attempts \in Nat /\ attempt \in Nat
  BY LinkAssumption DEF Shaped, LinkAssumption
<1>2. line' \in Seq(Byte)
  BY <1>1, HandshakeTakes, Reading
<1>3. phase' \in Handshaking \cup Receiving /\ phase' \notin Busy
  BY <1>1, HandshakeLeads DEF Handshaking, Receiving, Busy
<1>4. attempt' \in 0..Attempts /\ (phase' = "init" => attempt' < Attempts)
  <2>1. phase = "init" => attempt < Attempts
    BY DEF Shaped
  <2>2. /\ phase' # "init" \/ attempt < Attempts
        /\ \/ attempt' = attempt
           \/ phase = "init" /\ attempt' = attempt + 1 /\ phase' = "scan"
    BY <1>1, HandshakeLeads DEF Handshaking
  <2> QED BY <1>1, <2>1, <2>2
<1>5. UNCHANGED <<header, fgLinkStats, delivered, reads, hub, hubOut, sent, damage>>
  BY <1>1, HandshakeLeads, ThreadLeaves
<1>6. fgSessionId' \in Byte /\ first' \in Nat
  <2>1. CASE UNCHANGED <<fgSessionId, first>>
    BY <2>1 DEF Shaped
  <2>2. CASE ReadHelloPayload
    <3>1. Read(2) /\ first' = hub.frames + 1
          /\ fgSessionId' = IF Got(2)[1] = 2 THEN Got(2)[2] ELSE fgSessionId
      BY <2>2 DEF ReadHelloPayload
    <3>2. 2 \in 0..Len(line) /\ 2 \in 1..2
      BY <1>1, <3>1, ReadTakes
    <3>3. Got(2)[2] \in Byte
      BY <1>1, <3>2, ReadsBytes
    <3>4. hub.frames \in Nat
      BY DEF Shaped
    <3>5. fgSessionId \in Byte
      BY DEF Shaped
    <3>6. fgSessionId' \in Byte
      BY <3>1, <3>3, <3>5
    <3>7. first' \in Nat
      BY <3>1, <3>4
    <3> QED BY <3>6, <3>7
  <2> QED BY <1>1, <2>1, <2>2, HandshakeLeads
<1>7. inits' \in Nat /\ timeouts' \in Nat
  <2>1. inits \in Nat /\ timeouts \in Nat
    BY DEF Shaped
  <2> QED BY <2>1, ThreadLeaves
<1>8. delivered = <<>>
  BY <1>1, HandshakeLeads DEF Shaped, Handshaking, Receiving, Busy
<1>9. phase' \notin {"v2_payload", "discard", "legacy_payload"}
  BY <1>3 DEF Busy
<1> QED BY <1>2, <1>3, <1>4, <1>5, <1>6, <1>7, <1>8, <1>9 DEF Shaped

\* Where a call goes from a phase, and how it counts.
LEMMA ReceiveLeads ==
  ASSUME Receive
  PROVE  /\ phase \in Receiving /\ UNCHANGED <<attempt, first, inits>>
         /\ \/ \E counters : Return(counters)
            \/ UNCHANGED fgLinkStats /\ phase' \in Busy
<1>1. CASE ReadStart
  BY <1>1 DEF ReadStart, Continue, Receiving, Busy, world
<1>2. CASE ReadV2Header
  BY <1>2 DEF ReadV2Header, Continue, Receiving, Busy, world, history
<1>3. CASE ReadLegacyHeader
  BY <1>3 DEF ReadLegacyHeader, Continue, Receiving, Busy, world, history
<1>4. CASE Discard \/ FrameTimesOut
  BY <1>4 DEF Discard, FrameTimesOut, Receiving, Busy, world, history
<1>5. ASSUME NEW cmd, NEW port, NEW session, NEW payload,
             process_command(cmd, port, session, payload)
      PROVE  \E counters : Return(counters)
  BY <1>5, Processing
<1>6. CASE ReadLegacyPayload
  BY <1>5, <1>6 DEF ReadLegacyPayload, Receiving, Busy, world, history
<1>7. CASE ReadV2Payload
  <2>1. phase = "v2_payload" /\ UNCHANGED <<attempt, first, inits>>
    BY <1>7 DEF ReadV2Payload, world
  <2>2. \/ process_command(header[2], header[3], header[6], Got(header[4]))
        \/ BadFrame
    BY <1>7 DEF ReadV2Payload
  <2>3. \E counters : Return(counters)
    BY <1>5, <2>2 DEF BadFrame
  <2> QED BY <2>1, <2>3 DEF Receiving, Busy
<1> QED BY <1>1, <1>2, <1>3, <1>4, <1>6, <1>7 DEF Receive

\* A byte of a header.
LEMMA HeaderBytes ==
  ASSUME Shaped
  PROVE  /\ phase \in {"v2_payload", "discard"} => header[4] \in Nat
         /\ phase = "legacy_payload" => header[2] \in Nat
<1>1. header \in Seq(Byte)
  BY DEF Shaped
<1>2. ASSUME phase \in {"v2_payload", "discard"} PROVE header[4] \in Nat
  <2>1. Len(header) = 6
    BY <1>2 DEF Shaped
  <2>2. 4 \in 1..Len(header)
    BY <2>1
  <2>3. header[4] \in Byte
    BY <1>1, <2>2, ElementOfSeq
  <2> QED BY <2>3, Bytes
<1>3. ASSUME phase = "legacy_payload" PROVE header[2] \in Nat
  <2>1. Len(header) = 3
    BY <1>3 DEF Shaped
  <2>2. 2 \in 1..Len(header)
    BY <2>1
  <2>3. header[2] \in Byte
    BY <1>1, <2>2, ElementOfSeq
  <2> QED BY <2>3, Bytes
<1> QED BY <1>2, <1>3

\* What a call keeps of a header.
LEMMA ReceiveKeepsHeader ==
  ASSUME LinkAssumption, Shaped, Receive
  PROVE  /\ header' \in Seq(Byte)
         /\ phase' \in {"v2_payload", "discard"} => Len(header') = 6
         /\ phase' = "v2_payload" => header'[4] <= MaxPayload
         /\ phase' = "legacy_payload" => Len(header') = 3
<1>1. line \in Seq(Byte) /\ fgLinkStats \in Stats
  BY DEF Shaped
<1>2. <<>> \in Seq(Byte)
  OBVIOUS
<1>3. ASSUME NEW counters, Return(counters) PROVE phase' = "start" /\ header' = <<>>
  BY <1>3 DEF Return
<1>4. CASE \E counters : Return(counters)
  BY <1>2, <1>3, <1>4
<1>5. CASE ReadStart
  <2>1. header' = <<>> /\ phase' \in {"start", "v2_header", "legacy_header"}
    BY <1>5 DEF ReadStart, Continue, Return
  <2> QED BY <1>2, <2>1
<1>6. CASE ReadV2Header
  <2>1. /\ Read(6) /\ header' = Got(6) /\ phase' \in {"v2_payload", "discard"}
        /\ phase' = "v2_payload" => ~(Got(6)[4] > MaxPayload)
    BY <1>6 DEF ReadV2Header, Continue
  <2>2. 6 \in 0..Len(line) /\ 4 \in 1..6
    BY <1>1, <2>1, ReadTakes
  <2>3. Got(6) \in Seq(Byte) /\ Len(Got(6)) = 6 /\ Got(6)[4] \in Byte
    BY <1>1, <2>2, ReadsBytes
  <2>4. phase' # "legacy_payload"
    BY <2>1
  <2>5. ~(Got(6)[4] > MaxPayload) => Got(6)[4] <= MaxPayload
    <3>1. Got(6)[4] \in Nat /\ MaxPayload \in Nat
      BY <2>3, Bytes, LinkAssumption DEF LinkAssumption
    <3> QED BY <3>1
  <2> QED BY <2>1, <2>3, <2>4, <2>5
<1>7. CASE ReadLegacyHeader /\ ~\E counters : Return(counters)
  <2>1. /\ Read(3) /\ header' = Got(3) /\ phase' = "legacy_payload"
    BY <1>7 DEF ReadLegacyHeader, Continue
  <2>2. 3 \in 0..Len(line)
    BY <1>1, <2>1, ReadTakes
  <2>3. Got(3) \in Seq(Byte) /\ Len(Got(3)) = 3
    BY <1>1, <2>2, Reading
  <2> QED BY <2>1, <2>3
<1>8. CASE Discard \/ FrameTimesOut
  BY <1>4, <1>8 DEF Discard, FrameTimesOut
<1>9. CASE ReadLegacyPayload
  <2>1. \E counters : Return(counters)
    BY <1>9, Processing DEF ReadLegacyPayload
  <2> QED BY <1>4, <2>1
<1>10. CASE ReadV2Payload
  <2>1. \/ process_command(header[2], header[3], header[6], Got(header[4]))
        \/ BadFrame
    BY <1>10 DEF ReadV2Payload
  <2>2. \E counters : Return(counters)
    BY <2>1, Processing DEF BadFrame
  <2> QED BY <1>4, <2>2
<1> QED BY <1>4, <1>5, <1>6, <1>7, <1>8, <1>9, <1>10 DEF Receive

\* What a call processes.
LEMMA ReceiveProcesses ==
  ASSUME Shaped, Receive
  PROVE  /\ fgSessionId' \in Byte /\ delivered' \in Seq(Seq(Byte))
         /\ reads' = reads \/ reads' = reads + 1
<1>1. /\ line \in Seq(Byte) /\ header \in Seq(Byte) /\ fgSessionId \in Byte
      /\ delivered \in Seq(Seq(Byte))
  BY DEF Shaped
<1>2. CASE ReadStart
  BY <1>1, <1>2 DEF ReadStart
<1>3. CASE ReadV2Header \/ ReadLegacyHeader \/ Discard \/ FrameTimesOut
  BY <1>1, <1>3 DEF ReadV2Header, ReadLegacyHeader, Discard, FrameTimesOut, history
<1>4. CASE ReadLegacyPayload
  <2>1. /\ phase = "legacy_payload" /\ Read(header[2]) /\ UNCHANGED <<delivered, reads>>
        /\ process_command(header[1], header[3], fgSessionId, Got(header[2]))
    BY <1>4 DEF ReadLegacyPayload, history
  <2>2. header[2] \in Nat
    BY <2>1, HeaderBytes
  <2>3. header[2] \in 0..Len(line)
    BY <1>1, <2>1, <2>2, ReadTakes
  <2>4. Got(header[2]) \in Seq(Byte)
    BY <1>1, <2>3, Reading
  <2>5. fgSessionId' \in Byte
    BY <1>1, <2>1, <2>4, Processing, SessionIsByte
  <2> QED BY <1>1, <2>1, <2>5
<1>5. CASE ReadV2Payload
  <2> DEFINE payload == Got(header[4])
  <2>1. phase = "v2_payload" /\ Read(header[4] + 2) /\ UNCHANGED reads
    BY <1>5 DEF ReadV2Payload
  <2>2. header[4] \in Nat /\ header[4] + 2 \in Nat
    BY <2>1, HeaderBytes
  <2>3. header[4] \in 0..Len(line)
    <3>1. header[4] + 2 \in 0..Len(line) /\ Len(line) \in Nat
      BY <1>1, <2>1, <2>2, ReadTakes
    <3> QED BY <2>2, <3>1
  <2>4. payload \in Seq(Byte)
    BY <1>1, <2>3, Reading
  <2>5. \/ /\ process_command(header[2], header[3], header[6], payload)
           /\ delivered' = IF header[6] = fgSessionId
                           THEN Append(delivered, header \o payload) ELSE delivered
        \/ UNCHANGED <<fgSessionId, delivered>>
    BY <1>5 DEF ReadV2Payload, BadFrame
  <2> HIDE DEF payload
  <2>6. header \o payload \in Seq(Byte)
    BY <1>1, <2>4, Joined
  <2>7. Append(delivered, header \o payload) \in Seq(Seq(Byte))
    <3> DEFINE body == header \o payload
    <3>1. body \in Seq(Byte)
      BY <2>6
    <3> HIDE DEF body
    <3>2. Append(delivered, body) \in Seq(Seq(Byte))
      BY <1>1, <3>1
    <3> QED BY <3>2 DEF body
  <2>8. delivered' \in Seq(Seq(Byte))
    BY <1>1, <2>5, <2>7
  <2>9. fgSessionId' \in Byte
    BY <1>1, <2>4, <2>5, Processing, SessionIsByte
  <2> QED BY <2>1, <2>8, <2>9
<1> QED BY <1>2, <1>3, <1>4, <1>5 DEF Receive

\* A call keeps the types.
LEMMA ReceiveKeepsShape ==
  ASSUME LinkAssumption, Shaped, Receive
  PROVE  Shaped'
<1>1. line' \in Seq(Byte)
  <2>1. line \in Seq(Byte)
    BY DEF Shaped
  <2> QED BY <2>1, ReceiveTakes, Reading
<1>2. phase' \in Receiving /\ phase \in Receiving
  BY ReceiveLeads DEF Return, Receiving, Busy
<1>3. fgLinkStats' \in Stats
  BY ReceiveLeads, Counting DEF Shaped
<1>4. UNCHANGED <<attempt, first, inits, hub, hubOut, sent, damage>>
  BY ReceiveLeads, ThreadLeaves
<1>5. timeouts' \in Nat /\ reads' \in Nat
  <2>1. timeouts \in Nat /\ reads \in Nat
    BY DEF Shaped
  <2> QED BY <2>1, ThreadLeaves, ReceiveProcesses
<1>6. phase' # "init"
  BY <1>2 DEF Receiving, Busy
<1> QED BY <1>1, <1>2, <1>3, <1>4, <1>5, <1>6, ReceiveKeepsHeader, ReceiveProcesses DEF Shaped

\* A HELLO on the wire.
LEMMA HelloBytes ==
  ASSUME NEW session \in Byte
  PROVE  /\ Hello(session) \in Seq(Byte) /\ Len(Hello(session)) = 6
         /\ Hello(session)[1] = START /\ Hello(session)[2] = LINK_HELLO
         /\ Hello(session)[3] = HELLO_SIZE /\ Hello(session)[4] = PORT_NONE
         /\ Hello(session)[5] = V2_VERSION /\ Hello(session)[6] = session
<1> DEFINE top == <<START, LINK_HELLO, HELLO_SIZE, PORT_NONE>>
           data == <<V2_VERSION, session>>
<1>1. Hello(session) = top \o data
  BY DEF Hello, LegacyFrame
<1>2. /\ top \in Seq(Byte) /\ Len(top) = 4 /\ data \in Seq(Byte) /\ Len(data) = 2
      /\ top[1] = START /\ top[2] = LINK_HELLO /\ top[3] = HELLO_SIZE /\ top[4] = PORT_NONE
      /\ data[1] = V2_VERSION /\ data[2] = session
  BY Bytes
<1>3. /\ Hello(session) \in Seq(Byte) /\ Len(Hello(session)) = Len(top) + Len(data)
      /\ \A i \in 1..Len(top) : Hello(session)[i] = top[i]
      /\ \A i \in 1..Len(data) : Hello(session)[Len(top) + i] = data[i]
  <2>1. top \in Seq(Byte) /\ data \in Seq(Byte)
    BY <1>2
  <2> HIDE DEF top, data
  <2> QED BY <1>1, <2>1, Joined
<1> HIDE DEF top, data
<1>4. /\ 1 \in 1..Len(top) /\ 2 \in 1..Len(top) /\ 3 \in 1..Len(top) /\ 4 \in 1..Len(top)
      /\ 1 \in 1..Len(data) /\ 2 \in 1..Len(data)
  BY <1>2
<1>5. /\ Hello(session)[1] = top[1] /\ Hello(session)[2] = top[2]
      /\ Hello(session)[3] = top[3] /\ Hello(session)[4] = top[4]
      /\ Hello(session)[Len(top) + 1] = data[1] /\ Hello(session)[Len(top) + 2] = data[2]
  BY <1>3, <1>4
<1> QED BY <1>2, <1>3, <1>5

\* Sessions of the hub are bytes.
LEMMA Sessions ==
  ASSUME LinkAssumption
  PROVE  \A session \in 1..(MaxRestarts + 1) : session \in Byte
BY Bytes, LinkAssumption DEF LinkAssumption

\* The hub writes the frame of its next status.
StatusSent(byte) ==
  /\ sent' = sent \cup {Status(hub.frames + 1, hub.session, byte)}
  /\ hubOut' = hubOut \o V2Frame(Status(hub.frames + 1, hub.session, byte))

\* HubSend sends some status.
LEMMA Sending ==
  ASSUME HubSend
  PROVE  \E byte \in Payload : StatusSent(byte)
BY ZenonT(30) DEF HubSend, StatusSent

\* The hub sends bytes.
LEMMA HubKeepsShape ==
  ASSUME LinkAssumption, ChecksumAssumption, Shaped, HubAnswer \/ HubSend \/ HubRestart
  PROVE  Shaped'
<1>1. hubOut \in Seq(Byte) /\ MaxRestarts + 1 \in Nat /\ MaxFrames \in Nat /\ MaxRestarts \in Nat
  BY Bytes, LinkAssumption DEF Shaped, LinkAssumption
<1>2. /\ hub \in [session : 1..(MaxRestarts + 1), frames : 0..MaxFrames,
                  restarts : 0..MaxRestarts]
      /\ hub.session = hub.restarts + 1 /\ inits \in Nat /\ sent \subseteq HubBody
  BY DEF Shaped
<1>3. UNCHANGED <<phase, attempt, header, fgSessionId, fgLinkStats, line>>
  BY DEF HubAnswer, HubSend, HubRestart, host
<1>4. UNCHANGED <<delivered, first, reads, damage, timeouts>>
  BY DEF HubAnswer, HubSend, HubRestart, history, faults
<1> DEFINE Rest == /\ hubOut' \in Seq(Byte) /\ inits' \in Nat /\ sent' \subseteq HubBody
                   /\ hub' \in [session : 1..(MaxRestarts + 1), frames : 0..MaxFrames,
                                restarts : 0..MaxRestarts]
                   /\ hub'.session = hub'.restarts + 1
<1>5. ASSUME HubAnswer PROVE Rest
  <2>1. hubOut' = hubOut \o HandshakeAnswer(hub.session) /\ inits > 0 /\ inits' = inits - 1
        /\ UNCHANGED <<hub, sent>>
    BY <1>5 DEF HubAnswer
  <2>2. hub.session \in Byte
    BY <1>2, Sessions
  <2>3. HandshakeAnswer(hub.session) \in Seq(Byte)
    <3>1. <<INIT, MAGIC, FIRMWARE>> \in Seq(Byte)
      BY Bytes
    <3>2. Hello(hub.session) \in Seq(Byte)
      BY <2>2, HelloBytes
    <3> QED BY <3>1, <3>2, ConcatProperties DEF HandshakeAnswer
  <2>4. hubOut' \in Seq(Byte)
    BY <1>1, <2>1, <2>3, Joined
  <2> QED BY <1>2, <2>1, <2>4
<1>6. ASSUME HubSend PROVE Rest
  <2>0. PICK byte \in Payload : StatusSent(byte)
    BY <1>6, Sending
  <2>1. /\ sent' = sent \cup {Status(hub.frames + 1, hub.session, byte)}
        /\ hubOut' = hubOut \o V2Frame(Status(hub.frames + 1, hub.session, byte))
    BY <2>0 DEF StatusSent
  <2> DEFINE body == Status(hub.frames + 1, hub.session, byte)
  <2>2. hub.frames < MaxFrames /\ hub' = [hub EXCEPT !.frames = @ + 1] /\ inits' = inits
    BY <1>6 DEF HubSend
  <2>3. hub.frames + 1 \in 1..MaxFrames /\ hub.session \in 1..(MaxRestarts + 1)
    BY <1>1, <1>2, <2>2
  <2>4. body \in HubBody
    BY <2>3 DEF HubBody
  <2>5. sent' = sent \cup {body} /\ hubOut' = hubOut \o V2Frame(body)
    BY <2>1
  <2> HIDE DEF body
  <2>6. V2Frame(body) \in Seq(Byte)
    BY <2>4, FrameBytes
  <2>7. hubOut' \in Seq(Byte)
    BY <1>1, <2>5, <2>6, Joined
  <2>8. hub' \in [session : 1..(MaxRestarts + 1), frames : 0..MaxFrames,
                  restarts : 0..MaxRestarts]
        /\ hub'.session = hub'.restarts + 1
    <3>1. hub.frames + 1 \in 0..MaxFrames
      BY <1>1, <2>3
    <3>2. hub' \in [session : 1..(MaxRestarts + 1), frames : 0..MaxFrames,
                    restarts : 0..MaxRestarts]
      BY <1>2, <2>2, <3>1
    <3>3. hub'.session = hub.session /\ hub'.restarts = hub.restarts
      BY <1>2, <2>2
    <3> QED BY <1>2, <3>2, <3>3
  <2> QED BY <1>2, <2>2, <2>4, <2>5, <2>7, <2>8
<1>7. ASSUME HubRestart PROVE Rest
  <2>1. hub.restarts < MaxRestarts /\ UNCHANGED <<inits, sent>>
        /\ hub' = [hub EXCEPT !.session = @ + 1, !.restarts = @ + 1]
        /\ hubOut' = hubOut \o Hello(hub.session + 1)
    BY <1>7 DEF HubRestart
  <2>2. hub.session + 1 \in 1..(MaxRestarts + 1) /\ hub.restarts + 1 \in 0..MaxRestarts
    <3>1. hub.restarts \in 0..MaxRestarts /\ hub.session = hub.restarts + 1
      BY <1>2
    <3>2. hub.restarts + 1 \in 0..MaxRestarts
      <4>1. hub.restarts < MaxRestarts
        BY <2>1
      <4> QED BY <1>1, <3>1, <4>1
    <3>3. hub.session + 1 \in 1..(MaxRestarts + 1)
      BY <1>1, <3>1, <3>2
    <3> QED BY <3>2, <3>3
  <2>3. hub.session + 1 \in Byte
    BY <2>2, Sessions
  <2>4. hubOut' \in Seq(Byte)
    <3>1. Hello(hub.session + 1) \in Seq(Byte)
      BY <2>3, HelloBytes
    <3> QED BY <1>1, <2>1, <3>1, Joined
  <2>5. hub' \in [session : 1..(MaxRestarts + 1), frames : 0..MaxFrames,
                  restarts : 0..MaxRestarts]
        /\ hub'.session = hub'.restarts + 1
    <3> DEFINE s == hub.session + 1
               r == hub.restarts + 1
               S == 1..(MaxRestarts + 1)
               F == 0..MaxFrames
               R == 0..MaxRestarts
               g == [hub EXCEPT !.session = s]
    <3>1. hub' = [g EXCEPT !.restarts = r] /\ s = r + 1
      BY <1>2, <2>1
    <3>2. s \in S /\ r \in R /\ hub \in [session : S, frames : F, restarts : R]
      BY <1>2, <2>2
    <3> HIDE DEF s, r, S, F, R
    <3>3. g \in [session : S, frames : F, restarts : R] /\ g.session = s
      BY <3>2
    <3> HIDE DEF g
    <3>4. /\ hub' \in [session : S, frames : F, restarts : R]
          /\ hub'.session = s /\ hub'.restarts = r
      BY <3>1, <3>2, <3>3
    <3> QED BY <3>1, <3>4 DEF S, F, R
  <2> QED BY <1>2, <2>1, <2>4, <2>5
<1>8. Rest
  BY <1>5, <1>6, <1>7
<1> QED BY <1>3, <1>4, <1>8 DEF Shaped

\* Removing or changing a byte leaves bytes.
LEMMA Damaging ==
  ASSUME NEW bytes \in Seq(Byte), NEW i \in 1..Len(bytes), NEW byte \in Byte
  PROVE  RemoveAt(bytes, i) \in Seq(Byte) /\ ReplaceAt(bytes, i, byte) \in Seq(Byte)
<1>1. SubSeq(bytes, 1, i - 1) \in Seq(Byte) /\ SubSeq(bytes, i + 1, Len(bytes)) \in Seq(Byte)
  <2>1. \A j \in 1..Len(bytes) : bytes[j] \in Byte
    BY ElementOfSeq
  <2>2. Len(bytes) \in Nat
    OBVIOUS
  <2>3. \A j \in 1..(i - 1) : bytes[j] \in Byte
    BY <2>1, <2>2
  <2>4. \A j \in (i + 1)..Len(bytes) : bytes[j] \in Byte
    BY <2>1, <2>2
  <2> QED BY <2>2, <2>3, <2>4, SubSeqProperties
<1>2. RemoveAt(bytes, i) \in Seq(Byte)
  BY <1>1, Joined DEF RemoveAt
<1>3. ReplaceAt(bytes, i, byte) \in Seq(Byte)
  BY DEF ReplaceAt
<1> QED BY <1>2, <1>3

\* What arrives is bytes, damaged or not.
LEMMA ArriveKeepsShape ==
  ASSUME LinkAssumption, Shaped, Arrive
  PROVE  Shaped'
<1>1. hubOut \in Seq(Byte) /\ line \in Seq(Byte) /\ Noise \subseteq Byte
      /\ Len(hubOut) \in Nat /\ Chunk \subseteq Nat /\ damage \in Nat
  <2>1. hubOut \in Seq(Byte) /\ line \in Seq(Byte) /\ damage \in Nat
    BY DEF Shaped
  <2>2. Noise \subseteq Byte /\ Chunk \subseteq Nat
    BY LinkAssumption DEF LinkAssumption
  <2>3. Len(hubOut) \in Nat
    BY <2>1
  <2> QED BY <2>1, <2>2, <2>3
<1>2. PICK n \in Chunk \cup {Len(hubOut)} :
        /\ n <= Len(hubOut)
        /\ LET bytes == SubSeq(hubOut, 1, n) IN
            \/ line' = line \o bytes /\ UNCHANGED damage
            \/ /\ damage' = damage + 1
               /\ \E i \in 1..n :
                    \/ line' = line \o RemoveAt(bytes, i)
                    \/ \E byte \in Noise : line' = line \o ReplaceAt(bytes, i, byte)
        /\ hubOut' = SubSeq(hubOut, n + 1, Len(hubOut))
  BY DEF Arrive
<1> DEFINE bytes == SubSeq(hubOut, 1, n)
<1>3. n \in Nat /\ n <= Len(hubOut)
  BY <1>1, <1>2
<1>4. \A j \in 1..Len(hubOut) : hubOut[j] \in Byte
  BY <1>1, ElementOfSeq
<1>5. bytes \in Seq(Byte) /\ Len(bytes) = n
  <2>1. \A j \in 1..n : hubOut[j] \in Byte
    BY <1>1, <1>3, <1>4
  <2> QED BY <1>3, <2>1, SubSeqProperties
<1>6. hubOut' \in Seq(Byte)
  <2>1. \A j \in (n + 1)..Len(hubOut) : hubOut[j] \in Byte
    BY <1>1, <1>3, <1>4
  <2> QED BY <1>1, <1>2, <1>3, <2>1, SubSeqProperties
<1>7. damage' \in Nat
  BY <1>1, <1>2
<1>8. line' \in Seq(Byte)
  <2>1. \/ line' = line \o bytes
        \/ \E i \in 1..n : \/ line' = line \o RemoveAt(bytes, i)
                           \/ \E byte \in Noise : line' = line \o ReplaceAt(bytes, i, byte)
    BY <1>2
  <2> HIDE DEF bytes
  <2>2. CASE line' = line \o bytes
    BY <1>1, <1>5, <2>2, Joined
  <2>3. ASSUME NEW i \in 1..n, line' = line \o RemoveAt(bytes, i) PROVE line' \in Seq(Byte)
    <3>1. i \in 1..Len(bytes) /\ 0 \in Byte
      BY <1>5, Bytes
    <3>2. RemoveAt(bytes, i) \in Seq(Byte)
      BY <1>5, <3>1, Damaging
    <3> QED BY <1>1, <2>3, <3>2, Joined
  <2>4. ASSUME NEW i \in 1..n, NEW byte \in Noise, line' = line \o ReplaceAt(bytes, i, byte)
        PROVE  line' \in Seq(Byte)
    <3>1. i \in 1..Len(bytes) /\ byte \in Byte
      BY <1>1, <1>5
    <3>2. ReplaceAt(bytes, i, byte) \in Seq(Byte)
      BY <1>5, <3>1, Damaging
    <3> QED BY <1>1, <2>4, <3>2, Joined
  <2> QED BY <2>1, <2>2, <2>3, <2>4
<1>9. UNCHANGED <<phase, attempt, header, fgSessionId, fgLinkStats, inits, hub, sent>>
  BY DEF Arrive, host
<1>10. UNCHANGED <<delivered, first, reads, timeouts>>
  BY DEF Arrive, history
<1> QED BY <1>6, <1>7, <1>8, <1>9, <1>10 DEF Shaped

\* In the beginning.
LEMMA ShapedAtFirst ==
  ASSUME LinkAssumption, Init
  PROVE  Shaped
<1>1. <<>> \in Seq(Byte) /\ <<>> \in Seq(Seq(Byte)) /\ 0 \in Byte
  BY Bytes
<1>2. Attempts \in Nat /\ 0 < Attempts /\ MaxRestarts \in Nat /\ MaxFrames \in Nat
  BY LinkAssumption, Bytes DEF LinkAssumption
<1>3. fgLinkStats \in Stats
  BY DEF Init, Stats
<1>4. hub \in [session : 1..(MaxRestarts + 1), frames : 0..MaxFrames, restarts : 0..MaxRestarts]
      /\ hub.session = hub.restarts + 1
  BY <1>2 DEF Init
<1>5. phase = "init" /\ attempt = 0 /\ attempt \in 0..Attempts
  BY <1>2 DEF Init
<1>6. {inits, first, reads, damage, timeouts} \subseteq Nat
  BY DEF Init
<1> QED BY <1>1, <1>2, <1>3, <1>4, <1>5, <1>6 DEF Init, Shaped, Handshaking

\* Every step keeps the types.
LEMMA ShapedStep ==
  ASSUME LinkAssumption, ChecksumAssumption, Shaped, [Next]_vars
  PROVE  Shaped'
<1>1. CASE UNCHANGED vars
  BY <1>1 DEF vars, host, world, history, faults, Shaped
<1> QED BY <1>1, Actors, HandshakeKeepsShape, ReceiveKeepsShape, HubKeepsShape,
           ArriveKeepsShape

\* Every variable keeps its type, and a payload fits the buffer that receive_v2_frame
\* reads it into, whatever happens to the bytes on their way.
THEOREM TypeCorrect == Spec => []TypeOK
<1>1. Init => Shaped
  BY LinkAssumption, ShapedAtFirst
<1>2. Shaped /\ [Next]_vars => Shaped'
  BY LinkAssumption, ChecksumAssumption, ShapedStep
<1>3. Shaped => TypeOK
  <2> SUFFICES ASSUME Shaped PROVE TypeOK
    OBVIOUS
  <2>1. \A i \in 1..Len(line) : line[i] \in Byte
    BY ElementOfSeq DEF Shaped
  <2>2. {line[i] : i \in 1..Len(line)} \subseteq Byte
    BY <2>1
  <2> QED BY <2>2 DEF Shaped, TypeOK
<1> QED BY <1>1, <1>2, <1>3, PTL DEF Spec

-----------------------------------------------------------------------------
(* Counters. *)

\* What a call can count.
Outcomes == {{"rx_frames"}, {"crc_errors"}, {"framing_errors"},
             {"session_errors", "rx_frames"}, {}}

\* A call counts at most once, and a frame of another session as received, too.
LEMMA CountingOnce ==
  ASSUME fgLinkStats \in Stats, NEW counters \in Outcomes, Return(counters)
  PROVE  /\ phase' = "start"
         /\ Counted \in Nat /\ Counted' = Counted + (IF counters = {} THEN 0 ELSE 1)
         /\ fgLinkStats.session_errors <= fgLinkStats.rx_frames =>
              fgLinkStats'.session_errors <= fgLinkStats'.rx_frames
<1> DEFINE Sum(s) == s.rx_frames + s.crc_errors + s.framing_errors
           More(c) == IF c \in counters THEN 1 ELSE 0
<1>1. /\ phase' = "start"
      /\ fgLinkStats'.rx_frames = fgLinkStats.rx_frames + More("rx_frames")
      /\ fgLinkStats'.crc_errors = fgLinkStats.crc_errors + More("crc_errors")
      /\ fgLinkStats'.framing_errors = fgLinkStats.framing_errors + More("framing_errors")
      /\ fgLinkStats'.session_errors = fgLinkStats.session_errors + More("session_errors")
  BY Counting
<1>2. /\ fgLinkStats.rx_frames \in Nat /\ fgLinkStats.crc_errors \in Nat
      /\ fgLinkStats.framing_errors \in Nat /\ fgLinkStats.session_errors \in Nat
  BY DEF Stats
<1>3. Counted = Sum(fgLinkStats) /\ Counted' = Sum(fgLinkStats')
  BY DEF Counted
<1>4. /\ More("rx_frames") + More("crc_errors") + More("framing_errors")
           = IF counters = {} THEN 0 ELSE 1
      /\ More("session_errors") <= More("rx_frames")
      /\ More("rx_frames") \in {0, 1} /\ More("crc_errors") \in {0, 1}
      /\ More("framing_errors") \in {0, 1} /\ More("session_errors") \in {0, 1}
  BY DEF Outcomes
<1> HIDE DEF More
<1> QED BY <1>1, <1>2, <1>3, <1>4

\* A call that goes on reading has not counted yet; one that is over has counted once.
LEMMA CallCounts ==
  ASSUME Receive
  PROVE  /\ \/ \E counters \in Outcomes : Return(counters)
            \/ UNCHANGED fgLinkStats /\ phase' \in Busy
         /\ \/ phase = "start" /\ reads' = reads + 1
            \/ phase \in Busy /\ reads' = reads
<1> DEFINE Ends == \/ \E counters \in Outcomes : Return(counters)
                   \/ UNCHANGED fgLinkStats /\ phase' \in Busy
           Calls == \/ phase = "start" /\ reads' = reads + 1
                    \/ phase \in Busy /\ reads' = reads
<1>1. /\ {"rx_frames"} \in Outcomes /\ {"crc_errors"} \in Outcomes /\ {} \in Outcomes
      /\ {"framing_errors"} \in Outcomes /\ {"session_errors", "rx_frames"} \in Outcomes
  BY DEF Outcomes
<1>2. ASSUME NEW next \in Busy, NEW bytes, Continue(next, bytes) PROVE Ends
  BY <1>2 DEF Continue
<1>3. ASSUME NEW cmd, NEW port, NEW session, NEW payload,
             process_command(cmd, port, session, payload)
      PROVE  Ends
  BY <1>1, <1>3, Processing
<1>4. CASE ReadStart
  <2>1. \/ Continue("v2_header", <<>>) \/ Continue("legacy_header", <<>>)
        \/ Return({"framing_errors"})
    BY <1>4 DEF ReadStart
  <2>2. phase = "start" /\ reads' = reads + 1
    BY <1>4 DEF ReadStart
  <2>3. "v2_header" \in Busy /\ "legacy_header" \in Busy
    BY DEF Busy
  <2>4. Ends
    BY <1>1, <1>2, <2>1, <2>3
  <2> QED BY <2>2, <2>4
<1>5. CASE ReadV2Header
  <2>1. \E next \in {"discard", "v2_payload"} : Continue(next, Got(6))
    BY <1>5 DEF ReadV2Header
  <2>2. phase = "v2_header" /\ reads' = reads
    BY <1>5 DEF ReadV2Header, history
  <2> QED BY <1>2, <2>1, <2>2 DEF Busy
<1>6. CASE ReadLegacyHeader
  <2>1. Continue("legacy_payload", Got(3)) \/ Return({"framing_errors"})
    BY <1>6 DEF ReadLegacyHeader
  <2>2. phase = "legacy_header" /\ reads' = reads
    BY <1>6 DEF ReadLegacyHeader, history
  <2>3. "legacy_payload" \in Busy /\ "legacy_header" \in Busy
    BY DEF Busy
  <2> QED BY <1>1, <1>2, <2>1, <2>2, <2>3
<1>7. CASE Discard
  <2>1. phase \in Busy /\ reads' = reads /\ Return({"framing_errors"})
    BY <1>7 DEF Discard, history, Busy
  <2> QED BY <1>1, <2>1
<1>8. CASE FrameTimesOut
  <2>1. phase \in Busy /\ reads' = reads /\ Return({})
    BY <1>8 DEF FrameTimesOut, history, Busy
  <2> QED BY <1>1, <2>1
<1>9. CASE ReadLegacyPayload
  <2>1. phase \in Busy /\ reads' = reads
        /\ process_command(header[1], header[3], fgSessionId, Got(header[2]))
    BY <1>9 DEF ReadLegacyPayload, history, Busy
  <2> QED BY <1>3, <2>1
<1>10. CASE ReadV2Payload
  <2>1. phase = "v2_payload" /\ reads' = reads
    BY <1>10 DEF ReadV2Payload
  <2>2. \/ process_command(header[2], header[3], header[6], Got(header[4]))
        \/ Return({"crc_errors"})
    BY <1>10 DEF ReadV2Payload, BadFrame
  <2>3. Ends
    BY <1>1, <1>3, <2>2
  <2> QED BY <2>1, <2>3 DEF Busy
<1> QED BY <1>4, <1>5, <1>6, <1>7, <1>8, <1>9, <1>10 DEF Receive

\* Every step keeps the counters below the calls.
LEMMA TalliedStep ==
  ASSUME LinkAssumption, Shaped, Tallied, [Next]_vars
  PROVE  Tallied'
<1>1. fgLinkStats \in Stats /\ reads \in Nat /\ attempt \in Nat
  BY LinkAssumption DEF Shaped, LinkAssumption
<1>2. fgLinkStats.rx_frames \in Nat /\ fgLinkStats.crc_errors \in Nat
      /\ fgLinkStats.framing_errors \in Nat /\ Counted \in Nat
  BY <1>1 DEF Stats, Counted
<1>3. /\ Counted <= reads /\ (phase \in Busy => Counted < reads)
      /\ fgLinkStats.session_errors <= fgLinkStats.rx_frames
      /\ phase \notin Receiving => Counted = reads
  BY DEF Tallied
<1>4. CASE UNCHANGED <<phase, fgLinkStats, reads>>
  BY <1>3, <1>4 DEF Tallied, Counted
<1>5. CASE Handshake
  <2>1. phase \in Handshaking /\ phase' \in Handshaking \cup {"start"}
        /\ UNCHANGED <<fgLinkStats, reads>>
    BY <1>1, <1>5, HandshakeLeads DEF Handshaking
  <2>2. phase \notin Receiving /\ phase' \notin Busy
    BY <2>1 DEF Handshaking, Receiving, Busy
  <2>3. Counted' = Counted
    BY <2>1 DEF Counted
  <2> QED BY <1>1, <1>2, <1>3, <2>1, <2>2, <2>3 DEF Tallied
<1>6. CASE Receive
  <2>1. phase' \in Receiving
    BY <1>6, ReceiveLeads DEF Return, Receiving
  <2>2. \/ phase = "start" /\ reads' = reads + 1
        \/ phase \in Busy /\ reads' = reads
    BY <1>6, CallCounts
  <2>3. CASE \E counters \in Outcomes : Return(counters)
    <3>1. PICK counters \in Outcomes : Return(counters)
      BY <2>3
    <3>2. /\ phase' = "start" /\ Counted' \in {Counted, Counted + 1}
          /\ fgLinkStats'.session_errors <= fgLinkStats'.rx_frames
      BY <1>1, <1>3, <3>1, CountingOnce
    <3>3. phase' \notin Busy
      BY <3>2 DEF Busy
    <3>4. Counted' <= reads'
      BY <1>1, <1>2, <1>3, <2>2, <3>2
    <3> QED BY <2>1, <3>2, <3>3, <3>4 DEF Tallied
  <2>4. CASE UNCHANGED fgLinkStats /\ phase' \in Busy
    <3>1. Counted' = Counted
      BY <2>4 DEF Counted
    <3>2. Counted' < reads'
      BY <1>1, <1>2, <1>3, <2>2, <3>1
    <3>3. Counted' <= reads'
      BY <1>1, <1>2, <2>2, <3>1, <3>2
    <3> QED BY <1>3, <2>1, <2>4, <3>2, <3>3 DEF Tallied
  <2> QED BY <1>6, <2>3, <2>4, CallCounts
<1>7. CASE HubAnswer \/ HubSend \/ HubRestart \/ Arrive
  <2>1. UNCHANGED <<phase, fgLinkStats, reads>>
    BY <1>7 DEF HubAnswer, HubSend, HubRestart, Arrive, host, history
  <2> QED BY <1>4, <2>1
<1>8. CASE UNCHANGED vars
  BY <1>4, <1>8 DEF vars, host, history
<1> QED BY <1>5, <1>6, <1>7, <1>8, Actors

-----------------------------------------------------------------------------
(* Units. *)

\* The bytes of a body in the stream.
LEMMA BodyAt ==
  ASSUME NEW w \in Seq(Byte), NEW b \in Nat, b + 7 <= Len(w)
  PROVE  /\ Body(w, b) \in Seq(Byte) /\ Len(Body(w, b)) = 7
         /\ \A i \in 1..Len(Body(w, b)) : Body(w, b)[i] = w[b + i]
<1>1. \A i \in (b + 1)..(b + 7) : w[i] \in Byte
  <2>1. \A i \in (b + 1)..(b + 7) : i \in 1..Len(w)
    OBVIOUS
  <2> QED BY <2>1, ElementOfSeq
<1>2. /\ Body(w, b) \in Seq(Byte)
      /\ Len(Body(w, b)) = IF b + 1 <= b + 7 THEN b + 7 - (b + 1) + 1 ELSE 0
      /\ \A i \in 1..(b + 7 - (b + 1) + 1) : Body(w, b)[i] = w[b + 1 + i - 1]
  BY <1>1, SubSeqProperties DEF Body
<1>3. b + 7 - (b + 1) + 1 = 7 /\ Len(Body(w, b)) = 7
  BY <1>2
<1>4. ASSUME NEW i \in 1..Len(Body(w, b)) PROVE Body(w, b)[i] = w[b + i]
  <2>1. i \in 1..(b + 7 - (b + 1) + 1) /\ b + 1 + i - 1 = b + i
    BY <1>3
  <2> QED BY <1>2, <2>1
<1> QED BY <1>2, <1>3, <1>4

\* The first byte of a unit, and its size.
LEMMA FirstByte ==
  ASSUME NEW w, NEW B, NEW S, Framed(w, B, S), NEW b \in B
  PROVE  /\ w[b] \in {INIT, MAGIC, FIRMWARE, START, V2_START}
         /\ b \in Nat /\ 1 <= b /\ b <= Len(w) /\ Len(w) \in Nat
         /\ Size(w[b]) \in {1, 6, 10} /\ b + Size(w[b]) <= Len(w) + 1
<1>1. w \in Seq(Byte) /\ b \in 1..Len(w) /\ b + Size(w[b]) <= Len(w) + 1 /\ Unit(w, b, S)
  BY DEF Framed
<1>2. w[b] \in {INIT, MAGIC, FIRMWARE, START, V2_START}
  BY <1>1 DEF Unit, IsHello
<1>3. Size(w[b]) \in {1, 6, 10}
  BY DEF Size
<1>4. Len(w) \in Nat
  BY <1>1
<1> QED BY <1>1, <1>2, <1>3, <1>4

\* Behind a unit the next one begins.
LEMMA Boundary ==
  ASSUME NEW w, NEW B, NEW S, Framed(w, B, S), NEW b \in B
  PROVE  b + Size(w[b]) \in B \/ b + Size(w[b]) = Len(w) + 1
<1> DEFINE e == b + Size(w[b])
<1>1. /\ b \in Nat /\ Len(w) \in Nat /\ Size(w[b]) \in Nat /\ Size(w[b]) >= 1
      /\ 1 <= b /\ e <= Len(w) + 1
  BY FirstByte
<1>2. SUFFICES ASSUME e <= Len(w) PROVE e \in B
  BY <1>1
<1>3. e \in 1..Len(w)
  BY <1>1, <1>2
<1>4. PICK c \in B : c <= e /\ e < c + Size(w[c])
  BY <1>3 DEF Framed
<1>5. c \in Nat /\ Size(w[c]) \in Nat
  BY FirstByte
<1>6. c # b
  BY <1>1, <1>4
<1>7. ~(c < b)
  <2> SUFFICES ASSUME c < b PROVE FALSE
    OBVIOUS
  <2>1. c + Size(w[c]) <= b
    BY DEF Framed
  <2> QED BY <1>1, <1>4, <1>5, <2>1
<1>8. b < c
  BY <1>1, <1>5, <1>6, <1>7
<1>9. e <= c
  BY <1>8 DEF Framed
<1>10. e \in Nat
  BY <1>1
<1> HIDE DEF e
<1>11. e = c
  BY <1>4, <1>5, <1>9, <1>10
<1> QED BY <1>11

\* What begins with the start byte of a legacy frame is a HELLO.
LEMMA HelloAt ==
  ASSUME NEW w, NEW B, NEW S, Framed(w, B, S), NEW h \in Hellos(w, B)
  PROVE  /\ h \in B /\ IsHello(w, h) /\ Size(w[h]) = 6
         /\ h \in Nat /\ 1 <= h /\ h + 6 <= Len(w) + 1 /\ Len(w) \in Nat
<1>1. h \in B /\ w[h] = START
  BY DEF Hellos
<1>2. Size(w[h]) = 6
  BY <1>1 DEF Size
<1>3. Unit(w, h, S)
  BY <1>1 DEF Framed
<1>4. IsHello(w, h)
  BY <1>1, <1>3 DEF Unit
<1> QED BY <1>1, <1>2, <1>4, FirstByte

\* What begins with the start byte of a v2 frame is one of the hub.
LEMMA FrameAt ==
  ASSUME NEW w, NEW B, NEW S, Framed(w, B, S), NEW b \in Frames(w, B)
  PROVE  /\ b \in B /\ Size(w[b]) = 10 /\ w[b] = V2_START
         /\ b \in Nat /\ 1 <= b /\ b + 10 <= Len(w) + 1 /\ Len(w) \in Nat
         /\ Body(w, b) \in S /\ Len(Body(w, b)) = 7
         /\ Stands(V2Frame(Body(w, b)), w, b)
         /\ \A i \in 1..Len(Body(w, b)) : Body(w, b)[i] = w[b + i]
<1>1. b \in B /\ w[b] = V2_START
  BY DEF Frames
<1>2. Size(w[b]) = 10
  BY <1>1 DEF Size
<1>3. Unit(w, b, S) /\ w \in Seq(Byte)
  BY <1>1 DEF Framed
<1>4. Body(w, b) \in S /\ Stands(V2Frame(Body(w, b)), w, b)
  BY <1>1, <1>3 DEF Unit, IsHello
<1>5. b \in Nat /\ 1 <= b /\ b + 10 <= Len(w) + 1 /\ Len(w) \in Nat
  BY <1>1, <1>2, FirstByte
<1>6. b + 7 <= Len(w)
  BY <1>5
<1>7. Len(Body(w, b)) = 7 /\ \A i \in 1..Len(Body(w, b)) : Body(w, b)[i] = w[b + i]
  BY <1>3, <1>5, <1>6, BodyAt
<1> QED BY <1>1, <1>2, <1>4, <1>5, <1>7

\* What looks like the beginning of a HELLO is one: it is no part of a frame, and it does
\* not begin at the end of a unit, as the next one begins with none of its bytes.
LEMMA Lookalike ==
  ASSUME LinkAssumption, ChecksumAssumption, LookalikeAssumption,
         NEW w, NEW B, NEW S \in SUBSET HubBody, Framed(w, B, S),
         NEW k \in Nat, 1 <= k, k + 4 <= Len(w), IsHello(w, k)
  PROVE  k \in Hellos(w, B)
<1>1. w \in Seq(Byte) /\ Len(w) \in Nat
  BY DEF Framed
<1>2. PICK b \in B : b <= k /\ k < b + Size(w[b])
  <2>1. k \in 1..Len(w)
    BY <1>1
  <2> QED BY <2>1 DEF Framed
<1>3. /\ w[k] = START /\ w[k + 1] = LINK_HELLO /\ w[k + 2] = HELLO_SIZE
      /\ w[k + 3] = PORT_NONE /\ w[k + 4] = V2_VERSION
  BY DEF IsHello
<1>4. /\ b \in Nat /\ 1 <= b /\ Size(w[b]) \in {1, 6, 10}
      /\ w[b] \in {INIT, MAGIC, FIRMWARE, START, V2_START}
  BY FirstByte
<1>5. CASE b = k
  BY <1>3, <1>5 DEF Hellos
<1>6. CASE b # k
  <2> DEFINE e == b + Size(w[b])
  <2>1. b < k /\ k < e /\ e \in Nat
    BY <1>2, <1>4, <1>6
  <2>2. ~(e <= k + 4)
    <3> SUFFICES ASSUME e <= k + 4 PROVE FALSE
      OBVIOUS
    <3>1. e \in B
      <4>1. e <= Len(w)
        BY <1>1, <2>1
      <4> QED BY <1>1, <2>1, <4>1, Boundary
    <3>2. w[e] \in {INIT, MAGIC, FIRMWARE, START, V2_START}
      BY <3>1, FirstByte
    <3>3. e = k + 1 \/ e = k + 2 \/ e = k + 3 \/ e = k + 4
      BY <2>1
    <3>4. w[e] \in {LINK_HELLO, HELLO_SIZE, PORT_NONE, V2_VERSION}
      BY <1>3, <3>3
    <3>5. \A x \in {LINK_HELLO, HELLO_SIZE, PORT_NONE, V2_VERSION} :
            x \notin {INIT, MAGIC, FIRMWARE, START, V2_START}
      OBVIOUS
    <3>6. PICK x : x = w[e]
      OBVIOUS
    <3>7. x \in {INIT, MAGIC, FIRMWARE, START, V2_START}
      BY <3>2, <3>6
    <3>8. x \in {LINK_HELLO, HELLO_SIZE, PORT_NONE, V2_VERSION}
      BY <3>4, <3>6
    <3> QED BY <3>5, <3>7, <3>8
  <2>3. Size(w[b]) # 1
    BY <1>4, <2>1
  <2>4. CASE Size(w[b]) = 6
    <3>1. w[b] = START
      BY <2>4 DEF Size
    <3>2. b \in Hellos(w, B)
      BY <3>1 DEF Hellos
    <3>3. w[b + 1] = LINK_HELLO
      BY <3>2, HelloAt DEF IsHello
    <3>4. k = b + 1
      BY <1>4, <2>1, <2>2, <2>4
    <3> QED BY <1>3, <3>3, <3>4
  <2>5. CASE Size(w[b]) = 10
    <3> DEFINE frame == V2Frame(Body(w, b))
               i == k - b + 1
               look == <<START, LINK_HELLO, HELLO_SIZE, PORT_NONE, V2_VERSION>>
    <3>1. w[b] = V2_START
      BY <2>5 DEF Size
    <3>2. b \in Frames(w, B)
      BY <3>1 DEF Frames
    <3>3. Body(w, b) \in HubBody /\ Stands(frame, w, b)
      BY <3>2, FrameAt
    <3>4. frame \in Seq(Byte) /\ Len(frame) = 10
      BY <3>3, FrameBytes
    <3>5. i \in Nat /\ 1 <= i /\ i + 4 <= Len(frame)
      BY <1>4, <2>1, <2>2, <2>5, <3>4
    <3>6. SubSeq(frame, i, i + 4) # look
      <4>1. i \in 1..(Len(frame) - 4)
        BY <3>4, <3>5
      <4>2. \A j \in 1..(Len(frame) - 4) : SubSeq(frame, j, j + 4) # look
        BY <3>3, LookalikeAssumption DEF LookalikeAssumption
      <4> HIDE DEF frame, look, i
      <4> QED BY <4>1, <4>2
    <3>7. /\ frame[i] = START /\ frame[i + 1] = LINK_HELLO /\ frame[i + 2] = HELLO_SIZE
          /\ frame[i + 3] = PORT_NONE /\ frame[i + 4] = V2_VERSION
      <4>1. Len(frame) \in Nat
        BY <3>4
      <4>2. /\ b + i - 1 = k /\ b + (i + 1) - 1 = k + 1 /\ b + (i + 2) - 1 = k + 2
            /\ b + (i + 3) - 1 = k + 3 /\ b + (i + 4) - 1 = k + 4
        BY <1>4
      <4> HIDE DEF i, frame
      <4>3. /\ i \in 1..Len(frame) /\ i + 1 \in 1..Len(frame) /\ i + 2 \in 1..Len(frame)
            /\ i + 3 \in 1..Len(frame) /\ i + 4 \in 1..Len(frame)
        BY <3>5, <4>1
      <4>4. /\ w[k] = frame[i] /\ w[k + 1] = frame[i + 1] /\ w[k + 2] = frame[i + 2]
            /\ w[k + 3] = frame[i + 3] /\ w[k + 4] = frame[i + 4]
        <5> DEFINE at(j) == b + j - 1
        <5>1. \A j \in 1..Len(frame) : w[at(j)] = frame[j]
          BY <3>3 DEF Stands
        <5>2. /\ at(i) = k /\ at(i + 1) = k + 1 /\ at(i + 2) = k + 2
              /\ at(i + 3) = k + 3 /\ at(i + 4) = k + 4
          BY <4>2
        <5> HIDE DEF at
        <5>3. w[at(i)] = frame[i] /\ w[at(i + 1)] = frame[i + 1]
          BY <4>3, <5>1
        <5>4. w[at(i + 2)] = frame[i + 2] /\ w[at(i + 3)] = frame[i + 3]
          BY <4>3, <5>1
        <5>5. w[at(i + 4)] = frame[i + 4]
          BY <4>3, <5>1
        <5>6. w[k] = frame[i] /\ w[k + 1] = frame[i + 1]
          BY <5>2, <5>3
        <5>7. w[k + 2] = frame[i + 2] /\ w[k + 3] = frame[i + 3]
          BY <5>2, <5>4
        <5>8. w[k + 4] = frame[i + 4]
          BY <5>2, <5>5
        <5> QED BY <5>6, <5>7, <5>8
      <4>5. /\ w[k] = START /\ w[k + 1] = LINK_HELLO /\ w[k + 2] = HELLO_SIZE
            /\ w[k + 3] = PORT_NONE /\ w[k + 4] = V2_VERSION
        BY <1>3
      <4>6. frame[i] = START /\ frame[i + 1] = LINK_HELLO
        BY <4>4, <4>5
      <4>7. frame[i + 2] = HELLO_SIZE /\ frame[i + 3] = PORT_NONE
        BY <4>4, <4>5
      <4>8. frame[i + 4] = V2_VERSION
        BY <4>4, <4>5
      <4> QED BY <4>6, <4>7, <4>8
    <3> HIDE DEF frame, i
    <3>8. SubSeq(frame, i, i + 4) = look
      <4> DEFINE piece == SubSeq(frame, i, i + 4)
      <4>1. \A j \in i..(i + 4) : frame[j] \in Byte
        <5>1. frame \in Seq(Byte) /\ Len(frame) \in Nat
          BY <3>4
        <5>2. \A j \in i..(i + 4) : j \in 1..Len(frame)
          BY <3>5, <5>1
        <5> QED BY <5>1, <5>2, ElementOfSeq
      <4>2. /\ piece \in Seq(Byte) /\ Len(piece) = IF i <= i + 4 THEN i + 4 - i + 1 ELSE 0
            /\ \A j \in 1..(i + 4 - i + 1) : piece[j] = frame[i + j - 1]
        <5>1. i \in Int /\ i + 4 \in Int
          BY <3>5
        <5> DEFINE j == i + 4
        <5>2. /\ SubSeq(frame, i, j) \in Seq(Byte)
              /\ Len(SubSeq(frame, i, j)) = IF i <= j THEN j - i + 1 ELSE 0
              /\ \A m \in 1..(j - i + 1) : SubSeq(frame, i, j)[m] = frame[i + m - 1]
          <6>1. j \in Int /\ \A m \in i..j : frame[m] \in Byte
            BY <4>1, <5>1
          <6> HIDE DEF j
          <6> QED BY <5>1, <6>1, SubSeqProperties, SMTT(30)
        <5> QED BY <5>2
      <4>3. look \in Seq(Byte) /\ Len(look) = 5
        BY Bytes
      <4>4. /\ look[1] = START /\ look[2] = LINK_HELLO /\ look[3] = HELLO_SIZE
            /\ look[4] = PORT_NONE /\ look[5] = V2_VERSION
        OBVIOUS
      <4> HIDE DEF piece, look
      <4>5. i + 4 - i + 1 = 5 /\ Len(piece) = 5
        BY <3>5, <4>2
      <4>6. /\ piece[1] = frame[i] /\ piece[2] = frame[i + 1] /\ piece[3] = frame[i + 2]
            /\ piece[4] = frame[i + 3] /\ piece[5] = frame[i + 4]
        <5>1. \A j \in 1..5 : piece[j] = frame[i + j - 1]
          BY <4>2, <4>5
        <5>2. /\ piece[1] = frame[i + 1 - 1] /\ piece[2] = frame[i + 2 - 1]
              /\ piece[3] = frame[i + 3 - 1] /\ piece[4] = frame[i + 4 - 1]
              /\ piece[5] = frame[i + 5 - 1]
          BY <5>1
        <5>3. /\ i + 1 - 1 = i /\ i + 2 - 1 = i + 1 /\ i + 3 - 1 = i + 2
              /\ i + 4 - 1 = i + 3 /\ i + 5 - 1 = i + 4
          BY <3>5
        <5> QED BY <5>2, <5>3
      <4>7. \A j \in 1..5 : piece[j] = look[j]
        <5>1. /\ piece[1] = look[1] /\ piece[2] = look[2] /\ piece[3] = look[3]
              /\ piece[4] = look[4] /\ piece[5] = look[5]
          BY <3>7, <4>4, <4>6
        <5> QED BY <5>1
      <4>8. \A j \in 1..Len(piece) : piece[j] = look[j]
        BY <4>5, <4>7
      <4>9. piece = look
        <5>1. piece \in Seq(Byte)
          BY <4>2
        <5>2. look \in Seq(Byte)
          BY <4>3
        <5>3. Len(piece) = Len(look)
          BY <4>3, <4>5
        <5> QED BY <4>8, <5>1, <5>2, <5>3, SeqEqual
      <4> QED BY <4>9 DEF piece
    <3> QED BY <3>6, <3>8
  <2> QED BY <1>4, <2>3, <2>4, <2>5
<1> QED BY <1>5, <1>6

-----------------------------------------------------------------------------
(* The hub sends more. *)

\* The bytes v with the units C continue w with the units B.
Longer(w, B, v, C) ==
  /\ v \in Seq(Byte) /\ Len(w) <= Len(v) /\ \A i \in 1..Len(w) : v[i] = w[i]
  /\ B \subseteq C /\ \A c \in C : c <= Len(w) => c \in B
  /\ Len(w) < Len(v) => Len(w) + 1 \in C

\* A body stays the same.
LEMMA BodyKept ==
  ASSUME NEW w \in Seq(Byte), NEW v \in Seq(Byte), NEW b \in Nat, b + 7 <= Len(w),
         Len(w) <= Len(v), \A i \in 1..Len(w) : v[i] = w[i]
  PROVE  Body(v, b) = Body(w, b)
<1>1. /\ Body(w, b) \in Seq(Byte) /\ Len(Body(w, b)) = 7
      /\ \A i \in 1..Len(Body(w, b)) : Body(w, b)[i] = w[b + i]
  BY BodyAt
<1>2. b + 7 <= Len(v) /\ Len(w) \in Nat
  <2>1. Len(w) \in Nat /\ Len(v) \in Nat
    OBVIOUS
  <2> QED BY <2>1
<1>3. /\ Body(v, b) \in Seq(Byte) /\ Len(Body(v, b)) = 7
      /\ \A i \in 1..Len(Body(v, b)) : Body(v, b)[i] = v[b + i]
  BY <1>2, BodyAt
<1>4. ASSUME NEW i \in 1..Len(Body(v, b)) PROVE Body(v, b)[i] = Body(w, b)[i]
  <2>1. i \in 1..Len(Body(w, b))
    BY <1>1, <1>3
  <2>2. b + i \in 1..Len(w)
    BY <1>1, <1>2, <2>1
  <2> QED BY <1>1, <1>3, <2>1, <2>2
<1>5. Len(Body(v, b)) = Len(Body(w, b))
  BY <1>1, <1>3
<1>6. Body(v, b) \in Seq(Byte) /\ Body(w, b) \in Seq(Byte)
  BY <1>1, <1>3
<1> QED BY <1>4, <1>5, <1>6, SeqEqual

\* HELLOs and frames stay where they are, and say the same.
LEMMA UnitsKept ==
  ASSUME NEW w, NEW B, NEW S, Framed(w, B, S), NEW v, NEW C, Longer(w, B, v, C)
  PROVE  /\ \A h \in Hellos(w, B) :
              h \in Hellos(v, C) /\ Announced(v, h) = Announced(w, h) /\ h <= Len(w)
         /\ \A b \in Frames(w, B) :
              /\ b \in Frames(v, C) /\ Number(v, b) = Number(w, b) /\ b <= Len(w)
              /\ SessionOf(v, b) = SessionOf(w, b) /\ Body(v, b) = Body(w, b)
         /\ \A h \in Hellos(v, C) : h <= Len(w) => h \in Hellos(w, B)
         /\ \A b \in Frames(v, C) : b <= Len(w) => b \in Frames(w, B)
<1>1. w \in Seq(Byte) /\ Len(w) \in Nat /\ B \subseteq 1..Len(w)
  BY DEF Framed
<1>2. /\ v \in Seq(Byte) /\ Len(w) <= Len(v) /\ \A i \in 1..Len(w) : v[i] = w[i]
      /\ B \subseteq C /\ \A c \in C : c <= Len(w) => c \in B
  BY DEF Longer
<1>3. ASSUME NEW h \in Hellos(w, B)
      PROVE  h \in Hellos(v, C) /\ Announced(v, h) = Announced(w, h) /\ h <= Len(w)
  <2>1. h \in B /\ h \in Nat /\ 1 <= h /\ h + 6 <= Len(w) + 1
    BY HelloAt
  <2>2. h \in 1..Len(w) /\ h + 5 \in 1..Len(w)
    BY <1>1, <2>1
  <2>3. v[h] = w[h] /\ v[h + 5] = w[h + 5]
    BY <1>2, <2>2
  <2> QED BY <1>2, <2>1, <2>2, <2>3 DEF Hellos, Announced
<1>4. ASSUME NEW b \in Frames(w, B)
      PROVE  /\ b \in Frames(v, C) /\ Number(v, b) = Number(w, b) /\ b <= Len(w)
             /\ SessionOf(v, b) = SessionOf(w, b) /\ Body(v, b) = Body(w, b)
  <2>1. b \in B /\ b \in Nat /\ 1 <= b /\ b + 10 <= Len(w) + 1
    BY FrameAt
  <2>2. b \in 1..Len(w) /\ b + 5 \in 1..Len(w) /\ b + 6 \in 1..Len(w) /\ b + 7 <= Len(w)
    BY <1>1, <2>1
  <2>3. v[b] = w[b] /\ v[b + 5] = w[b + 5] /\ v[b + 6] = w[b + 6]
    BY <1>2, <2>2
  <2>4. Body(v, b) = Body(w, b)
    BY <1>1, <1>2, <2>1, <2>2, BodyKept
  <2> QED BY <1>2, <2>1, <2>2, <2>3, <2>4 DEF Frames, Number, SessionOf
<1>5. \A h \in Hellos(v, C) : h <= Len(w) => h \in Hellos(w, B)
  BY <1>1, <1>2 DEF Hellos
<1>6. \A b \in Frames(v, C) : b <= Len(w) => b \in Frames(w, B)
  BY <1>1, <1>2 DEF Frames
<1> QED BY <1>3, <1>4, <1>5, <1>6

\* A unit on its own.
Whole(u, S) ==
  \/ Len(u) = 1 /\ u[1] \in {INIT, MAGIC, FIRMWARE}
  \/ Len(u) = 6 /\ IsHello(u, 1)
  \/ \E body \in S : u = V2Frame(body)

\* v and C are w and B with the unit u behind.
Appended(w, B, S, u, v, C, T) ==
  /\ Framed(w, B, S) /\ S \subseteq T /\ T \subseteq HubBody
  /\ u \in Seq(Byte) /\ Whole(u, T)
  /\ v = w \o u /\ C = B \cup {Len(w) + 1}

\* A unit at the end of the stream is one more of its units.
LEMMA Appending ==
  ASSUME LinkAssumption, ChecksumAssumption,
         NEW w, NEW B, NEW S, NEW u, NEW v, NEW C, NEW T, Appended(w, B, S, u, v, C, T)
  PROVE  /\ Framed(v, C, T) /\ Longer(w, B, v, C)
         /\ Len(v) = Len(w) + Len(u) /\ Len(u) >= 1
         /\ \A i \in 1..Len(u) : v[Len(w) + i] = u[i]
         /\ \A body \in T : u = V2Frame(body) => Body(v, Len(w) + 1) = body
<1> DEFINE e == Len(w) + 1
<1>0. /\ Framed(w, B, S) /\ S \subseteq T /\ T \subseteq HubBody
      /\ u \in Seq(Byte) /\ Whole(u, T) /\ C = B \cup {e}
  BY DEF Appended
<1>1. w \in Seq(Byte) /\ Len(w) \in Nat /\ B \subseteq 1..Len(w) /\ e \in Nat
  BY <1>0 DEF Framed
<1>2. /\ v \in Seq(Byte) /\ Len(v) = Len(w) + Len(u) /\ Len(u) \in Nat
      /\ \A i \in 1..Len(w) : v[i] = w[i]
      /\ \A i \in 1..Len(u) : v[Len(w) + i] = u[i]
  BY <1>0, <1>1, Joined DEF Appended
<1>3. ASSUME NEW body \in T, u = V2Frame(body) PROVE Len(u) = 10 /\ u[1] = V2_START
  BY <1>0, <1>3, FrameBytes
<1>4. Len(u) >= 1 /\ Len(u) = Size(u[1])
  BY <1>0, <1>3 DEF Whole, Size, IsHello
<1>5. v[e] = u[1] /\ Len(w) < Len(v) /\ e + Size(v[e]) = Len(v) + 1
  <2>1. 1 \in 1..Len(u)
    BY <1>2, <1>4
  <2>2. v[e] = u[1]
    BY <1>2, <2>1
  <2>3. Size(v[e]) = Len(u)
    BY <1>4, <2>2
  <2>4. e + Len(u) = Len(v) + 1 /\ Len(w) < Len(v)
    <3>1. Len(v) = Len(w) + Len(u) /\ Len(u) \in Nat
      BY <1>2
    <3>2. Len(u) >= 1
      BY <1>4
    <3> QED BY <1>1, <3>1, <3>2
  <2> QED BY <2>2, <2>3, <2>4
<1>6. C \subseteq 1..Len(v)
  <2>1. Len(v) \in Nat
    BY <1>1, <1>2
  <2>2. e \in 1..Len(v)
    BY <1>1, <1>5, <2>1
  <2>3. \A i \in 1..Len(w) : i \in 1..Len(v)
    BY <1>1, <1>5, <2>1
  <2>4. \A b \in B : b \in 1..Len(v)
    BY <1>1, <2>3
  <2> QED BY <1>0, <2>2, <2>4
<1>7. Longer(w, B, v, C)
  <2>1. \A c \in C : c <= Len(w) => c \in B
    BY <1>0, <1>1
  <2>2. Len(w) <= Len(v)
    BY <1>1, <1>2
  <2> QED BY <1>0, <1>2, <2>1, <2>2 DEF Longer
<1>8. ASSUME NEW body \in T, u = V2Frame(body) PROVE Body(v, e) = body /\ Unit(v, e, T)
  <2>1. /\ body \in Seq(Byte) /\ Len(body) = 7 /\ Len(u) = 10
        /\ \A i \in 1..Len(body) : u[i + 1] = body[i]
    <3>1. body \in HubBody
      BY <1>0
    <3>2. body \in Seq(Byte) /\ Len(body) = 7
      BY <3>1, BodyBytes
    <3>3. Len(V2Frame(body)) = 10 /\ \A i \in 1..Len(body) : V2Frame(body)[i + 1] = body[i]
      BY <3>1, FrameBytes
    <3> QED BY <1>8, <3>2, <3>3
  <2>2. e + 7 <= Len(v)
    BY <1>1, <1>2, <2>1
  <2>3. /\ Body(v, e) \in Seq(Byte) /\ Len(Body(v, e)) = 7
        /\ \A i \in 1..Len(Body(v, e)) : Body(v, e)[i] = v[e + i]
    <3>1. PICK b \in Nat : b = e
      BY <1>1
    <3>2. v \in Seq(Byte) /\ b + 7 <= Len(v)
      BY <1>2, <2>2, <3>1
    <3>3. /\ Body(v, b) \in Seq(Byte) /\ Len(Body(v, b)) = 7
          /\ \A i \in 1..Len(Body(v, b)) : Body(v, b)[i] = v[b + i]
      BY <3>2, BodyAt
    <3> QED BY <3>1, <3>3
  <2>4. ASSUME NEW i \in 1..Len(Body(v, e)) PROVE Body(v, e)[i] = body[i]
    <3>1. i \in 1..Len(body) /\ i + 1 \in 1..Len(u) /\ e + i = Len(w) + (i + 1)
      <4>1. Len(Body(v, e)) = Len(body) /\ Len(u) = Len(body) + 3 /\ Len(body) \in Nat
        BY <2>1, <2>3
      <4>2. i \in 1..Len(body)
        BY <4>1
      <4>3. i + 1 \in 1..Len(u)
        BY <4>1, <4>2
      <4> QED BY <1>1, <4>2, <4>3
    <3>2. Body(v, e)[i] = v[e + i] /\ u[i + 1] = body[i] /\ v[Len(w) + (i + 1)] = u[i + 1]
      <4>1. Body(v, e)[i] = v[e + i]
        BY <2>3
      <4>2. u[i + 1] = body[i]
        BY <2>1, <3>1
      <4>3. v[Len(w) + (i + 1)] = u[i + 1]
        BY <1>2, <3>1
      <4> QED BY <4>1, <4>2, <4>3
    <3> QED BY <3>1, <3>2
  <2>5. Body(v, e) = body
    <3>1. Len(Body(v, e)) = Len(body)
      BY <2>1, <2>3
    <3>2. Body(v, e) \in Seq(Byte)
      BY <2>3
    <3>3. body \in Seq(Byte)
      BY <2>1
    <3> QED BY <2>4, <3>1, <3>2, <3>3, SeqEqual
  <2>6. Stands(u, v, e)
    <3> SUFFICES ASSUME NEW i \in 1..Len(u) PROVE v[e + i - 1] = u[i]
      BY DEF Stands
    <3>1. e + i - 1 = Len(w) + i
      BY <1>1
    <3> QED BY <1>2, <3>1
  <2>7. v[e] = V2_START
    BY <1>3, <1>5, <1>8
  <2> QED BY <1>8, <2>5, <2>6, <2>7 DEF Unit
<1>9. Unit(v, e, T)
  <2>1. CASE Len(u) = 1 /\ u[1] \in {INIT, MAGIC, FIRMWARE}
    BY <1>5, <2>1 DEF Unit
  <2>2. CASE Len(u) = 6 /\ IsHello(u, 1)
    <3>1. /\ 1 \in 1..Len(u) /\ 2 \in 1..Len(u) /\ 3 \in 1..Len(u)
          /\ 4 \in 1..Len(u) /\ 5 \in 1..Len(u)
      BY <2>2
    <3>2. /\ Len(w) + 1 = e /\ Len(w) + 2 = e + 1 /\ Len(w) + 3 = e + 2
          /\ Len(w) + 4 = e + 3 /\ Len(w) + 5 = e + 4
      BY <1>1
    <3>3. /\ v[Len(w) + 1] = u[1] /\ v[Len(w) + 2] = u[2] /\ v[Len(w) + 3] = u[3]
          /\ v[Len(w) + 4] = u[4] /\ v[Len(w) + 5] = u[5]
      BY <1>2, <3>1
    <3>4. /\ u[1] = START /\ u[2] = LINK_HELLO /\ u[3] = HELLO_SIZE
          /\ u[4] = PORT_NONE /\ u[5] = V2_VERSION
      BY <2>2 DEF IsHello
    <3> HIDE DEF e
    <3>5. IsHello(v, e)
      BY <3>2, <3>3, <3>4 DEF IsHello
    <3> QED BY <3>5 DEF Unit
  <2>3. CASE \E body \in T : u = V2Frame(body)
    BY <1>8, <2>3
  <2> QED BY <1>0, <2>1, <2>2, <2>3 DEF Whole
<1>10. ASSUME NEW b \in B
       PROVE  v[b] = w[b] /\ b + Size(v[b]) <= e /\ Unit(v, b, T) /\ b < e
  <2>1. b \in 1..Len(w) /\ b + Size(w[b]) <= Len(w) + 1 /\ Unit(w, b, S)
    BY <1>0 DEF Framed
  <2>2. v[b] = w[b] /\ b < e
    BY <1>1, <1>2, <2>1
  <2>3. CASE w[b] \in {INIT, MAGIC, FIRMWARE}
    BY <2>1, <2>2, <2>3 DEF Unit
  <2>4. CASE IsHello(w, b)
    <3>1. b \in Hellos(w, B)
      BY <2>4 DEF IsHello, Hellos
    <3>2. b \in Nat /\ b + 6 <= Len(w) + 1
      BY <1>0, <3>1, HelloAt
    <3>3. /\ b + 1 \in 1..Len(w) /\ b + 2 \in 1..Len(w) /\ b + 3 \in 1..Len(w)
          /\ b + 4 \in 1..Len(w)
      BY <1>1, <3>2
    <3>4. /\ v[b + 1] = w[b + 1] /\ v[b + 2] = w[b + 2] /\ v[b + 3] = w[b + 3]
          /\ v[b + 4] = w[b + 4]
      <4>1. \A i \in 1..Len(w) : v[i] = w[i]
        BY <1>2
      <4>2. v[b + 1] = w[b + 1] /\ v[b + 2] = w[b + 2]
        BY <3>3, <4>1
      <4>3. v[b + 3] = w[b + 3] /\ v[b + 4] = w[b + 4]
        BY <3>3, <4>1
      <4> QED BY <4>2, <4>3
    <3>5. IsHello(v, b)
      BY <2>2, <2>4, <3>4 DEF IsHello
    <3> QED BY <2>1, <2>2, <3>5 DEF Unit
  <2>5. CASE w[b] = V2_START
    <3>1. b \in Frames(w, B)
      BY <2>5 DEF Frames
    <3>2. /\ b \in Nat /\ 1 <= b /\ b + 10 <= Len(w) + 1 /\ Body(w, b) \in S
          /\ Stands(V2Frame(Body(w, b)), w, b)
      BY <1>0, <3>1, FrameAt
    <3>3. Body(v, b) = Body(w, b)
      BY <1>0, <1>7, <3>1, UnitsKept
    <3> DEFINE frame == V2Frame(Body(w, b))
    <3>4. Len(frame) = 10
      BY <1>0, <3>2, FrameBytes
    <3>5. Stands(frame, w, b)
      BY <3>2
    <3> HIDE DEF frame
    <3>6. Stands(frame, v, b)
      <4> SUFFICES ASSUME NEW i \in 1..Len(frame) PROVE v[b + i - 1] = frame[i]
        BY DEF Stands
      <4>1. b + i - 1 \in 1..Len(w)
        BY <1>1, <3>2, <3>4
      <4>2. w[b + i - 1] = frame[i]
        BY <3>5 DEF Stands
      <4> QED BY <1>2, <4>1, <4>2
    <3>7. Unit(v, b, T)
      BY <1>0, <2>2, <2>5, <3>2, <3>3, <3>6 DEF Unit, frame
    <3> QED BY <2>1, <2>2, <3>7
  <2> QED BY <2>1, <2>3, <2>4, <2>5 DEF Unit
<1>11. ASSUME NEW b \in C PROVE b + Size(v[b]) <= Len(v) + 1 /\ Unit(v, b, T)
  <2>1. CASE b = e
    BY <1>1, <1>2, <1>5, <1>9, <2>1
  <2>2. CASE b \in B
    <3>1. b + Size(v[b]) <= e /\ Unit(v, b, T)
      BY <1>10, <2>2
    <3>2. b \in Nat /\ Size(v[b]) \in Nat
      BY <1>1, <2>2 DEF Size
    <3> QED BY <1>1, <1>2, <1>5, <3>1, <3>2
  <2> QED BY <1>0, <2>1, <2>2
<1>12. ASSUME NEW b \in C, NEW c \in C, b < c PROVE b + Size(v[b]) <= c
  <2>1. b \in B
    <3>1. \A x \in B : x < e
      BY <1>10
    <3>2. ~(e < e) /\ B \subseteq Nat
      BY <1>1
    <3>3. b # e
      <4> SUFFICES ASSUME b = e PROVE FALSE
        OBVIOUS
      <4>1. c \in B
        BY <1>0, <1>12, <3>2
      <4>2. c \in Nat /\ c < e /\ e < c
        BY <1>12, <3>1, <3>2, <4>1
      <4> QED BY <1>1, <4>2
    <3> QED BY <1>0, <3>3
  <2>2. CASE c = e
    BY <1>10, <2>1, <2>2
  <2>3. CASE c \in B
    <3>1. b + Size(w[b]) <= c
      BY <1>0, <1>12, <2>1, <2>3 DEF Framed
    <3> QED BY <1>10, <2>1, <3>1
  <2> QED BY <1>0, <2>2, <2>3
<1>13. ASSUME NEW i \in 1..Len(v) PROVE \E b \in C : b <= i /\ i < b + Size(v[b])
  <2>1. CASE i <= Len(w)
    <3>1. i \in 1..Len(w)
      BY <1>1, <2>1
    <3>2. PICK b \in B : b <= i /\ i < b + Size(w[b])
      BY <1>0, <3>1 DEF Framed
    <3>3. b \in C /\ v[b] = w[b]
      BY <1>0, <1>10
    <3> QED BY <3>2, <3>3
  <2>2. CASE ~(i <= Len(w))
    <3>1. e <= i /\ i < e + Size(v[e])
      BY <1>1, <1>2, <1>5, <2>2
    <3> QED BY <1>0, <3>1
  <2> QED BY <2>1, <2>2
<1>14. Framed(v, C, T)
  BY <1>2, <1>6, <1>11, <1>12, <1>13 DEF Framed
<1> QED BY <1>2, <1>4, <1>7, <1>8, <1>14

\* The fields of HELLOs and frames are numbers.
LEMMA Fields ==
  ASSUME NEW w, NEW B, NEW S, Framed(w, B, S)
  PROVE  /\ \A h \in Hellos(w, B) : h \in Nat /\ Announced(w, h) \in Nat
         /\ \A b \in Frames(w, B) : b \in Nat /\ Number(w, b) \in Nat /\ SessionOf(w, b) \in Nat
<1>1. w \in Seq(Byte) /\ Len(w) \in Nat
  BY DEF Framed
<1>2. \A i \in 1..Len(w) : w[i] \in Nat
  BY <1>1, ElementOfSeq, Bytes
<1>3. ASSUME NEW h \in Hellos(w, B) PROVE h \in Nat /\ Announced(w, h) \in Nat
  <2>1. h \in Nat /\ h + 5 \in 1..Len(w)
    BY <1>1, HelloAt
  <2> QED BY <1>2, <2>1 DEF Announced
<1>4. ASSUME NEW b \in Frames(w, B)
      PROVE  b \in Nat /\ Number(w, b) \in Nat /\ SessionOf(w, b) \in Nat
  <2>1. b \in Nat /\ b + 5 \in 1..Len(w) /\ b + 6 \in 1..Len(w)
    BY <1>1, FrameAt
  <2> QED BY <1>2, <2>1 DEF Number, SessionOf
<1> QED BY <1>3, <1>4

\* v and C are w and B with a HELLO of the session s2 behind, with a frame n2 of the
\* current session, or with neither; all other bodies of T are in S.
Continued(w, B, S, n, s, v, C, T, n2, s2) ==
  /\ Framed(w, B, S) /\ InOrder(w, B, S, n, s) /\ Framed(v, C, T) /\ Longer(w, B, v, C)
  /\ n <= n2 /\ s <= s2
  /\ \A c \in C : c <= Len(w) \/ c = Len(w) + 1
  /\ \A h \in Hellos(v, C) : Len(w) < h => Announced(v, h) = s2
  /\ \A b \in Frames(v, C) : Len(w) < b =>
       Number(v, b) = n2 /\ n < n2 /\ SessionOf(v, b) = s2 /\ s2 = s
  /\ s < s2 => Len(w) + 1 \in Hellos(v, C)
  /\ \A body \in T : body \in S \/ \E b \in Frames(v, C) : Body(v, b) = body

\* The stream is then still in order.
LEMMA MoreInOrder ==
  ASSUME NEW w, NEW B, NEW S, NEW n \in Nat, NEW s \in Nat \ {0},
         NEW v, NEW C, NEW T, NEW n2 \in Nat, NEW s2 \in Nat,
         Continued(w, B, S, n, s, v, C, T, n2, s2)
  PROVE  InOrder(v, C, T, n2, s2)
<1>0. /\ Framed(w, B, S) /\ InOrder(w, B, S, n, s) /\ Framed(v, C, T) /\ Longer(w, B, v, C)
      /\ n <= n2 /\ s <= s2
      /\ \A c \in C : c <= Len(w) \/ c = Len(w) + 1
      /\ \A h \in Hellos(v, C) : Len(w) < h => Announced(v, h) = s2
      /\ \A b \in Frames(v, C) : Len(w) < b =>
           Number(v, b) = n2 /\ n < n2 /\ SessionOf(v, b) = s2 /\ s2 = s
      /\ s < s2 => Len(w) + 1 \in Hellos(v, C)
      /\ \A body \in T : body \in S \/ \E b \in Frames(v, C) : Body(v, b) = body
  BY DEF Continued
<1> DEFINE L == Len(w)
           H == Hellos(w, B)
           F == Frames(w, B)
           H2 == Hellos(v, C)
           F2 == Frames(v, C)
           e == Len(w) + 1
<1>1. L \in Nat /\ e \in Nat /\ L < e
  BY <1>0 DEF Framed
<1>2. /\ \A h \in H : h \in H2 /\ Announced(v, h) = Announced(w, h) /\ h <= L
      /\ \A b \in F : /\ b \in F2 /\ Number(v, b) = Number(w, b) /\ b <= L
                      /\ SessionOf(v, b) = SessionOf(w, b) /\ Body(v, b) = Body(w, b)
      /\ \A h \in H2 : h <= L => h \in H
      /\ \A b \in F2 : b <= L => b \in F
  BY <1>0, UnitsKept
<1>3. /\ \A h \in H2 : h \in Nat /\ Announced(v, h) \in Nat
      /\ \A b \in F2 : b \in Nat /\ Number(v, b) \in Nat /\ SessionOf(v, b) \in Nat
  BY <1>0, Fields
<1>4. /\ \A h \in H2 : h \in H \/ (h = e /\ Announced(v, h) = s2)
      /\ \A b \in F2 : b \in F \/ (/\ b = e /\ Number(v, b) = n2 /\ n < n2
                                   /\ SessionOf(v, b) = s2 /\ s2 = s)
  <2>1. \A h \in H2 : h <= L \/ h = e
    BY <1>0 DEF Hellos
  <2>2. \A b \in F2 : b <= L \/ b = e
    BY <1>0 DEF Frames
  <2>3. \A h \in H2 : h = e => Announced(v, h) = s2
    BY <1>0, <1>1
  <2>4. \A b \in F2 : b = e => Number(v, b) = n2 /\ n < n2 /\ SessionOf(v, b) = s2 /\ s2 = s
    BY <1>0, <1>1
  <2> QED BY <1>2, <2>1, <2>2, <2>3, <2>4
<1>5. /\ \A h \in H : Announced(w, h) \in 1..s
      /\ \A b \in F : Number(w, b) <= n /\ SessionOf(w, b) <= s
      /\ \A g, h \in H : g < h => Announced(w, g) <= Announced(w, h)
      /\ \A b \in F, h \in H : /\ b < h => SessionOf(w, b) <= Announced(w, h)
                               /\ h < b => Announced(w, h) <= SessionOf(w, b)
  BY <1>0 DEF InOrder
<1>6. /\ \A b, c \in F : b < c => Number(w, b) < Number(w, c)
      /\ \A h \in H, b \in F : h < b /\ Announced(w, h) < SessionOf(w, b) =>
           \E g \in H : h < g /\ g < b /\ Announced(w, g) = SessionOf(w, b)
      /\ \A h \in H : Announced(w, h) < s => \E g \in H : h < g /\ Announced(w, g) = s
      /\ \A body \in S : \E b \in F : Body(w, b) = body
  BY <1>0 DEF InOrder
<1> HIDE DEF L, H, F, H2, F2, e
<1>15. /\ n <= n2 /\ s <= s2 /\ (s < s2 => e \in H2)
       /\ \A body \in T : body \in S \/ \E b \in F2 : Body(v, b) = body
  BY <1>0 DEF H2, F2, e
<1>7. ASSUME NEW h \in H2 PROVE Announced(v, h) \in 1..s2
  BY <1>2, <1>3, <1>4, <1>5, <1>15
<1>8. ASSUME NEW b \in F2 PROVE Number(v, b) <= n2 /\ SessionOf(v, b) <= s2
  BY <1>2, <1>3, <1>4, <1>5, <1>15
<1>9. ASSUME NEW g \in H2, NEW h \in H2, g < h PROVE Announced(v, g) <= Announced(v, h)
  <2>1. CASE h \in H
    <3>1. g \in H
      BY <1>1, <1>2, <1>3, <1>4, <1>9, <2>1
    <3> QED BY <1>2, <1>5, <1>9, <2>1, <3>1
  <2>2. CASE Announced(v, h) = s2
    <3>1. Announced(v, g) \in 1..s2
      BY <1>7
    <3> QED BY <2>2, <3>1
  <2> QED BY <1>4, <2>1, <2>2
<1>10. ASSUME NEW b \in F2, NEW h \in H2
       PROVE  /\ b < h => SessionOf(v, b) <= Announced(v, h)
              /\ h < b => Announced(v, h) <= SessionOf(v, b)
  <2>1. CASE b \in F /\ h \in H
    BY <1>2, <1>5, <2>1
  <2>2. ASSUME b < h PROVE SessionOf(v, b) <= Announced(v, h)
    <3>1. CASE h \in H
      <4>1. b \in F
        BY <1>1, <1>2, <1>3, <1>4, <2>2, <3>1
      <4> QED BY <2>1, <2>2, <3>1, <4>1
    <3>2. CASE Announced(v, h) = s2
      BY <1>8, <3>2
    <3> QED BY <1>4, <3>1, <3>2
  <2>3. ASSUME h < b PROVE Announced(v, h) <= SessionOf(v, b)
    <3>1. CASE b \in F
      <4>1. h \in H
        BY <1>1, <1>2, <1>3, <1>4, <2>3, <3>1
      <4> QED BY <2>1, <2>3, <3>1, <4>1
    <3>2. CASE SessionOf(v, b) = s2
      <4>1. Announced(v, h) \in 1..s2
        BY <1>7
      <4> QED BY <3>2, <4>1
    <3> QED BY <1>4, <3>1, <3>2
  <2> QED BY <2>2, <2>3
<1>11. ASSUME NEW b \in F2, NEW c \in F2, b < c PROVE Number(v, b) < Number(v, c)
  <2>1. b \in F
    <3>1. \A x \in F : x <= L /\ x \in Nat
      BY <1>2, <1>3
    <3> QED BY <1>1, <1>3, <1>4, <1>11, <3>1
  <2>2. CASE c \in F
    BY <1>2, <1>6, <1>11, <2>1, <2>2
  <2>3. CASE Number(v, c) = n2 /\ n < n2
    <3>1. Number(v, b) <= n /\ Number(v, b) \in Nat
      BY <1>2, <1>3, <1>5, <2>1
    <3> QED BY <2>3, <3>1
  <2> QED BY <1>4, <2>2, <2>3
<1>12. ASSUME NEW h \in H2, NEW b \in F2, h < b, Announced(v, h) < SessionOf(v, b)
       PROVE  \E g \in H2 : h < g /\ g < b /\ Announced(v, g) = SessionOf(v, b)
  <2>1. h \in H
    <3>1. \A x \in F : x <= L /\ x \in Nat
      BY <1>2, <1>3
    <3> QED BY <1>1, <1>3, <1>4, <1>12, <3>1
  <2>2. CASE b \in F
    <3>1. PICK g \in H : h < g /\ g < b /\ Announced(w, g) = SessionOf(w, b)
      BY <1>2, <1>6, <1>12, <2>1, <2>2
    <3> QED BY <1>2, <2>2, <3>1
  <2>3. CASE b = e /\ SessionOf(v, b) = s
    <3>1. PICK g \in H : h < g /\ Announced(w, g) = s
      BY <1>2, <1>6, <1>12, <2>1, <2>3
    <3>2. g \in H2 /\ g <= L /\ g \in Nat /\ Announced(v, g) = s
      BY <1>2, <1>3, <3>1
    <3> QED BY <1>1, <2>3, <3>1, <3>2
  <2> QED BY <1>4, <2>2, <2>3
<1>13. ASSUME NEW h \in H2, Announced(v, h) < s2
       PROVE  \E g \in H2 : h < g /\ Announced(v, g) = s2
  <2>1. h \in H
    BY <1>3, <1>4, <1>13
  <2>2. CASE s < s2
    <3>1. e \in H2
      BY <1>15, <2>2
    <3>2. h <= L /\ h \in Nat
      BY <1>2, <1>3, <2>1
    <3>3. Announced(v, e) = s2
      <4>1. e \notin H
        BY <1>1, <1>2
      <4> QED BY <1>4, <3>1, <4>1
    <3> QED BY <1>1, <3>1, <3>2, <3>3
  <2>3. CASE s2 = s
    <3>1. PICK g \in H : h < g /\ Announced(w, g) = s
      BY <1>2, <1>6, <1>13, <2>1, <2>3
    <3> QED BY <1>2, <2>3, <3>1
  <2> QED BY <1>15, <2>2, <2>3
<1>14. ASSUME NEW body \in T PROVE \E b \in F2 : Body(v, b) = body
  <2>1. CASE body \in S
    BY <1>2, <1>6, <2>1
  <2> QED BY <1>15, <2>1
<1> QED BY <1>7, <1>8, <1>9, <1>10, <1>11, <1>12, <1>13, <1>14 DEF InOrder, H2, F2

\* A thread in step has a stream and its units.
LEMMA Units ==
  ASSUME InStep
  PROVE  \E w, B : w \in Seq(Byte) /\ B \in SUBSET (1..Len(w)) /\ InStepWith(w, B)
<1>1. PICK w \in Seq(Byte) : \E B \in SUBSET (1..Len(w)) : InStepWith(w, B)
  BY DEF InStep
<1>2. PICK B \in SUBSET (1..Len(w)) : InStepWith(w, B)
  BY <1>1
<1> QED BY <1>2

\* Where the thread is in the stream.
LEMMA Position ==
  ASSUME Shaped, NEW w \in Seq(Byte), Flows(w)
  PROVE  /\ Pos(w) \in Nat /\ Len(line) \in Nat /\ Len(hubOut) \in Nat /\ Len(w) \in Nat
         /\ Len(w) = Pos(w) + Len(line) + Len(hubOut)
         /\ BytesRead \in {0, 1, 4, 7} /\ Begin(w) = Pos(w) + 1 - BytesRead
<1>1. line \in Seq(Byte) /\ hubOut \in Seq(Byte)
  BY DEF Shaped
<1>2. Len(line) \in Nat /\ Len(hubOut) \in Nat /\ Len(w) \in Nat
  BY <1>1
<1>3. Pos(w) \in Nat /\ Pos(w) = Len(w) - Len(line) - Len(hubOut)
  BY DEF Flows, Pos
<1>4. BytesRead \in {0, 1, 4, 7}
  BY DEF BytesRead
<1>5. Begin(w) = Pos(w) + 1 - BytesRead
  BY DEF Begin
<1> QED BY <1>2, <1>3, <1>4, <1>5

\* In a step of the hub, w and B become v and C.
Sent(w, B, v, C) ==
  /\ Framed(v, C, sent') /\ InOrder(v, C, sent', hub'.frames, hub'.session)
  /\ Longer(w, B, v, C)
  /\ UNCHANGED host /\ UNCHANGED line /\ UNCHANGED history
  /\ sent \subseteq sent' /\ hub'.frames \in Nat /\ hub.frames <= hub'.frames
  /\ Len(hubOut') = Len(hubOut) + (Len(v) - Len(w))
  /\ \A i \in 1..Len(hubOut) : hubOut'[i] = hubOut[i]
  /\ \A i \in 1..(Len(v) - Len(w)) : hubOut'[Len(hubOut) + i] = v[Len(w) + i]
  /\ \A b \in Frames(v, C) : Len(w) < b => hub.frames < Number(v, b)

\* The thread is then still in step.
LEMMA HubKeepsInStep ==
  ASSUME Shaped, NEW w, NEW B, InStepWith(w, B), NEW v, NEW C, Sent(w, B, v, C)
  PROVE  InStepWith(v, C)'
<1>0. /\ Framed(v, C, sent') /\ InOrder(v, C, sent', hub'.frames, hub'.session)
      /\ Longer(w, B, v, C)
      /\ UNCHANGED host /\ UNCHANGED line /\ UNCHANGED history
      /\ sent \subseteq sent' /\ hub'.frames \in Nat /\ hub.frames <= hub'.frames
      /\ Len(hubOut') = Len(hubOut) + (Len(v) - Len(w))
      /\ \A i \in 1..Len(hubOut) : hubOut'[i] = hubOut[i]
      /\ \A i \in 1..(Len(v) - Len(w)) : hubOut'[Len(hubOut) + i] = v[Len(w) + i]
      /\ \A b \in Frames(v, C) : Len(w) < b => hub.frames < Number(v, b)
  BY DEF Sent
<1>1. /\ Framed(w, B, sent) /\ InOrder(w, B, sent, hub.frames, hub.session)
      /\ Flows(w) /\ Placed(w, B) /\ (phase \in Receiving => CaughtUp(w, B))
      /\ w \in Seq(Byte) /\ v \in Seq(Byte)
  BY <1>0 DEF InStepWith, Framed
<1>2. /\ Pos(w) \in Nat /\ Len(line) \in Nat /\ Len(hubOut) \in Nat /\ Len(w) \in Nat
      /\ Len(w) = Pos(w) + Len(line) + Len(hubOut)
      /\ BytesRead \in {0, 1, 4, 7} /\ Begin(w) = Pos(w) + 1 - BytesRead
  BY <1>1, Position
<1>3. /\ UNCHANGED <<phase, header, fgSessionId, fgLinkStats, line>>
      /\ UNCHANGED <<delivered, first, reads>>
  BY <1>0 DEF host, history
<1>4. Len(v) \in Nat /\ Len(w) <= Len(v) /\ \A i \in 1..Len(w) : v[i] = w[i]
  BY <1>0, <1>1 DEF Longer
<1>5. Pos(v)' = Pos(w)
  <2>1. Pos(v)' = Len(v) - Len(line') - Len(hubOut')
    BY DEF Pos
  <2>2. Len(line') = Len(line)
    BY <1>3
  <2>4. Len(hubOut') = Len(hubOut) + (Len(v) - Len(w))
    BY <1>0
  <2>3. Len(v) - Len(line) - (Len(hubOut) + (Len(v) - Len(w))) = Pos(w)
    BY <1>2, <1>4
  <2> QED BY <2>1, <2>2, <2>3, <2>4
<1>6. BytesRead' = BytesRead /\ Begin(v)' = Begin(w)
  <2>1. BytesRead' = BytesRead
    BY <1>3 DEF BytesRead
  <2>2. Begin(v)' = Pos(v)' + 1 - BytesRead'
    BY DEF Begin
  <2> QED BY <1>2, <1>5, <2>1, <2>2
<1>7. /\ \A h \in Hellos(w, B) :
           h \in Hellos(v, C) /\ Announced(v, h) = Announced(w, h) /\ h <= Len(w)
      /\ \A b \in Frames(w, B) :
           /\ b \in Frames(v, C) /\ Number(v, b) = Number(w, b) /\ b <= Len(w)
           /\ SessionOf(v, b) = SessionOf(w, b) /\ Body(v, b) = Body(w, b)
      /\ \A h \in Hellos(v, C) : h <= Len(w) => h \in Hellos(w, B)
      /\ \A b \in Frames(v, C) : b <= Len(w) => b \in Frames(w, B)
  BY <1>0, <1>1, UnitsKept
<1>8. /\ \A h \in Hellos(v, C) : h \in Nat
      /\ \A b \in Frames(v, C) : b \in Nat /\ Number(v, b) \in Nat
  BY <1>0, Fields
<1>9. Flows(v)'
  <2>1. \A i \in 1..Len(line) : line[i] = v[Pos(w) + i]
    <3> SUFFICES ASSUME NEW i \in 1..Len(line) PROVE line[i] = v[Pos(w) + i]
      OBVIOUS
    <3>1. Pos(w) + i \in 1..Len(w)
      BY <1>2
    <3>2. line[i] = w[Pos(w) + i]
      BY <1>1 DEF Flows
    <3> QED BY <1>4, <3>1, <3>2
  <2>2. \A i \in 1..Len(hubOut') : hubOut'[i] = v[Pos(w) + Len(line) + i]
    <3> SUFFICES ASSUME NEW i \in 1..Len(hubOut')
                 PROVE  hubOut'[i] = v[Pos(w) + Len(line) + i]
      OBVIOUS
    <3>1. CASE i <= Len(hubOut)
      <4>1. i \in 1..Len(hubOut) /\ Pos(w) + Len(line) + i \in 1..Len(w)
        BY <1>2, <3>1
      <4>2. hubOut[i] = w[Pos(w) + Len(line) + i]
        BY <1>1, <4>1 DEF Flows
      <4> QED BY <1>0, <1>4, <4>1, <4>2
    <3>2. CASE ~(i <= Len(hubOut))
      <4> DEFINE j == i - Len(hubOut)
      <4>1. /\ j \in 1..(Len(v) - Len(w)) /\ Len(hubOut) + j = i
            /\ Pos(w) + Len(line) + i = Len(w) + j
        <5>1. Len(hubOut') = Len(hubOut) + (Len(v) - Len(w))
          BY <1>0
        <5>2. i \in 1..(Len(hubOut) + (Len(v) - Len(w)))
          BY <5>1
        <5>3. j \in 1..(Len(v) - Len(w))
          BY <1>2, <1>4, <3>2, <5>2
        <5>4. Len(hubOut) + j = i
          BY <1>2, <5>2
        <5>5. Pos(w) + Len(line) + i = Len(w) + j
          BY <1>2, <1>4, <5>2
        <5> QED BY <5>3, <5>4, <5>5
      <4> HIDE DEF j
      <4>2. hubOut'[Len(hubOut) + j] = v[Len(w) + j]
        BY <1>0, <4>1
      <4> QED BY <4>1, <4>2
    <3> QED BY <3>1, <3>2
  <2>3. Pos(w) \in Nat
    BY <1>2
  <2>4. \A i \in 1..Len(line') : line'[i] = v[Pos(w) + i]
    BY <1>3, <2>1
  <2>5. \A i \in 1..Len(hubOut') : hubOut'[i] = v[Pos(w) + Len(line') + i]
    BY <1>3, <2>2
  <2> QED BY <1>5, <2>3, <2>4, <2>5 DEF Flows
<1>10. PICK e \in Int : e = Begin(w) /\ e <= Len(w) + 1 /\ e <= Pos(w) + 1
  <2>1. BytesRead \in Nat
    BY <1>2
  <2>2. /\ Begin(w) \in Int
        /\ Begin(w) <= Len(w) + 1 /\ Begin(w) <= Pos(w) + 1
    BY <1>2, <2>1
  <2> QED BY <2>2
<1>11. /\ e \in Frames(w, B) => e \in Frames(v, C)
       /\ e \in Hellos(w, B) => e \in Hellos(v, C)
       /\ e \in B => e \in C
       /\ e = Len(w) + 1 => e \in C \/ e = Len(v) + 1
  <2>1. Len(w) + 1 \in C \/ Len(w) = Len(v)
    <3>1. Len(w) < Len(v) => Len(w) + 1 \in C
      BY <1>0 DEF Longer
    <3> QED BY <1>2, <1>4, <3>1
  <2> QED BY <1>0, <1>7, <2>1 DEF Longer
<1>12. Placed(v, C)'
  <2>1. phase = "hello_header" => Pos(w) >= 1 /\ v[Pos(w)] = START
    <3> SUFFICES ASSUME phase = "hello_header" PROVE Pos(w) >= 1 /\ v[Pos(w)] = START
      OBVIOUS
    <3>1. Pos(w) >= 1 /\ w[Pos(w)] = START
      BY <1>1 DEF Placed
    <3>2. Pos(w) \in 1..Len(w)
      BY <1>2, <3>1
    <3> QED BY <1>4, <3>1, <3>2
  <2>2. phase = "hello_payload" =>
          Pos(w) >= 4 /\ v[Pos(w) - 3] = START /\ v[Pos(w) - 2] = LINK_HELLO
            /\ v[Pos(w) - 1] = HELLO_SIZE /\ v[Pos(w)] = PORT_NONE
    <3> SUFFICES ASSUME phase = "hello_payload"
                 PROVE  Pos(w) >= 4 /\ v[Pos(w) - 3] = START /\ v[Pos(w) - 2] = LINK_HELLO
                          /\ v[Pos(w) - 1] = HELLO_SIZE /\ v[Pos(w)] = PORT_NONE
      OBVIOUS
    <3>1. Pos(w) >= 4 /\ w[Pos(w) - 3] = START /\ w[Pos(w) - 2] = LINK_HELLO
            /\ w[Pos(w) - 1] = HELLO_SIZE /\ w[Pos(w)] = PORT_NONE
      BY <1>1 DEF Placed
    <3>2. /\ Pos(w) - 3 \in 1..Len(w) /\ Pos(w) - 2 \in 1..Len(w)
          /\ Pos(w) - 1 \in 1..Len(w) /\ Pos(w) \in 1..Len(w)
      <4>1. Pos(w) >= 4
        BY <3>1
      <4>2. Pos(w) \in Nat /\ Len(w) \in Nat /\ Pos(w) <= Len(w)
        BY <1>2
      <4> QED BY <4>1, <4>2
    <3>3. /\ v[Pos(w) - 3] = w[Pos(w) - 3] /\ v[Pos(w) - 2] = w[Pos(w) - 2]
          /\ v[Pos(w) - 1] = w[Pos(w) - 1] /\ v[Pos(w)] = w[Pos(w)]
      BY <1>4, <3>2
    <3> QED BY <3>1, <3>3
  <2>3. phase = "v2_payload" => \A i \in 1..HEADER : header[i] = v[e + i]
    <3> SUFFICES ASSUME phase = "v2_payload", NEW i \in 1..HEADER PROVE header[i] = v[e + i]
      OBVIOUS
    <3>1. header[i] = w[e + i] /\ e \in Frames(w, B)
      BY <1>1, <1>10 DEF Placed
    <3>2. e \in Nat /\ 1 <= e /\ e + 10 <= Len(w) + 1
      <4>1. PICK b \in Frames(w, B) : b = e
        BY <3>1
      <4>2. b \in Nat /\ 1 <= b /\ b + 10 <= Len(w) + 1
        BY <1>1, FrameAt
      <4> QED BY <4>1, <4>2
    <3>3. e + i \in 1..Len(w)
      <4>1. Len(w) \in Nat /\ i \in Nat /\ 1 <= i /\ i <= 6
        BY <1>2
      <4> QED BY <3>2, <4>1
    <3> QED BY <1>4, <3>1, <3>3
  <2>4. /\ phase = "start" => e \in B \/ e = Len(w) + 1
        /\ phase \in {"v2_header", "v2_payload"} => e \in Frames(w, B)
        /\ phase \in {"legacy_header", "legacy_payload"} => e \in Hellos(w, B)
        /\ phase = "legacy_payload" => header = <<LINK_HELLO, HELLO_SIZE, PORT_NONE>>
        /\ phase # "discard"
    BY <1>1, <1>10 DEF Placed
  <2>5. /\ phase = "start" => e \in C \/ e = Len(v) + 1
        /\ phase \in {"v2_header", "v2_payload"} => e \in Frames(v, C)
        /\ phase \in {"legacy_header", "legacy_payload"} => e \in Hellos(v, C)
    BY <1>11, <2>4
  <2>6. phase' = phase /\ header' = header /\ Begin(v)' = e
    BY <1>3, <1>6, <1>10
  <2> QED BY <1>5, <2>1, <2>2, <2>3, <2>4, <2>5, <2>6 DEF Placed
<1>13. ASSUME phase' \in Receiving PROVE CaughtUp(v, C)'
  <2>1. Processed(w, B, e) /\ Counted = IF phase = "start" THEN reads ELSE reads - 1
    BY <1>1, <1>3, <1>10, <1>13 DEF CaughtUp
  <2>2. Counted' = IF phase' = "start" THEN reads' ELSE reads' - 1
    BY <1>3, <2>1 DEF Counted
  <2>3. /\ \E h \in Hellos(w, B) :
             /\ h < e /\ Announced(w, h) = fgSessionId
             /\ \A g \in Hellos(w, B) : g < e => g <= h
        /\ \A b \in Frames(w, B) : b < e /\ Number(w, b) >= first =>
             \E i \in 1..Len(delivered) : delivered[i] = Body(w, b)
        /\ \A i \in 1..Len(delivered), b \in Frames(w, B) :
             b >= e => delivered[i][5] < Number(w, b)
    BY <2>1 DEF Processed
  <2>4. /\ \A i \in 1..Len(delivered) : delivered[i] \in sent /\ delivered[i][5] <= hub.frames
        /\ \A i, j \in 1..Len(delivered) : i < j => delivered[i][5] < delivered[j][5]
    BY <2>1 DEF Processed
  <2>5. \A i \in 1..Len(delivered) : delivered[i][5] \in Nat /\ hub.frames \in Nat
    <3>1. sent \subseteq HubBody /\ hub.frames \in Nat
      BY DEF Shaped
    <3>2. \A body \in HubBody : body[5] \in Nat
      <4> SUFFICES ASSUME NEW body \in HubBody PROVE body[5] \in Nat
        OBVIOUS
      <4>1. body[5] \in 1..MaxFrames
        BY LinkAssumption, BodyBytes
      <4> QED BY <4>1
    <3> QED BY <2>4, <3>1, <3>2
  <2>6. \E h \in Hellos(v, C) :
          /\ h < e /\ Announced(v, h) = fgSessionId
          /\ \A g \in Hellos(v, C) : g < e => g <= h
    <3>1. PICK h \in Hellos(w, B) : /\ h < e /\ Announced(w, h) = fgSessionId
                                    /\ \A g \in Hellos(w, B) : g < e => g <= h
      BY <2>3
    <3>2. \A g \in Hellos(v, C) : g < e => g \in Hellos(w, B)
      BY <1>2, <1>7, <1>8, <1>10
    <3> QED BY <1>7, <3>1, <3>2
  <2>7. \A b \in Frames(v, C) : b < e /\ Number(v, b) >= first =>
          \E i \in 1..Len(delivered) : delivered[i] = Body(v, b)
    <3> SUFFICES ASSUME NEW b \in Frames(v, C), b < e, Number(v, b) >= first
                 PROVE  \E i \in 1..Len(delivered) : delivered[i] = Body(v, b)
      OBVIOUS
    <3>1. b \in Frames(w, B)
      BY <1>2, <1>7, <1>8, <1>10
    <3>2. Number(v, b) = Number(w, b) /\ Body(v, b) = Body(w, b)
      BY <1>7, <3>1
    <3> QED BY <2>3, <3>1, <3>2
  <2>8. \A i \in 1..Len(delivered), b \in Frames(v, C) :
          b >= e => delivered[i][5] < Number(v, b)
    <3> SUFFICES ASSUME NEW i \in 1..Len(delivered), NEW b \in Frames(v, C), b >= e
                 PROVE  delivered[i][5] < Number(v, b)
      OBVIOUS
    <3>1. CASE b <= Len(w)
      BY <1>7, <2>3, <3>1
    <3>2. CASE ~(b <= Len(w))
      <4>1. hub.frames < Number(v, b) /\ Number(v, b) \in Nat
        BY <1>0, <1>2, <1>8, <3>2
      <4>2. delivered[i][5] <= hub.frames /\ delivered[i][5] \in Nat /\ hub.frames \in Nat
        BY <2>4, <2>5
      <4> QED BY <4>1, <4>2
    <3> QED BY <3>1, <3>2
  <2>9. \A i \in 1..Len(delivered) : delivered[i] \in sent' /\ delivered[i][5] <= hub'.frames
    BY <1>0, <2>4, <2>5
  <2>10. Begin(v)' = e /\ UNCHANGED <<fgSessionId, first, delivered>>
    BY <1>3, <1>6, <1>10
  <2>11. Processed(v, C, e)'
    BY <2>4, <2>6, <2>7, <2>8, <2>9, <2>10 DEF Processed
  <2> QED BY <2>2, <2>10, <2>11 DEF CaughtUp
<1> QED BY <1>0, <1>9, <1>12, <1>13 DEF InStepWith

\* A stream that is cut into units, in order up to frame n and session s.
Stream(w, B, S, n, s) ==
  /\ w \in Seq(Byte) /\ B \subseteq 1..Len(w) /\ S \subseteq HubBody
  /\ n \in Nat /\ s \in Nat \ {0}
  /\ Framed(w, B, S) /\ InOrder(w, B, S, n, s)

\* The bytes u are no frame, and have been appended to w.
Grown(w, B, u, v, C) ==
  /\ Longer(w, B, v, C) /\ u \in Seq(Byte) /\ Len(v) = Len(w) + Len(u)
  /\ \A i \in 1..Len(u) : v[Len(w) + i] = u[i]
  /\ \A b \in Frames(v, C) : b <= Len(w)

\* A byte of the answer to INIT, or a HELLO that announces the session s2.
Greeting(u, s, s2) ==
  /\ u \in Seq(Byte) /\ s2 \in Nat /\ s <= s2
  /\ \/ Len(u) = 1 /\ u[1] \in {INIT, MAGIC, FIRMWARE} /\ s2 = s
     \/ Len(u) = 6 /\ IsHello(u, 1) /\ u[6] = s2

\* The stream with either of them behind.
LEMMA NoFrame ==
  ASSUME LinkAssumption, ChecksumAssumption,
         NEW w, NEW B, NEW S, NEW n, NEW s, NEW s2, NEW u, NEW v, NEW C,
         Stream(w, B, S, n, s), Greeting(u, s, s2), Appended(w, B, S, u, v, C, S)
  PROVE  Stream(v, C, S, n, s2) /\ Grown(w, B, u, v, C)
<1>1. /\ w \in Seq(Byte) /\ B \subseteq 1..Len(w) /\ S \in SUBSET HubBody
      /\ n \in Nat /\ s \in Nat \ {0}
      /\ Framed(w, B, S) /\ InOrder(w, B, S, n, s)
  BY DEF Stream
<1>0. /\ u \in Seq(Byte) /\ s2 \in Nat /\ s <= s2
      /\ \/ Len(u) = 1 /\ u[1] \in {INIT, MAGIC, FIRMWARE} /\ s2 = s
         \/ Len(u) = 6 /\ IsHello(u, 1) /\ u[6] = s2
  BY DEF Greeting
<1>2. /\ Framed(v, C, S) /\ Longer(w, B, v, C) /\ Len(v) = Len(w) + Len(u) /\ Len(u) >= 1
      /\ \A i \in 1..Len(u) : v[Len(w) + i] = u[i]
  BY Appending
<1>3. Len(w) \in Nat /\ B \subseteq 1..Len(w) /\ Len(u) \in Nat
  BY <1>0, <1>1
<1>4. Len(w) + 1 \in C /\ C \subseteq Nat /\ \A c \in C : c <= Len(w) \/ c = Len(w) + 1
  <2> DEFINE e == Len(w) + 1
  <2>1. C = B \cup {e}
    BY DEF Appended
  <2>2. e \in Nat
    BY <1>3
  <2>3. \A b \in B : b \in Nat /\ b <= Len(w)
    BY <1>3
  <2> HIDE DEF e
  <2>4. e \in C /\ C \subseteq Nat /\ \A c \in C : c <= Len(w) \/ c = e
    BY <2>1, <2>2, <2>3
  <2> QED BY <2>4 DEF e
<1>5. v[Len(w) + 1] = u[1]
  <2>1. 1 \in 1..Len(u)
    BY <1>2, <1>3
  <2> QED BY <1>2, <2>1
<1>6. u[1] # V2_START
  BY <1>0 DEF IsHello
<1>7. \A b \in Frames(v, C) : b <= Len(w)
  BY <1>4, <1>5, <1>6 DEF Frames
<1>8. \A h \in Hellos(v, C) : Len(w) < h => Announced(v, h) = s2
  <2> SUFFICES ASSUME NEW h \in Hellos(v, C), Len(w) < h PROVE Announced(v, h) = s2
    OBVIOUS
  <2>1. h = Len(w) + 1 /\ v[h] = START
    <3>1. h \in C /\ v[h] = START
      BY DEF Hellos
    <3>2. ~(h <= Len(w))
      BY <1>3, <1>4, <3>1
    <3> QED BY <1>4, <3>1, <3>2
  <2>2. Len(u) = 6 /\ u[6] = s2
    BY <1>0, <1>5, <2>1
  <2>3. 6 \in 1..Len(u) /\ h + 5 = Len(w) + 6
    BY <1>3, <2>1, <2>2
  <2>4. v[Len(w) + 6] = u[6]
    BY <1>2, <2>3
  <2> QED BY <2>2, <2>3, <2>4 DEF Announced
<1>9. s < s2 => Len(w) + 1 \in Hellos(v, C)
  <2> SUFFICES ASSUME s < s2 PROVE Len(w) + 1 \in Hellos(v, C)
    OBVIOUS
  <2>1. u[1] = START
    <3>1. ~(s2 = s)
      BY <1>0, <1>1
    <3> QED BY <1>0, <3>1 DEF IsHello
  <2> QED BY <1>4, <1>5, <2>1 DEF Hellos
<1>10. \A b \in Frames(v, C) : Len(w) < b =>
         Number(v, b) = n /\ n < n /\ SessionOf(v, b) = s2 /\ s2 = s
  <2>1. \A b \in Frames(v, C) : ~(Len(w) < b)
    BY <1>3, <1>4, <1>7 DEF Frames
  <2> QED BY <2>1
<1>11. InOrder(v, C, S, n, s2)
  <2>1. n <= n
    BY <1>1
  <2>2. \A body \in S : body \in S \/ \E b \in Frames(v, C) : Body(v, b) = body
    OBVIOUS
  <2>3. Continued(w, B, S, n, s, v, C, S, n, s2)
    BY <1>0, <1>1, <1>2, <1>4, <1>8, <1>9, <1>10, <2>1, <2>2 DEF Continued
  <2> QED BY <1>0, <1>1, <2>3, MoreInOrder
<1>12. s2 \in Nat \ {0}
  BY <1>0, <1>1
<1>13. Stream(v, C, S, n, s2)
  <2>1. v \in Seq(Byte) /\ C \subseteq 1..Len(v)
    BY <1>2 DEF Framed
  <2> QED BY <1>1, <1>2, <1>11, <1>12, <2>1 DEF Stream
<1>14. Grown(w, B, u, v, C)
  BY <1>0, <1>2, <1>7 DEF Grown
<1> QED BY <1>13, <1>14

\* The body of the next frame of the current session.
NextBody(body, S, T, n, s) ==
  body \in HubBody /\ body[5] = n + 1 /\ body[6] = s /\ T = S \cup {body}

\* The stream with that frame behind.
LEMMA NextFrame ==
  ASSUME LinkAssumption, ChecksumAssumption,
         NEW w, NEW B, NEW S, NEW n, NEW s, Stream(w, B, S, n, s),
         NEW body, NEW T, NextBody(body, S, T, n, s),
         NEW u, u = V2Frame(body), NEW v, NEW C, Appended(w, B, S, u, v, C, T)
  PROVE  /\ Framed(v, C, T) /\ InOrder(v, C, T, n + 1, s)
         /\ Longer(w, B, v, C)
         /\ u \in Seq(Byte) /\ Len(v) = Len(w) + Len(u)
         /\ \A i \in 1..Len(u) : v[Len(w) + i] = u[i]
         /\ \A b \in Frames(v, C) : Len(w) < b => Number(v, b) = n + 1
<1>0. /\ w \in Seq(Byte) /\ B \subseteq 1..Len(w) /\ n \in Nat /\ s \in Nat \ {0}
      /\ Framed(w, B, S) /\ InOrder(w, B, S, n, s)
  BY DEF Stream
<1> body \in HubBody /\ body[5] = n + 1 /\ body[6] = s /\ T = S \cup {body}
  BY DEF NextBody
<1>1. /\ Framed(v, C, T) /\ Longer(w, B, v, C)
      /\ Len(v) = Len(w) + Len(u) /\ Len(u) >= 1
      /\ \A i \in 1..Len(u) : v[Len(w) + i] = u[i]
      /\ \A x \in T : u = V2Frame(x) => Body(v, Len(w) + 1) = x
  BY Appending
<1>2. u \in Seq(Byte)
  BY DEF Appended
<1>3. Len(w) \in Nat /\ B \subseteq 1..Len(w)
  BY <1>0
<1>4. PICK e \in Nat : e = Len(w) + 1
  BY <1>3
<1>5. Body(v, e) = body
  BY <1>1, <1>4
<1>6. e \in C /\ C \subseteq Nat /\ \A c \in C : c <= Len(w) \/ c = e
  <2>1. C = B \cup {e}
    BY <1>4 DEF Appended
  <2>2. \A b \in B : b \in Nat /\ b <= Len(w)
    BY <1>3
  <2> QED BY <2>1, <2>2
<1>7. e \in Frames(v, C)
  <2>1. 1 \in 1..Len(u)
    BY <1>1, <1>2
  <2>2. v[Len(w) + 1] = u[1]
    BY <1>1, <2>1
  <2>3. V2Frame(body)[1] = V2_START
    BY FrameBytes
  <2> QED BY <1>4, <1>6, <2>2, <2>3 DEF Frames
<1>8. Number(v, e) = n + 1 /\ SessionOf(v, e) = s
  <2> DEFINE l == Len(Body(v, e))
  <2>0. /\ Len(Body(v, e)) = 7
        /\ \A i \in 1..Len(Body(v, e)) : Body(v, e)[i] = v[e + i]
    <3>1. Framed(v, C, T)
      BY <1>1
    <3> QED BY <1>7, <3>1, FrameAt
  <2>1. l = 7 /\ \A i \in 1..l : Body(v, e)[i] = v[e + i]
    BY <2>0
  <2> HIDE DEF l
  <2>2. 5 \in 1..l /\ 6 \in 1..l
    <3>1. l = 7
      BY <2>1
    <3> QED BY <3>1
  <2>3. body[5] = v[e + 5] /\ body[6] = v[e + 6]
    BY <1>5, <2>1, <2>2
  <2> QED BY <2>3 DEF Number, SessionOf
<1>9. \A b \in Frames(v, C) : Len(w) < b => b = e
  <2> SUFFICES ASSUME NEW b \in Frames(v, C), Len(w) < b PROVE b = e
    OBVIOUS
  <2>1. b \in C /\ b \in Nat
    BY <1>6 DEF Frames
  <2>2. ~(b <= Len(w))
    BY <1>3, <2>1
  <2> QED BY <1>6, <2>1, <2>2
<1>10. \A h \in Hellos(v, C) : Len(w) < h => Announced(v, h) = s
  <2> SUFFICES ASSUME NEW h \in Hellos(v, C), Len(w) < h PROVE FALSE
    OBVIOUS
  <2>1. h \in C /\ v[h] = START /\ h \in Nat
    BY <1>6 DEF Hellos
  <2>2. ~(h <= Len(w))
    BY <1>3, <2>1
  <2>3. h = e
    BY <1>6, <2>1, <2>2
  <2> QED BY <1>7, <2>1, <2>3 DEF Frames
<1>11. \A x \in T : x \in S \/ \E b \in Frames(v, C) : Body(v, b) = x
  BY <1>5, <1>7
<1>12. InOrder(v, C, T, n + 1, s)
  <2>1. /\ n + 1 \in Nat /\ n <= n + 1 /\ s <= s /\ ~(s < s) /\ s \in Nat /\ n < n + 1
    BY <1>0
  <2>2. \A b \in Frames(v, C) : Len(w) < b =>
          Number(v, b) = n + 1 /\ n < n + 1 /\ SessionOf(v, b) = s /\ s = s
    BY <1>8, <1>9, <2>1
  <2>3. \A c \in C : c <= Len(w) \/ c = Len(w) + 1
    BY <1>4, <1>6
  <2>4. Continued(w, B, S, n, s, v, C, T, n + 1, s)
    BY <1>0, <1>1, <1>10, <1>11, <2>1, <2>2, <2>3 DEF Continued
  <2> QED BY <1>0, <2>1, <2>4, MoreInOrder
<1>13. \A b \in Frames(v, C) : Len(w) < b => Number(v, b) = n + 1
  BY <1>8, <1>9
<1> QED BY <1>1, <1>2, <1>12, <1>13

\* Continuing twice is continuing.
LEMMA LongerTwice ==
  ASSUME NEW w, NEW B, NEW v, NEW C, NEW x, NEW D \in SUBSET Nat, Len(w) \in Nat,
         Longer(w, B, v, C), Longer(v, C, x, D)
  PROVE  Longer(w, B, x, D)
<1>1. v \in Seq(Byte) /\ x \in Seq(Byte) /\ Len(w) <= Len(v) /\ Len(v) <= Len(x)
  BY DEF Longer
<1>2. Len(v) \in Nat /\ Len(x) \in Nat
  BY <1>1
<1>3. Len(w) <= Len(x)
  BY <1>1, <1>2
<1>4. ASSUME NEW i \in 1..Len(w) PROVE x[i] = w[i]
  <2>1. i \in 1..Len(v)
    BY <1>1, <1>2
  <2> QED BY <2>1 DEF Longer
<1>5. B \subseteq D
  BY DEF Longer
<1>6. ASSUME NEW d \in D, d <= Len(w) PROVE d \in B
  <2>1. d \in C \/ ~(d <= Len(v))
    BY DEF Longer
  <2>2. d \in C => d \in B
    BY <1>6 DEF Longer
  <2>3. d <= Len(v)
    BY <1>1, <1>2, <1>6
  <2> QED BY <2>1, <2>2, <2>3
<1>7. ASSUME Len(w) < Len(x) PROVE Len(w) + 1 \in D
  <2>1. CASE Len(w) < Len(v)
    BY <1>5, <2>1 DEF Longer
  <2>2. CASE Len(w) = Len(v)
    BY <1>7, <2>2 DEF Longer
  <2> QED BY <1>1, <1>2, <2>1, <2>2
<1> QED BY <1>1, <1>3, <1>4, <1>5, <1>6, <1>7 DEF Longer

\* The stream with a byte of the answer to INIT behind.
LEMMA OneByte ==
  ASSUME LinkAssumption, ChecksumAssumption,
         NEW w, NEW B, NEW S, NEW n, NEW s, Stream(w, B, S, n, s),
         NEW x \in {INIT, MAGIC, FIRMWARE}
  PROVE  \E v, C : Stream(v, C, S, n, s) /\ Grown(w, B, <<x>>, v, C)
<1> DEFINE u == <<x>>
<1>1. u \in Seq(Byte) /\ Len(u) = 1 /\ u[1] = x
  BY Bytes
<1> HIDE DEF u
<1> DEFINE v == w \o u
           C == B \cup {Len(w) + 1}
<1>2. Appended(w, B, S, u, v, C, S)
  BY <1>1 DEF Appended, Whole, Stream
<1> HIDE DEF v, C
<1>3. Greeting(u, s, s)
  <2>1. s \in Nat /\ s <= s
    BY DEF Stream
  <2> QED BY <1>1, <2>1 DEF Greeting
<1>4. Stream(v, C, S, n, s) /\ Grown(w, B, u, v, C)
  BY <1>2, <1>3, NoFrame
<1> QED BY <1>4 DEF u

\* The stream with a HELLO behind.
LEMMA OneHello ==
  ASSUME LinkAssumption, ChecksumAssumption,
         NEW w, NEW B, NEW S, NEW n, NEW s, Stream(w, B, S, n, s),
         NEW s2 \in Byte, s <= s2
  PROVE  \E v, C : Stream(v, C, S, n, s2) /\ Grown(w, B, Hello(s2), v, C)
<1> DEFINE u == Hello(s2)
<1>1. u \in Seq(Byte) /\ Len(u) = 6 /\ IsHello(u, 1) /\ u[6] = s2
  BY HelloBytes DEF IsHello
<1> HIDE DEF u
<1> DEFINE v == w \o u
           C == B \cup {Len(w) + 1}
<1>2. Appended(w, B, S, u, v, C, S)
  BY <1>1 DEF Appended, Whole, Stream
<1> HIDE DEF v, C
<1>3. Greeting(u, s, s2)
  <2>1. s2 \in Nat
    BY Bytes
  <2> QED BY <1>1, <2>1 DEF Greeting
<1>4. Stream(v, C, S, n, s2) /\ Grown(w, B, u, v, C)
  BY <1>2, <1>3, NoFrame
<1> QED BY <1>4 DEF u

\* Growing twice is growing.
LEMMA GrownTwice ==
  ASSUME NEW w, NEW B, NEW t, NEW v, NEW C, NEW u, NEW x, NEW D, NEW S, NEW n, NEW s,
         Stream(w, B, S, n, s), Stream(v, C, S, n, s), Grown(w, B, t, v, C),
         Stream(x, D, S, n, s), Grown(v, C, u, x, D)
  PROVE  Grown(w, B, t \o u, x, D)
<1>0. w \in Seq(Byte) /\ D \subseteq Nat /\ C \subseteq 1..Len(v)
  BY DEF Stream
<1>1. /\ Longer(w, B, v, C) /\ t \in Seq(Byte) /\ Len(v) = Len(w) + Len(t)
      /\ \A i \in 1..Len(t) : v[Len(w) + i] = t[i]
      /\ \A b \in Frames(v, C) : b <= Len(w)
  BY DEF Grown
<1>2. /\ Longer(v, C, x, D) /\ u \in Seq(Byte) /\ Len(x) = Len(v) + Len(u)
      /\ \A i \in 1..Len(u) : x[Len(v) + i] = u[i]
      /\ \A b \in Frames(x, D) : b <= Len(v)
  BY DEF Grown
<1>3. Len(w) \in Nat /\ Len(t) \in Nat /\ Len(u) \in Nat
  BY <1>0, <1>1, <1>2
<1>4. Longer(w, B, x, D)
  BY <1>0, <1>1, <1>2, <1>3, LongerTwice
<1>5. /\ t \o u \in Seq(Byte) /\ Len(t \o u) = Len(t) + Len(u)
      /\ \A i \in 1..Len(t) : (t \o u)[i] = t[i]
      /\ \A i \in 1..Len(u) : (t \o u)[Len(t) + i] = u[i]
  BY <1>1, <1>2, Joined
<1>6. Len(x) = Len(w) + Len(t \o u)
  BY <1>1, <1>2, <1>3, <1>5
<1>7. ASSUME NEW i \in 1..Len(t \o u) PROVE x[Len(w) + i] = (t \o u)[i]
  <2>1. CASE i <= Len(t)
    <3>1. i \in 1..Len(t) /\ Len(w) + i \in 1..Len(v)
      BY <1>1, <1>3, <1>5, <2>1
    <3>2. x[Len(w) + i] = v[Len(w) + i]
      BY <1>2, <3>1 DEF Longer
    <3> QED BY <1>1, <1>5, <3>1, <3>2
  <2>2. CASE ~(i <= Len(t))
    <3>1. PICK j \in 1..Len(u) : i = Len(t) + j
      <4>1. i - Len(t) \in 1..Len(u) /\ i = Len(t) + (i - Len(t))
        BY <1>3, <1>5, <2>2
      <4> QED BY <4>1
    <3>2. Len(w) + i = Len(v) + j
      BY <1>1, <1>3, <3>1
    <3> QED BY <1>2, <1>5, <3>1, <3>2
  <2> QED BY <2>1, <2>2
<1>8. ASSUME NEW b \in Frames(x, D) PROVE b <= Len(w)
  <2>1. b \in D /\ x[b] = V2_START /\ b <= Len(v) /\ b \in Nat
    BY <1>0, <1>2 DEF Frames
  <2>2. b \in C
    BY <1>2, <2>1 DEF Longer
  <2>3. v[b] = x[b]
    <3>1. b \in 1..Len(v)
      BY <1>0, <2>2
    <3> QED BY <1>2, <3>1 DEF Longer
  <2>4. b \in Frames(v, C)
    BY <2>1, <2>2, <2>3 DEF Frames
  <2> QED BY <1>1, <2>4
<1> QED BY <1>4, <1>5, <1>6, <1>7, <1>8 DEF Grown

\* The stream of a state, which is cut into units.
LEMMA StreamOf ==
  ASSUME Shaped, NEW w, NEW B, InStepWith(w, B)
  PROVE  Stream(w, B, sent, hub.frames, hub.session)
<1>1. /\ hub \in [session : 1..(MaxRestarts + 1), frames : 0..MaxFrames,
                  restarts : 0..MaxRestarts]
      /\ sent \subseteq HubBody
  BY DEF Shaped
<1>2. hub.frames \in 0..MaxFrames /\ hub.session \in 1..(MaxRestarts + 1)
  BY <1>1
<1>3. hub.frames \in Nat /\ hub.session \in Nat \ {0}
  BY <1>2
<1>4. Framed(w, B, sent) /\ InOrder(w, B, sent, hub.frames, hub.session)
  BY DEF InStepWith
<1> QED BY <1>1, <1>3, <1>4 DEF Stream, Framed

\* The hub has sent u, which is no frame.
LEMMA GrownInStep ==
  ASSUME Shaped, NEW w, NEW B, InStepWith(w, B), NEW u, NEW v, NEW C, Grown(w, B, u, v, C),
         Stream(v, C, sent, hub'.frames, hub'.session),
         UNCHANGED sent, hub'.frames = hub.frames, hubOut' = hubOut \o u,
         UNCHANGED host, UNCHANGED line, UNCHANGED history
  PROVE  InStep'
<1>1. Stream(w, B, sent, hub.frames, hub.session)
  BY StreamOf
<1>2. /\ Longer(w, B, v, C) /\ u \in Seq(Byte) /\ Len(v) = Len(w) + Len(u)
      /\ \A i \in 1..Len(u) : v[Len(w) + i] = u[i]
      /\ \A b \in Frames(v, C) : b <= Len(w)
  BY DEF Grown
<1>3. w \in Seq(Byte) /\ Len(w) \in Nat /\ Len(u) \in Nat /\ hub.frames \in Nat
  BY <1>1, <1>2 DEF Stream
<1>4. /\ Framed(v, C, sent) /\ InOrder(v, C, sent, hub'.frames, hub'.session)
      /\ v \in Seq(Byte) /\ C \in SUBSET (1..Len(v))
  BY DEF Stream
<1>5. Len(v) - Len(w) = Len(u)
  BY <1>2, <1>3
<1>6. /\ Len(hubOut') = Len(hubOut) + (Len(v) - Len(w))
      /\ \A i \in 1..Len(hubOut) : hubOut'[i] = hubOut[i]
      /\ \A i \in 1..(Len(v) - Len(w)) : hubOut'[Len(hubOut) + i] = v[Len(w) + i]
  <2>1. hubOut \in Seq(Byte)
    BY DEF Shaped
  <2>2. /\ Len(hubOut') = Len(hubOut) + Len(u)
        /\ \A i \in 1..Len(hubOut) : hubOut'[i] = hubOut[i]
        /\ \A i \in 1..Len(u) : hubOut'[Len(hubOut) + i] = u[i]
    BY <1>2, <2>1, Joined
  <2> QED BY <1>2, <1>5, <2>2
<1>7. \A b \in Frames(v, C) : Len(w) < b => hub.frames < Number(v, b)
  <2>1. \A b \in Frames(v, C) : b \in Nat
    BY <1>4, Fields
  <2>2. \A b \in Frames(v, C) : ~(Len(w) < b)
    BY <1>2, <1>3, <2>1
  <2> QED BY <2>2
<1>8. /\ Framed(v, C, sent') /\ InOrder(v, C, sent', hub'.frames, hub'.session)
      /\ sent \subseteq sent' /\ hub'.frames \in Nat /\ hub.frames <= hub'.frames
  BY <1>3, <1>4
<1>9. Sent(w, B, v, C)
  BY <1>2, <1>6, <1>7, <1>8 DEF Sent
<1>10. InStepWith(v, C)'
  BY <1>9, HubKeepsInStep
<1> QED BY <1>4, <1>10 DEF InStep

\* The hub restarts.
LEMMA RestartInStep ==
  ASSUME LinkAssumption, ChecksumAssumption, Shaped, InStep, HubRestart
  PROVE  InStep'
<1>1. PICK w, B : InStepWith(w, B)
  BY DEF InStep
<1>2. Stream(w, B, sent, hub.frames, hub.session)
  BY <1>1, StreamOf
<1>3. /\ hub'.session = hub.session + 1 /\ hub'.frames = hub.frames
      /\ hubOut' = hubOut \o Hello(hub.session + 1) /\ UNCHANGED <<sent, line>>
      /\ UNCHANGED host /\ UNCHANGED history
  BY DEF HubRestart, Shaped
<1>4. hub'.session \in Byte /\ hub.session <= hub'.session
  <2>1. Shaped'
    BY HubKeepsShape
  <2>2. hub'.session \in 1..(MaxRestarts + 1) /\ hub.session \in Nat
    BY <1>2, <2>1 DEF Shaped, Stream
  <2> QED BY <1>3, <2>2, Sessions
<1>5. \E v, C : /\ Stream(v, C, sent, hub.frames, hub'.session)
                /\ Grown(w, B, Hello(hub'.session), v, C)
  BY <1>2, <1>4, OneHello
<1>6. PICK v, C : /\ Stream(v, C, sent, hub.frames, hub'.session)
                  /\ Grown(w, B, Hello(hub'.session), v, C)
  BY <1>5
<1>7. hubOut' = hubOut \o Hello(hub'.session)
  BY <1>3
<1>8. Stream(v, C, sent, hub'.frames, hub'.session)
  BY <1>3, <1>6
<1> QED BY <1>1, <1>3, <1>6, <1>7, <1>8, GrownInStep

\* Three bytes one behind the other.
LEMMA Three ==
  ASSUME NEW a \in Byte, NEW b \in Byte, NEW c \in Byte
  PROVE  <<a>> \o <<b>> \o <<c>> = <<a, b, c>>
<1> DEFINE r == <<a>>
           s == <<b>>
           t == <<c>>
           all == <<a, b, c>>
<1>1. /\ r \in Seq(Byte) /\ Len(r) = 1 /\ r[1] = a
      /\ s \in Seq(Byte) /\ Len(s) = 1 /\ s[1] = b
      /\ t \in Seq(Byte) /\ Len(t) = 1 /\ t[1] = c
  OBVIOUS
<1>2. all \in Seq(Byte) /\ Len(all) = 3 /\ all[1] = a /\ all[2] = b /\ all[3] = c
  OBVIOUS
<1> HIDE DEF r, s, t, all
<1> DEFINE x == r \o s
           y == x \o t
<1>3. /\ x \in Seq(Byte) /\ Len(x) = Len(r) + Len(s)
      /\ \A i \in 1..Len(r) : x[i] = r[i]
      /\ \A i \in 1..Len(s) : x[Len(r) + i] = s[i]
  BY <1>1, Joined
<1>4. Len(x) = 2 /\ x[1] = a /\ x[2] = b
  <2>1. 1 \in 1..Len(r) /\ 1 \in 1..Len(s) /\ Len(r) + 1 = 2
    BY <1>1
  <2>2. x[1] = r[1] /\ x[Len(r) + 1] = s[1]
    BY <1>3, <2>1
  <2> QED BY <1>1, <1>3, <2>1, <2>2
<1> HIDE DEF x
<1>5. /\ y \in Seq(Byte) /\ Len(y) = Len(x) + Len(t)
      /\ \A i \in 1..Len(x) : y[i] = x[i]
      /\ \A i \in 1..Len(t) : y[Len(x) + i] = t[i]
  BY <1>1, <1>3, Joined
<1>6. Len(y) = 3 /\ y[1] = a /\ y[2] = b /\ y[3] = c
  <2>1. 1 \in 1..Len(x) /\ 2 \in 1..Len(x) /\ 1 \in 1..Len(t) /\ Len(x) + 1 = 3
    BY <1>1, <1>4
  <2>2. y[1] = x[1] /\ y[2] = x[2] /\ y[Len(x) + 1] = t[1]
    BY <1>5, <2>1
  <2> QED BY <1>1, <1>4, <1>5, <2>1, <2>2
<1> HIDE DEF y
<1>7. \A i \in 1..Len(y) : y[i] = all[i]
  <2>1. \A i \in 1..3 : y[i] = all[i]
    BY <1>2, <1>6
  <2> QED BY <1>6, <2>1
<1>8. y = all
  <2>1. y \in Seq(Byte)
    BY <1>5
  <2>2. all \in Seq(Byte)
    BY <1>2
  <2>3. Len(y) = Len(all)
    BY <1>2, <1>6
  <2> QED BY <1>7, <2>1, <2>2, <2>3, SeqEqual
<1> QED BY <1>8 DEF r, s, t, all, x, y

\* The answer to an INIT, byte by byte.
LEMMA AnswerBytes ==
  \A s : HandshakeAnswer(s) = <<INIT>> \o <<MAGIC>> \o <<FIRMWARE>> \o Hello(s)
<1>1. INIT \in Byte /\ MAGIC \in Byte /\ FIRMWARE \in Byte
  BY Bytes
<1>2. <<INIT>> \o <<MAGIC>> \o <<FIRMWARE>> = <<INIT, MAGIC, FIRMWARE>>
  BY <1>1, Three
<1> QED BY <1>2 DEF HandshakeAnswer

\* The hub answers an INIT.
LEMMA AnswerInStep ==
  ASSUME LinkAssumption, ChecksumAssumption, Shaped, InStep, HubAnswer
  PROVE  InStep'
<1>1. PICK w, B : InStepWith(w, B)
  BY DEF InStep
<1> DEFINE S == sent
           n == hub.frames
           s == hub.session
<1>2. Stream(w, B, S, n, s)
  BY <1>1, StreamOf
<1>3. /\ hubOut' = hubOut \o HandshakeAnswer(s) /\ UNCHANGED <<hub, sent, line>>
      /\ UNCHANGED host /\ UNCHANGED history
  BY DEF HubAnswer
<1>4. s \in Byte /\ s <= s
  <2>1. s \in 1..(MaxRestarts + 1)
    BY DEF Shaped
  <2> QED BY <2>1, Sessions
<1> HIDE DEF S, n, s
<1>5. \E v, C : Stream(v, C, S, n, s) /\ Grown(w, B, <<INIT>>, v, C)
  BY <1>2, OneByte
<1>6. PICK w1, B1 : Stream(w1, B1, S, n, s) /\ Grown(w, B, <<INIT>>, w1, B1)
  BY <1>5
<1>7. \E v, C : Stream(v, C, S, n, s) /\ Grown(w1, B1, <<MAGIC>>, v, C)
  BY <1>6, OneByte
<1>8. PICK w2, B2 : Stream(w2, B2, S, n, s) /\ Grown(w1, B1, <<MAGIC>>, w2, B2)
  BY <1>7
<1>9. \E v, C : Stream(v, C, S, n, s) /\ Grown(w2, B2, <<FIRMWARE>>, v, C)
  BY <1>8, OneByte
<1>10. PICK w3, B3 : Stream(w3, B3, S, n, s) /\ Grown(w2, B2, <<FIRMWARE>>, w3, B3)
  BY <1>9
<1>11. \E v, C : Stream(v, C, S, n, s) /\ Grown(w3, B3, Hello(s), v, C)
  BY <1>4, <1>10, OneHello
<1>12. PICK w4, B4 : Stream(w4, B4, S, n, s) /\ Grown(w3, B3, Hello(s), w4, B4)
  BY <1>11
<1>13. Grown(w, B, <<INIT>> \o <<MAGIC>>, w2, B2)
  BY <1>2, <1>6, <1>8, GrownTwice
<1>14. Grown(w, B, <<INIT>> \o <<MAGIC>> \o <<FIRMWARE>>, w3, B3)
  BY <1>2, <1>8, <1>10, <1>13, GrownTwice
<1>15. Grown(w, B, <<INIT>> \o <<MAGIC>> \o <<FIRMWARE>> \o Hello(s), w4, B4)
  BY <1>2, <1>10, <1>12, <1>14, GrownTwice
<1>16. Grown(w, B, HandshakeAnswer(s), w4, B4)
  <2> DEFINE answer == <<INIT>> \o <<MAGIC>> \o <<FIRMWARE>> \o Hello(s)
  <2>1. HandshakeAnswer(s) = answer
    BY AnswerBytes
  <2>2. Grown(w, B, answer, w4, B4)
    BY <1>15
  <2> HIDE DEF answer
  <2> QED BY <2>1, <2>2
<1>17. Stream(w4, B4, sent, hub'.frames, hub'.session) /\ hub'.frames = hub.frames
  BY <1>3, <1>12 DEF S, n, s
<1> QED BY <1>1, <1>3, <1>16, <1>17, GrownInStep

\* The hub sends a frame.
LEMMA SendInStep ==
  ASSUME LinkAssumption, ChecksumAssumption, Shaped, InStep, HubSend
  PROVE  InStep'
<1>1. PICK w, B : InStepWith(w, B)
  BY DEF InStep
<1>2. Stream(w, B, sent, hub.frames, hub.session)
  BY <1>1, StreamOf
<1>3. /\ hub.frames < MaxFrames /\ UNCHANGED host /\ UNCHANGED line /\ UNCHANGED history
      /\ hub' = [hub EXCEPT !.frames = @ + 1]
  BY DEF HubSend
<1>4. /\ hub \in [session : 1..(MaxRestarts + 1), frames : 0..MaxFrames,
                  restarts : 0..MaxRestarts]
      /\ sent \subseteq HubBody /\ hubOut \in Seq(Byte)
  BY DEF Shaped
<1>5. hub'.frames = hub.frames + 1 /\ hub'.session = hub.session
  BY <1>3, <1>4
<1>6. /\ hub.frames \in Nat /\ hub.frames + 1 \in 1..MaxFrames
      /\ hub.session \in 1..(MaxRestarts + 1)
  <2>1. hub.frames \in 0..MaxFrames /\ hub.session \in 1..(MaxRestarts + 1)
    BY <1>4
  <2>2. MaxFrames \in Nat
    BY Bytes, LinkAssumption DEF LinkAssumption
  <2> QED BY <1>3, <2>1, <2>2
<1>7. PICK byte \in Payload : StatusSent(byte)
  BY Sending
<1> DEFINE body == Status(hub.frames + 1, hub.session, byte)
           u == V2Frame(body)
<1>8. body[5] = hub.frames + 1 /\ body[6] = hub.session
  BY <1>6, StatusBytes, SMTT(30)
<1>9. body \in HubBody
  BY <1>6 DEF HubBody
<1>10. sent' = sent \cup {body} /\ hubOut' = hubOut \o u
  BY <1>7 DEF StatusSent
<1> HIDE DEF body
<1>11. u \in Seq(Byte) /\ Len(u) \in Nat
  BY <1>9, FrameBytes
<1>12. \E v, C : /\ Framed(v, C, sent')
                 /\ InOrder(v, C, sent', hub.frames + 1, hub.session)
                 /\ Longer(w, B, v, C) /\ Len(v) = Len(w) + Len(u)
                 /\ \A i \in 1..Len(u) : v[Len(w) + i] = u[i]
                 /\ \A b \in Frames(v, C) : Len(w) < b => Number(v, b) = hub.frames + 1
  <2>1. Framed(w, B, sent)
    BY <1>2 DEF Stream
  <2>2. sent \subseteq sent' /\ sent' \subseteq HubBody /\ body \in sent'
    BY <1>4, <1>9, <1>10
  <2>3. Whole(u, sent')
    BY <2>2 DEF Whole
  <2>4. NextBody(body, sent, sent', hub.frames, hub.session)
    BY <1>8, <1>9, <1>10 DEF NextBody
  <2>5. u = V2Frame(body)
    OBVIOUS
  <2> DEFINE v == w \o u
             C == B \cup {Len(w) + 1}
  <2> HIDE DEF u
  <2>6. Appended(w, B, sent, u, v, C, sent')
    BY <1>11, <2>1, <2>2, <2>3 DEF Appended
  <2> HIDE DEF v, C
  <2>7. /\ Framed(v, C, sent')
        /\ InOrder(v, C, sent', hub.frames + 1, hub.session)
        /\ Longer(w, B, v, C) /\ Len(v) = Len(w) + Len(u)
        /\ \A i \in 1..Len(u) : v[Len(w) + i] = u[i]
        /\ \A b \in Frames(v, C) : Len(w) < b => Number(v, b) = hub.frames + 1
    BY <1>2, <2>4, <2>5, <2>6, NextFrame
  <2> QED BY <2>7
<1> HIDE DEF u
<1>13. PICK v, C : /\ Framed(v, C, sent')
                   /\ InOrder(v, C, sent', hub.frames + 1, hub.session)
                   /\ Longer(w, B, v, C) /\ Len(v) = Len(w) + Len(u)
                   /\ \A i \in 1..Len(u) : v[Len(w) + i] = u[i]
                   /\ \A b \in Frames(v, C) : Len(w) < b => Number(v, b) = hub.frames + 1
  BY <1>12
<1>14. Len(v) - Len(w) = Len(u)
  <2>1. Len(w) \in Nat
    BY <1>2 DEF Stream
  <2> QED BY <1>11, <1>13, <2>1
<1>15. /\ Len(hubOut') = Len(hubOut) + (Len(v) - Len(w))
       /\ \A i \in 1..Len(hubOut) : hubOut'[i] = hubOut[i]
       /\ \A i \in 1..(Len(v) - Len(w)) : hubOut'[Len(hubOut) + i] = v[Len(w) + i]
  <2>1. /\ Len(hubOut') = Len(hubOut) + Len(u)
        /\ \A i \in 1..Len(hubOut) : hubOut'[i] = hubOut[i]
        /\ \A i \in 1..Len(u) : hubOut'[Len(hubOut) + i] = u[i]
    BY <1>4, <1>10, <1>11, Joined
  <2> QED BY <1>13, <1>14, <2>1
<1>16. \A b \in Frames(v, C) : Len(w) < b => hub.frames < Number(v, b)
  BY <1>6, <1>13
<1>17. /\ Framed(v, C, sent') /\ InOrder(v, C, sent', hub'.frames, hub'.session)
       /\ sent \subseteq sent' /\ hub'.frames \in Nat /\ hub.frames <= hub'.frames
  BY <1>5, <1>6, <1>10, <1>13
<1>18. Sent(w, B, v, C)
  BY <1>3, <1>13, <1>15, <1>16, <1>17 DEF Sent
<1>19. InStepWith(v, C)'
  BY <1>1, <1>18, HubKeepsInStep
<1>20. v \in Seq(Byte) /\ C \in SUBSET (1..Len(v))
  BY <1>13 DEF Framed
<1> QED BY <1>19, <1>20 DEF InStep

\* Bytes arrive undamaged: what has not been read stays what the hub sent last.
LEMMA ArrivalFlows ==
  ASSUME Shaped, NEW w \in Seq(Byte), Flows(w), Arrive, UNCHANGED damage
  PROVE  Flows(w)' /\ Pos(w)' = Pos(w)
<1>1. /\ Pos(w) \in Nat /\ Len(line) \in Nat /\ Len(hubOut) \in Nat /\ Len(w) \in Nat
      /\ Len(w) = Pos(w) + Len(line) + Len(hubOut)
  BY Position
<1>2. line \in Seq(Byte) /\ hubOut \in Seq(Byte) /\ damage \in Nat
  BY DEF Shaped
<1>3. PICK n \in Nat : /\ n <= Len(hubOut) /\ line' = line \o SubSeq(hubOut, 1, n)
                       /\ hubOut' = SubSeq(hubOut, n + 1, Len(hubOut))
  <2>1. PICK n \in Chunk \cup {Len(hubOut)} :
          /\ n <= Len(hubOut)
          /\ \/ line' = line \o SubSeq(hubOut, 1, n)
             \/ damage' = damage + 1
          /\ hubOut' = SubSeq(hubOut, n + 1, Len(hubOut))
    BY DEF Arrive
  <2>2. n \in Nat
    BY <1>1, LinkAssumption DEF LinkAssumption
  <2>3. damage' # damage + 1
    BY <1>2
  <2> QED BY <2>1, <2>2, <2>3
<1>14. n \in Nat /\ n <= Len(hubOut)
  BY <1>3
<1> DEFINE bytes == SubSeq(hubOut, 1, n)
           rest == SubSeq(hubOut, n + 1, Len(hubOut))
<1>4. \A i \in 1..Len(hubOut) : hubOut[i] \in Byte
  BY <1>2, ElementOfSeq
<1>5. bytes \in Seq(Byte) /\ Len(bytes) = n /\ \A i \in 1..n : bytes[i] = hubOut[i]
  <2>1. \A i \in 1..n : hubOut[i] \in Byte
    BY <1>1, <1>3, <1>4
  <2>2. /\ bytes \in Seq(Byte) /\ Len(bytes) = IF 1 <= n THEN n - 1 + 1 ELSE 0
        /\ \A i \in 1..(n - 1 + 1) : bytes[i] = hubOut[1 + i - 1]
    BY <1>3, <2>1, SubSeqProperties
  <2> HIDE DEF bytes
  <2>3. Len(bytes) = n
    BY <1>3, <2>2
  <2>4. \A i \in 1..n : bytes[i] = hubOut[i]
    BY <1>3, <2>2
  <2> QED BY <2>2, <2>3, <2>4
<1>6. /\ rest \in Seq(Byte) /\ Len(rest) = Len(hubOut) - n
      /\ \A i \in 1..(Len(hubOut) - n) : rest[i] = hubOut[n + i]
  <2>1. \A i \in (n + 1)..Len(hubOut) : hubOut[i] \in Byte
    BY <1>1, <1>3, <1>4
  <2>2. /\ rest \in Seq(Byte)
        /\ Len(rest) = IF n + 1 <= Len(hubOut) THEN Len(hubOut) - (n + 1) + 1 ELSE 0
        /\ \A i \in 1..(Len(hubOut) - (n + 1) + 1) : rest[i] = hubOut[n + 1 + i - 1]
    BY <1>1, <1>3, <2>1, SubSeqProperties
  <2> HIDE DEF rest
  <2>3. Len(rest) = Len(hubOut) - n
    BY <1>1, <1>3, <2>2
  <2>4. \A i \in 1..(Len(hubOut) - n) : rest[i] = hubOut[n + i]
    <3> SUFFICES ASSUME NEW i \in 1..(Len(hubOut) - n) PROVE rest[i] = hubOut[n + i]
      OBVIOUS
    <3>1. i \in 1..(Len(hubOut) - (n + 1) + 1) /\ n + 1 + i - 1 = n + i
      BY <1>1, <1>3
    <3> QED BY <2>2, <3>1
  <2> QED BY <2>2, <2>3, <2>4
<1>7. line' = line \o bytes /\ hubOut' = rest
  BY <1>3
<1> HIDE DEF bytes, rest
<1>8. /\ Len(line') = Len(line) + Len(bytes)
      /\ \A i \in 1..Len(line) : line'[i] = line[i]
      /\ \A i \in 1..Len(bytes) : line'[Len(line) + i] = bytes[i]
  BY <1>2, <1>5, <1>7, Joined
<1>9. Len(line') = Len(line) + n /\ Len(hubOut') = Len(hubOut) - n
  BY <1>5, <1>6, <1>7, <1>8
<1>10. Pos(w)' = Pos(w)
  <2>1. Pos(w)' = Len(w) - Len(line') - Len(hubOut')
    BY DEF Pos
  <2>2. Len(w) - (Len(line) + n) - (Len(hubOut) - n) = Pos(w)
    BY <1>1, <1>14
  <2> QED BY <1>9, <2>1, <2>2
<1>11. /\ \A i \in 1..Len(line) : line[i] = w[Pos(w) + i]
       /\ \A i \in 1..Len(hubOut) : hubOut[i] = w[Pos(w) + Len(line) + i]
  BY DEF Flows
<1>12. ASSUME NEW i \in 1..Len(line') PROVE line'[i] = w[Pos(w) + i]
  <2>1. CASE i <= Len(line)
    <3>1. i \in 1..Len(line)
      BY <1>1, <1>3, <1>9, <2>1
    <3> QED BY <1>8, <1>11, <3>1
  <2>2. CASE ~(i <= Len(line))
    <3>1. PICK j \in 1..n : i = Len(line) + j
      <4>1. i - Len(line) \in 1..n /\ i = Len(line) + (i - Len(line))
        BY <1>1, <1>3, <1>9, <2>2
      <4> QED BY <4>1
    <3>2. j \in 1..Len(hubOut) /\ Pos(w) + Len(line) + j = Pos(w) + i
      BY <1>1, <1>14, <3>1
    <3>3. line'[i] = hubOut[j]
      BY <1>5, <1>8, <3>1
    <3> QED BY <1>11, <3>2, <3>3
  <2> QED BY <2>1, <2>2
<1>13. ASSUME NEW i \in 1..Len(hubOut') PROVE hubOut'[i] = w[Pos(w) + Len(line') + i]
  <2>1. i \in 1..(Len(hubOut) - n) /\ n + i \in 1..Len(hubOut)
    BY <1>1, <1>14, <1>9
  <2>2. Pos(w) + Len(line) + (n + i) = Pos(w) + Len(line') + i
    <3>1. Pos(w) + Len(line) + (n + i) = Pos(w) + (Len(line) + n) + i
      BY <1>1, <1>14, <2>1
    <3> QED BY <1>9, <3>1
  <2>3. hubOut'[i] = hubOut[n + i]
    BY <1>6, <1>7, <2>1
  <2> QED BY <1>11, <2>1, <2>2, <2>3
<1> QED BY <1>1, <1>10, <1>12, <1>13 DEF Flows

\* The thread is then still in step.
LEMMA ArriveInStep ==
  ASSUME Shaped, InStep, Arrive, UNCHANGED damage
  PROVE  InStep'
<1>1. PICK w, B : w \in Seq(Byte) /\ B \in SUBSET (1..Len(w)) /\ InStepWith(w, B)
  BY Units
<1>2. /\ Framed(w, B, sent) /\ InOrder(w, B, sent, hub.frames, hub.session)
      /\ Flows(w) /\ Placed(w, B) /\ (phase \in Receiving => CaughtUp(w, B))
  BY <1>1 DEF InStepWith
<1>3. Flows(w)' /\ Pos(w)' = Pos(w)
  BY <1>1, <1>2, ArrivalFlows
<1>4. UNCHANGED <<phase, header, fgSessionId, fgLinkStats, hub, sent>>
      /\ UNCHANGED <<delivered, first, reads>>
  BY DEF Arrive, host, history
<1>5. BytesRead' = BytesRead
  BY <1>4 DEF BytesRead
<1>6. Begin(w)' = Begin(w)
  BY <1>3, <1>5 DEF Begin
<1>7. Placed(w, B)'
  BY <1>2, <1>3, <1>4, <1>6 DEF Placed
<1>8. CaughtUp(w, B) => CaughtUp(w, B)'
  BY <1>4, <1>6 DEF CaughtUp, Processed, Counted
<1>9. InStepWith(w, B)'
  BY <1>2, <1>3, <1>4, <1>7, <1>8 DEF InStepWith
<1> QED BY <1>1, <1>9 DEF InStep

-----------------------------------------------------------------------------
(* The thread reads. *)

\* What it reads is what follows its place in the stream.
LEMMA ThreadFlows ==
  ASSUME Shaped, NEW w \in Seq(Byte), Flows(w), NEW k \in 0..Len(line), line' = Drop(k),
         UNCHANGED hubOut
  PROVE  /\ Flows(w)' /\ Pos(w)' = Pos(w) + k /\ Pos(w) \in Nat /\ Pos(w) + k <= Len(w)
         /\ \A i \in 1..k : Got(k)[i] = w[Pos(w) + i]
         /\ \A i \in 1..Len(line) : line[i] = w[Pos(w) + i]
<1>1. /\ Pos(w) \in Nat /\ Len(line) \in Nat /\ Len(hubOut) \in Nat /\ Len(w) \in Nat
      /\ Len(w) = Pos(w) + Len(line) + Len(hubOut)
  BY Position
<1>2. /\ Len(line') = Len(line) - k /\ \A i \in 1..(Len(line) - k) : line'[i] = line[k + i]
      /\ \A i \in 1..k : Got(k)[i] = line[i]
  BY Reading DEF Shaped
<1>3. /\ \A i \in 1..Len(line) : line[i] = w[Pos(w) + i]
      /\ \A i \in 1..Len(hubOut) : hubOut[i] = w[Pos(w) + Len(line) + i]
  BY DEF Flows
<1>4. Pos(w)' = Pos(w) + k
  <2>1. Pos(w)' = Len(w) - Len(line') - Len(hubOut)
    BY DEF Pos
  <2>2. Len(w) - (Len(line) - k) - Len(hubOut) = Pos(w) + k
    BY <1>1
  <2> QED BY <1>2, <2>1, <2>2
<1>5. \A i \in 1..Len(line') : line'[i] = w[Pos(w) + k + i]
  <2> SUFFICES ASSUME NEW i \in 1..Len(line') PROVE line'[i] = w[Pos(w) + k + i]
    OBVIOUS
  <2>1. i \in 1..(Len(line) - k)
    BY <1>2
  <2>2. k + i \in 1..Len(line) /\ Pos(w) + (k + i) = Pos(w) + k + i
    BY <1>1, <2>1
  <2> QED BY <1>2, <1>3, <2>1, <2>2
<1>6. \A i \in 1..Len(hubOut) : hubOut[i] = w[Pos(w) + k + Len(line') + i]
  <2>1. Pos(w) + k + (Len(line) - k) = Pos(w) + Len(line)
    BY <1>1
  <2>2. Pos(w) + k + Len(line') = Pos(w) + Len(line)
    BY <1>2, <2>1
  <2> QED BY <1>3, <2>2
<1>7. Pos(w) + k \in Nat /\ Pos(w) + k <= Len(w)
  BY <1>1
<1>8. Flows(w)'
  BY <1>4, <1>5, <1>6, <1>7 DEF Flows
<1>9. \A i \in 1..k : Got(k)[i] = w[Pos(w) + i]
  <2>1. \A i \in 1..k : i \in 1..Len(line)
    BY <1>1
  <2> QED BY <1>2, <1>3, <2>1
<1> QED BY <1>1, <1>3, <1>4, <1>7, <1>8, <1>9

\* Before it looks for a HELLO the thread may be anywhere.
LEMMA Anywhere ==
  ASSUME NEW w, NEW B, phase \in {"init", "scan", "magic", "version", "hello", "failed"}
  PROVE  Placed(w, B)
BY DEF Placed

\* The thread finds the start byte of a legacy frame.
LEMMA ScanHelloPlaced ==
  ASSUME Shaped, NEW w \in Seq(Byte), NEW B, Flows(w), ScanHello
  PROVE  Placed(w, B)'
<1>1. line \in Seq(Byte) /\ Len(line) \in Nat
  BY DEF Shaped
<1>2. phase = "hello" /\ Scan(START, "hello_header")
  BY DEF ScanHello
<1>3. \/ phase' = "hello"
      \/ phase' = "hello_header" /\ UNCHANGED hubOut
           /\ \E at \in 1..Len(line) : line[at] = START /\ line' = Drop(at)
  BY <1>2 DEF Scan, Waiting, host, world
<1>4. CASE phase' = "hello"
  BY <1>4 DEF Placed
<1>5. ASSUME phase' = "hello_header", UNCHANGED hubOut,
             NEW at \in 1..Len(line), line[at] = START, line' = Drop(at)
      PROVE  Placed(w, B)'
  <2>1. at \in 0..Len(line)
    BY <1>1
  <2>2. /\ Pos(w)' = Pos(w) + at /\ Pos(w) \in Nat
        /\ \A i \in 1..Len(line) : line[i] = w[Pos(w) + i]
    BY <1>5, <2>1, ThreadFlows
  <2>3. Pos(w)' >= 1 /\ w[Pos(w)'] = START
    BY <1>5, <2>2
  <2> QED BY <1>5, <2>3 DEF Placed
<1> QED BY <1>3, <1>4, <1>5

\* It is followed by the header of a HELLO, or init fails.
LEMMA HelloHeaderPlaced ==
  ASSUME Shaped, NEW w \in Seq(Byte), NEW B, Flows(w), Placed(w, B), ReadHelloHeader
  PROVE  Placed(w, B)'
<1>1. /\ phase = "hello_header" /\ 3 \in 0..Len(line) /\ line' = Drop(3) /\ UNCHANGED hubOut
      /\ phase' = IF Got(3) = <<LINK_HELLO, HELLO_SIZE, PORT_NONE>> THEN "hello_payload"
                  ELSE "failed"
  <2>1. line \in Seq(Byte) /\ 3 \in Nat
    BY DEF Shaped
  <2> QED BY <2>1, ReadTakes DEF ReadHelloHeader, Waiting, world
<1>2. CASE phase' = "failed"
  BY <1>2 DEF Placed
<1>3. CASE Got(3) = <<LINK_HELLO, HELLO_SIZE, PORT_NONE>>
  <2> DEFINE l == 3
  <2>1. l \in 0..Len(line) /\ line' = Drop(l) /\ l = 3
    BY <1>1
  <2> HIDE DEF l
  <2>2. /\ Pos(w)' = Pos(w) + l /\ Pos(w) \in Nat
        /\ \A i \in 1..l : Got(l)[i] = w[Pos(w) + i]
    BY <1>1, <2>1, ThreadFlows
  <2>3. 1 \in 1..l /\ 2 \in 1..l /\ 3 \in 1..l
    BY <2>1
  <2>4. /\ Got(3)[1] = w[Pos(w) + 1] /\ Got(3)[2] = w[Pos(w) + 2]
        /\ Got(3)[3] = w[Pos(w) + 3]
    BY <2>1, <2>2, <2>3
  <2>5. w[Pos(w) + 1] = LINK_HELLO /\ w[Pos(w) + 2] = HELLO_SIZE /\ w[Pos(w) + 3] = PORT_NONE
    BY <1>3, <2>4
  <2>6. Pos(w) >= 1 /\ w[Pos(w)] = START
    BY <1>1 DEF Placed
  <2>7. /\ Pos(w)' >= 4 /\ Pos(w)' - 3 = Pos(w) /\ Pos(w)' - 2 = Pos(w) + 1
        /\ Pos(w)' - 1 = Pos(w) + 2 /\ Pos(w)' = Pos(w) + 3
    BY <2>1, <2>2, <2>6
  <2>8. phase' = "hello_payload"
    BY <1>1, <1>3
  <2> QED BY <2>5, <2>6, <2>7, <2>8 DEF Placed
<1> QED BY <1>1, <1>2, <1>3

\* In a HELLO no other begins.
LEMMA HelloEnds ==
  ASSUME NEW w, NEW B, NEW S, Framed(w, B, S), NEW h \in Hellos(w, B)
  PROVE  /\ \A g \in Hellos(w, B) : g < h + 6 => g <= h
         /\ h + 6 \in B \/ h + 6 = Len(w) + 1
<1>1. h \in B /\ Size(w[h]) = 6 /\ h \in Nat
  BY HelloAt
<1>2. ASSUME NEW g \in Hellos(w, B), g < h + 6 PROVE g <= h
  <2>1. g \in B /\ g \in Nat
    BY HelloAt
  <2>2. h < g => h + Size(w[h]) <= g
    BY <1>1, <2>1 DEF Framed
  <2> QED BY <1>1, <1>2, <2>1, <2>2
<1>3. h + Size(w[h]) \in B \/ h + Size(w[h]) = Len(w) + 1
  BY <1>1, Boundary
<1> QED BY <1>1, <1>2, <1>3

\* The payload that ends the handshake is that of a HELLO of the hub: behind it the thread
\* is in step.
LEMMA HelloPayloadInStep ==
  ASSUME LinkAssumption, ChecksumAssumption, LookalikeAssumption, Shaped, Tallied,
         NEW w \in Seq(Byte), NEW B, InStepWith(w, B), ReadHelloPayload, phase' = "start"
  PROVE  Placed(w, B)' /\ CaughtUp(w, B)'
<1>1. /\ Framed(w, B, sent) /\ InOrder(w, B, sent, hub.frames, hub.session)
      /\ Flows(w) /\ Placed(w, B)
  BY DEF InStepWith
<1> DEFINE l == 2
<1>2. /\ phase = "hello_payload" /\ l \in 0..Len(line) /\ line' = Drop(l)
      /\ UNCHANGED <<hubOut, hub, sent, header, fgLinkStats, delivered, reads>>
      /\ first' = hub.frames + 1
      /\ Got(l)[1] = V2_VERSION /\ fgSessionId' = Got(l)[2]
  <2>1. line \in Seq(Byte) /\ 2 \in Nat
    BY DEF Shaped
  <2>2. Got(2)[1] = V2_VERSION /\ fgSessionId' = Got(2)[2]
    BY DEF ReadHelloPayload
  <2> QED BY <2>1, <2>2, ReadTakes DEF ReadHelloPayload, world
<1>3. l \in Nat /\ l = 2 /\ 1 \in 1..l /\ 2 \in 1..l
  OBVIOUS
<1> HIDE DEF l
<1>4. /\ Pos(w)' = Pos(w) + l /\ Pos(w) \in Nat /\ Pos(w) + l <= Len(w)
      /\ \A i \in 1..l : Got(l)[i] = w[Pos(w) + i]
  BY <1>1, <1>2, ThreadFlows
<1>5. w[Pos(w) + 1] = V2_VERSION /\ fgSessionId' = w[Pos(w) + 2]
  BY <1>2, <1>3, <1>4
<1>6. /\ Pos(w) >= 4 /\ w[Pos(w) - 3] = START /\ w[Pos(w) - 2] = LINK_HELLO
      /\ w[Pos(w) - 1] = HELLO_SIZE /\ w[Pos(w)] = PORT_NONE
  BY <1>1, <1>2 DEF Placed
<1>7. PICK k \in Nat : k = Pos(w) - 3 /\ 1 <= k
  BY <1>4, <1>6
<1>8. /\ Pos(w) - 2 = k + 1 /\ Pos(w) - 1 = k + 2 /\ Pos(w) = k + 3
      /\ Pos(w) + 1 = k + 4 /\ Pos(w) + 2 = k + 5
  BY <1>4, <1>7
<1>9. IsHello(w, k) /\ fgSessionId' = w[k + 5]
  <2>1. w[k] = START /\ w[k + 1] = LINK_HELLO
    <3>1. w[k] = START
      BY <1>6, <1>7
    <3>2. w[k + 1] = LINK_HELLO
      BY <1>6, <1>8
    <3> QED BY <3>1, <3>2
  <2>2. w[k + 2] = HELLO_SIZE /\ w[k + 3] = PORT_NONE
    BY <1>6, <1>8
  <2>3. w[k + 4] = V2_VERSION /\ fgSessionId' = w[k + 5]
    BY <1>5, <1>8
  <2> QED BY <2>1, <2>2, <2>3 DEF IsHello
<1>10. k \in Hellos(w, B)
  <2>1. k + 4 <= Len(w)
    <3>1. Len(w) \in Nat /\ Pos(w) + 2 <= Len(w)
      BY <1>3, <1>4
    <3> QED BY <1>4, <1>7, <3>1
  <2>2. sent \in SUBSET HubBody
    BY DEF Shaped
  <2> QED BY <1>1, <1>7, <1>9, <2>1, <2>2, Lookalike
<1>11. Begin(w)' = k + 6
  <2>1. BytesRead' = 0
    BY DEF BytesRead
  <2>2. Begin(w)' = Pos(w)' + 1 - BytesRead'
    BY DEF Begin
  <2>3. Pos(w)' = k + 5
    BY <1>3, <1>4, <1>8
  <2> QED BY <1>7, <2>1, <2>2, <2>3
<1>12. /\ \A g \in Hellos(w, B) : g < k + 6 => g <= k
       /\ k + 6 \in B \/ k + 6 = Len(w) + 1
  BY <1>1, <1>10, HelloEnds
<1>13. Placed(w, B)'
  BY <1>11, <1>12 DEF Placed
<1>14. delivered' = <<>>
  BY <1>2 DEF Shaped, Receiving, Busy
<1>15. \A b \in Frames(w, B) : ~(Number(w, b) >= first')
  <2>1. \A b \in Frames(w, B) : Number(w, b) <= hub.frames
    BY <1>1 DEF InOrder
  <2>2. \A b \in Frames(w, B) : Number(w, b) \in Nat
    BY <1>1, Fields
  <2>3. hub.frames \in Nat
    BY DEF Shaped
  <2> QED BY <1>2, <2>1, <2>2, <2>3
<1>16. PICK e \in Nat : e = k + 6
  BY <1>7
<1>17. \E h \in Hellos(w, B) :
         /\ h < e /\ Announced(w, h) = fgSessionId'
         /\ \A g \in Hellos(w, B) : g < e => g <= h
  <2>1. k < e /\ Announced(w, k) = fgSessionId'
    BY <1>7, <1>9, <1>16 DEF Announced
  <2> QED BY <1>10, <1>12, <1>16, <2>1
<1>18. Begin(w)' = e
  BY <1>11, <1>16
<1>19. Processed(w, B, e)'
  <2>1. Len(delivered') = 0 /\ 1..0 = {}
    BY <1>14
  <2>2. 1..Len(delivered') = {}
    BY <2>1
  <2> QED BY <1>15, <1>17, <2>2 DEF Processed
<1>20. Counted' = reads'
  <2>1. Counted = reads
    BY <1>2 DEF Tallied, Receiving, Busy
  <2> QED BY <1>2, <2>1 DEF Counted
<1> QED BY <1>13, <1>18, <1>19, <1>20 DEF CaughtUp

\* The handshake keeps the thread in the stream, and ends in step.
LEMMA HandshakeInStep ==
  ASSUME LinkAssumption, ChecksumAssumption, LookalikeAssumption, Shaped, Tallied,
         InStep, Handshake
  PROVE  InStep'
<1>1. PICK w, B : w \in Seq(Byte) /\ B \in SUBSET (1..Len(w)) /\ InStepWith(w, B)
  BY Units
<1>2. /\ Framed(w, B, sent) /\ InOrder(w, B, sent, hub.frames, hub.session)
      /\ Flows(w) /\ Placed(w, B)
  BY <1>1 DEF InStepWith
<1>3. UNCHANGED <<hub, hubOut, sent>>
  BY ThreadLeaves
<1>4. Flows(w)'
  <2>1. line \in Seq(Byte)
    BY DEF Shaped
  <2>2. PICK k \in 0..Len(line) : line' = Drop(k)
    BY <2>1, HandshakeTakes
  <2> QED BY <1>1, <1>2, <1>3, <2>2, ThreadFlows
<1>5. phase' \notin Receiving => Placed(w, B)'
  <2>1. CASE ScanHello
    BY <1>1, <1>2, <2>1, ScanHelloPlaced
  <2>2. CASE ReadHelloHeader
    BY <1>1, <1>2, <2>2, HelloHeaderPlaced
  <2>3. ASSUME phase' \in {"init", "scan", "magic", "version", "hello", "failed"}
        PROVE  Placed(w, B)'
    BY <2>3 DEF Placed
  <2>4. CASE BeginAttempt
    BY <2>3, <2>4 DEF BeginAttempt
  <2>5. CASE ScanInit
    <3>1. phase = "scan" /\ Scan(INIT, "magic")
      BY <2>5 DEF ScanInit
    <3>2. phase' \in {"scan", "magic"}
      BY <3>1 DEF Scan, Waiting, host
    <3> QED BY <2>3, <3>2
  <2>6. CASE ReadMagic \/ ReadVersion \/ HandshakeTimesOut
    <3>1. phase' \in {"init", "version", "hello", "failed"}
      BY <2>6 DEF ReadMagic, ReadVersion, HandshakeTimesOut, Waiting, Retry
    <3> QED BY <2>3, <3>1
  <2>7. CASE ReadHelloPayload
    <3>1. phase' \in {"start", "failed"}
      BY <2>7 DEF ReadHelloPayload
    <3> QED BY <2>3, <3>1 DEF Receiving
  <2> QED BY <2>1, <2>2, <2>4, <2>5, <2>6, <2>7 DEF Handshake
<1>6. phase' \in Receiving => Placed(w, B)' /\ CaughtUp(w, B)'
  <2> SUFFICES ASSUME phase' \in Receiving PROVE Placed(w, B)' /\ CaughtUp(w, B)'
    OBVIOUS
  <2>1. attempt \in Nat
    BY LinkAssumption DEF Shaped, LinkAssumption
  <2>2. phase' \in Handshaking \cup {"start"} /\ (phase' # "start" \/ ReadHelloPayload)
    BY <2>1, HandshakeLeads DEF Handshaking
  <2>3. phase' = "start"
    BY <2>2 DEF Receiving, Busy, Handshaking
  <2> QED BY <1>1, <2>2, <2>3, HelloPayloadInStep
<1>7. InStepWith(w, B)'
  BY <1>2, <1>3, <1>4, <1>5, <1>6 DEF InStepWith
<1> QED BY <1>1, <1>7 DEF InStep

\* What passing the unit at e does: a HELLO is taken over, a frame is processed.
Passed(w, e) ==
  \/ w[e] \notin {START, V2_START} /\ UNCHANGED <<fgSessionId, delivered>>
  \/ w[e] = START /\ fgSessionId' = Announced(w, e) /\ UNCHANGED delivered
  \/ w[e] = V2_START /\ UNCHANGED fgSessionId /\ delivered' = Append(delivered, Body(w, e))

\* Between a unit and its end no other begins.
LEMMA Ends ==
  ASSUME NEW w, NEW B, NEW S, Framed(w, B, S), NEW e \in B
  PROVE  /\ \A b \in B : b < e + Size(w[e]) => b = e \/ b < e
         /\ \A b \in B : b >= e + Size(w[e]) => b > e
         /\ B \subseteq Nat /\ Size(w[e]) \in Nat /\ Size(w[e]) >= 1
<1>1. B \subseteq Nat /\ Size(w[e]) \in Nat /\ Size(w[e]) >= 1
  <2>1. \A b \in B : b \in Nat
    BY FirstByte
  <2>2. Size(w[e]) \in {1, 6, 10}
    BY FirstByte
  <2> QED BY <2>1, <2>2
<1>2. ASSUME NEW b \in B, b < e + Size(w[e]) PROVE b = e \/ b < e
  <2>1. e < b => e + Size(w[e]) <= b
    BY DEF Framed
  <2> QED BY <1>1, <1>2, <2>1
<1>3. \A b \in B : b >= e + Size(w[e]) => b > e
  BY <1>1
<1> QED BY <1>1, <1>2, <1>3

\* A frame is in the session of the last HELLO before it.
LEMMA FrameSession ==
  ASSUME NEW w, NEW B, NEW S, NEW n, NEW s, Framed(w, B, S), InOrder(w, B, S, n, s),
         NEW e \in Frames(w, B), Processed(w, B, e)
  PROVE  SessionOf(w, e) = fgSessionId
<1>1. PICK h \in Hellos(w, B) : /\ h < e /\ Announced(w, h) = fgSessionId
                                /\ \A g \in Hellos(w, B) : g < e => g <= h
  BY DEF Processed
<1>2. Announced(w, h) <= SessionOf(w, e)
  BY <1>1 DEF InOrder
<1>3. ~(Announced(w, h) < SessionOf(w, e))
  <2> SUFFICES ASSUME Announced(w, h) < SessionOf(w, e) PROVE FALSE
    OBVIOUS
  <2>1. PICK g \in Hellos(w, B) : h < g /\ g < e
    BY <1>1 DEF InOrder
  <2>2. g \in Nat /\ h \in Nat
    BY Fields
  <2> QED BY <1>1, <2>1, <2>2
<1>4. Announced(w, h) \in Nat /\ SessionOf(w, e) \in Nat
  BY Fields
<1> QED BY <1>1, <1>2, <1>3, <1>4

\* Behind a unit that has been passed the thread is in step again.
LEMMA Passing ==
  ASSUME Shaped, NEW w, NEW B, Framed(w, B, sent),
         InOrder(w, B, sent, hub.frames, hub.session),
         NEW e \in B, Processed(w, B, e), Passed(w, e), UNCHANGED <<first, hub, sent>>
  PROVE  Processed(w, B, e + Size(w[e]))'
<1>1. /\ \A b \in B : b < e + Size(w[e]) => b = e \/ b < e
      /\ \A b \in B : b >= e + Size(w[e]) => b > e
      /\ B \subseteq Nat /\ Size(w[e]) \in Nat /\ Size(w[e]) >= 1
  BY Ends
<1>2. PICK t \in Nat : t = e + Size(w[e]) /\ e < t
  BY <1>1
<1>3. /\ \E h \in Hellos(w, B) :
           /\ h < e /\ Announced(w, h) = fgSessionId
           /\ \A g \in Hellos(w, B) : g < e => g <= h
      /\ \A b \in Frames(w, B) : b < e /\ Number(w, b) >= first =>
           \E i \in 1..Len(delivered) : delivered[i] = Body(w, b)
      /\ \A i \in 1..Len(delivered), b \in Frames(w, B) :
           b >= e => delivered[i][5] < Number(w, b)
      /\ \A i \in 1..Len(delivered) : delivered[i] \in sent /\ delivered[i][5] <= hub.frames
      /\ \A i, j \in 1..Len(delivered) : i < j => delivered[i][5] < delivered[j][5]
  BY DEF Processed
<1>4. Hellos(w, B) \subseteq B /\ Frames(w, B) \subseteq B
  BY DEF Hellos, Frames
<1>5. \A b \in B : /\ b \in Nat /\ e \in Nat /\ (b < t => b <= e) /\ (b < e => b < t)
                   /\ (b < t /\ b # e => b < e) /\ (b >= t => b > e /\ b >= e)
  <2> SUFFICES ASSUME NEW b \in B
               PROVE  /\ b \in Nat /\ e \in Nat /\ (b < t => b <= e) /\ (b < e => b < t)
                      /\ (b < t /\ b # e => b < e) /\ (b >= t => b > e /\ b >= e)
    OBVIOUS
  <2>1. b \in Nat /\ e \in Nat /\ (b < t => b = e \/ b < e) /\ (b >= t => b > e)
    BY <1>1, <1>2
  <2> QED BY <1>2, <2>1
<1>10. \A b \in Hellos(w, B) : b \in B
  BY <1>4
<1>11. \A b \in Frames(w, B) : b \in B
  BY <1>4
<1>6. delivered \in Seq(Seq(Byte)) /\ Len(delivered) \in Nat
  BY DEF Shaped
<1>7. \E h \in Hellos(w, B) : /\ h < t /\ Announced(w, h) = fgSessionId'
                              /\ \A g \in Hellos(w, B) : g < t => g <= h
  <2>1. CASE w[e] = START
    <3>1. e \in Hellos(w, B) /\ fgSessionId' = Announced(w, e)
      BY <2>1 DEF Hellos, Passed
    <3>2. \A g \in Hellos(w, B) : g < t => g <= e
      BY <1>5, <1>10
    <3> QED BY <1>2, <3>1, <3>2
  <2>2. CASE w[e] # START
    <3>1. e \notin Hellos(w, B) /\ fgSessionId' = fgSessionId
      BY <2>2 DEF Hellos, Passed
    <3>2. PICK h \in Hellos(w, B) : /\ h < e /\ Announced(w, h) = fgSessionId
                                    /\ \A g \in Hellos(w, B) : g < e => g <= h
      BY <1>3
    <3>3. h < t
      BY <1>5, <1>10, <3>2
    <3>4. \A g \in Hellos(w, B) : g < t => g < e
      BY <1>5, <1>10, <3>1
    <3> QED BY <3>1, <3>2, <3>3, <3>4
  <2> QED BY <2>1, <2>2
<1>8. CASE w[e] # V2_START
  <2>1. e \notin Frames(w, B) /\ delivered' = delivered
    BY <1>8 DEF Frames, Passed
  <2>2. \A b \in Frames(w, B) : (b < t => b < e) /\ (b >= t => b >= e)
    BY <1>5, <1>11, <2>1
  <2>3. \A b \in Frames(w, B) : b < t /\ Number(w, b) >= first =>
          \E i \in 1..Len(delivered) : delivered[i] = Body(w, b)
    BY <1>3, <2>2
  <2>4. \A i \in 1..Len(delivered), b \in Frames(w, B) :
          b >= t => delivered[i][5] < Number(w, b)
    BY <1>3, <2>2
  <2>5. Processed(w, B, t)'
    BY <1>3, <1>7, <2>1, <2>3, <2>4 DEF Processed
  <2> QED BY <1>2, <2>5
<1>9. CASE w[e] = V2_START
  <2> DEFINE body == Body(w, e)
             l == Len(delivered)
  <2>1. e \in Frames(w, B) /\ delivered' = Append(delivered, body)
    BY <1>9 DEF Frames, Passed
  <2>2. body \in sent /\ body[5] = Number(w, e)
    <3>1. /\ body \in sent /\ Len(body) = 7 /\ \A i \in 1..Len(body) : body[i] = w[e + i]
      BY <2>1, FrameAt
    <3>2. 5 \in 1..Len(body)
      BY <3>1
    <3> QED BY <3>1, <3>2 DEF Number
  <2>3. body \in Seq(Byte)
    <3>1. body \in HubBody
      BY <2>2 DEF Shaped
    <3> QED BY <3>1, LinkAssumption, BodyBytes
  <2> HIDE DEF body
  <2>4. /\ Len(delivered') = l + 1
        /\ \A i \in 1..l : delivered'[i] = delivered[i]
        /\ delivered'[l + 1] = body
    BY <1>6, <2>1, <2>3, AppendProperties
  <2>5. l \in Nat
    BY <1>6
  <2>6. \A i \in 1..(l + 1) : i \in 1..l \/ i = l + 1
    BY <2>5
  <2>7. /\ Number(w, e) <= hub.frames
        /\ \A b, c \in Frames(w, B) : b < c => Number(w, b) < Number(w, c)
    BY <2>1 DEF InOrder
  <2>8. \A b \in Frames(w, B) : b < t /\ Number(w, b) >= first =>
          \E i \in 1..Len(delivered') : delivered'[i] = Body(w, b)
    <3> SUFFICES ASSUME NEW b \in Frames(w, B), b < t, Number(w, b) >= first
                 PROVE  \E i \in 1..Len(delivered') : delivered'[i] = Body(w, b)
      OBVIOUS
    <3>1. CASE b = e
      <4>1. l + 1 \in 1..Len(delivered') /\ delivered'[l + 1] = Body(w, b)
        BY <2>4, <2>5, <3>1 DEF body
      <4> QED BY <4>1
    <3>2. CASE b < e
      <4>1. PICK i \in 1..l : delivered[i] = Body(w, b)
        BY <1>3, <3>2
      <4>2. i \in 1..Len(delivered')
        BY <2>4, <2>5
      <4> QED BY <2>4, <4>1, <4>2
    <3> QED BY <1>5, <1>11, <3>1, <3>2
  <2>9. \A i \in 1..l : delivered[i][5] < Number(w, e)
    <3>1. e >= e
      BY <1>1
    <3> QED BY <1>3, <2>1, <3>1
  <2>10. \A i \in 1..Len(delivered'), b \in Frames(w, B) :
           b >= t => delivered'[i][5] < Number(w, b)
    <3> SUFFICES ASSUME NEW i \in 1..Len(delivered'), NEW b \in Frames(w, B), b >= t
                 PROVE  delivered'[i][5] < Number(w, b)
      OBVIOUS
    <3>1. e < b /\ b >= e
      BY <1>5, <1>11
    <3>2. CASE i \in 1..l
      BY <1>3, <2>4, <3>1, <3>2
    <3>3. CASE i = l + 1
      BY <2>1, <2>2, <2>4, <2>7, <3>1, <3>3
    <3> QED BY <2>4, <2>6, <3>2, <3>3
  <2>11. \A i \in 1..Len(delivered') : delivered'[i] \in sent /\ delivered'[i][5] <= hub.frames
    BY <1>3, <2>2, <2>4, <2>6, <2>7
  <2>12. \A i, j \in 1..Len(delivered') : i < j => delivered'[i][5] < delivered'[j][5]
    <3> SUFFICES ASSUME NEW i \in 1..Len(delivered'), NEW j \in 1..Len(delivered'), i < j
                 PROVE  delivered'[i][5] < delivered'[j][5]
      OBVIOUS
    <3>1. i \in 1..l
      BY <2>4, <2>5
    <3>2. CASE j \in 1..l
      BY <1>3, <2>4, <3>1, <3>2
    <3>3. CASE j = l + 1
      BY <2>2, <2>4, <2>9, <3>1, <3>3
    <3> QED BY <2>4, <2>6, <3>2, <3>3
  <2>13. Processed(w, B, t)'
    BY <1>7, <2>8, <2>10, <2>11, <2>12 DEF Processed
  <2> QED BY <1>2, <2>13
<1> QED BY <1>8, <1>9

\* A counter more, or none, in the sum of all.
LEMMA CountedMore ==
  ASSUME Shaped, NEW counters, Return(counters)
  PROVE  /\ phase' = "start" /\ BytesRead' = 0
         /\ counters \in {{"rx_frames"}, {"framing_errors"}} => Counted' = Counted + 1
<1>1. fgLinkStats \in Stats
  BY DEF Shaped
<1>2. /\ phase' = "start"
      /\ \A c \in {"rx_frames", "crc_errors", "framing_errors", "session_errors"} :
           fgLinkStats'[c] = fgLinkStats[c] + (IF c \in counters THEN 1 ELSE 0)
  BY <1>1, Counting
<1>3. ASSUME counters \in {{"rx_frames"}, {"framing_errors"}} PROVE Counted' = Counted + 1
  <2>1. /\ fgLinkStats'.rx_frames = fgLinkStats.rx_frames
             + (IF "rx_frames" \in counters THEN 1 ELSE 0)
        /\ fgLinkStats'.crc_errors = fgLinkStats.crc_errors
             + (IF "crc_errors" \in counters THEN 1 ELSE 0)
        /\ fgLinkStats'.framing_errors = fgLinkStats.framing_errors
             + (IF "framing_errors" \in counters THEN 1 ELSE 0)
    BY <1>2
  <2>2. /\ fgLinkStats.rx_frames \in Nat /\ fgLinkStats.crc_errors \in Nat
        /\ fgLinkStats.framing_errors \in Nat
    BY <1>1 DEF Stats
  <2>3. CASE counters = {"rx_frames"}
    <3>1. "rx_frames" \in counters /\ "crc_errors" \notin counters
          /\ "framing_errors" \notin counters
      BY <2>3
    <3> QED BY <2>1, <2>2, <3>1 DEF Counted
  <2>4. CASE counters = {"framing_errors"}
    <3>1. "rx_frames" \notin counters /\ "crc_errors" \notin counters
          /\ "framing_errors" \in counters
      BY <2>4
    <3> QED BY <2>1, <2>2, <3>1 DEF Counted
  <2> QED BY <1>3, <2>3, <2>4
<1>4. BytesRead' = 0
  BY <1>2 DEF BytesRead
<1> QED BY <1>2, <1>3, <1>4

\* Where a call of raspike_prot_receive is in the stream.
LEMMA Calling ==
  ASSUME Shaped, NEW w \in Seq(Byte), NEW B, InStepWith(w, B), phase \in Receiving
  PROVE  /\ Framed(w, B, sent) /\ InOrder(w, B, sent, hub.frames, hub.session)
         /\ Flows(w) /\ Placed(w, B) /\ Processed(w, B, Begin(w))
         /\ Counted = IF phase = "start" THEN reads ELSE reads - 1
         /\ Counted \in Nat /\ reads \in Nat
<1>1. /\ Framed(w, B, sent) /\ InOrder(w, B, sent, hub.frames, hub.session)
      /\ Flows(w) /\ Placed(w, B) /\ CaughtUp(w, B)
  BY DEF InStepWith
<1>2. Counted \in Nat
  <2>1. /\ fgLinkStats.rx_frames \in Nat /\ fgLinkStats.crc_errors \in Nat
        /\ fgLinkStats.framing_errors \in Nat
    BY DEF Shaped, Stats
  <2> QED BY <2>1 DEF Counted
<1>3. reads \in Nat
  BY DEF Shaped
<1> QED BY <1>1, <1>2, <1>3 DEF CaughtUp

\* A call finds the first byte of a unit.
LEMMA StartInStep ==
  ASSUME Shaped, NEW w \in Seq(Byte), NEW B, InStepWith(w, B), ReadStart
  PROVE  Placed(w, B)' /\ CaughtUp(w, B)'
<1> DEFINE l == 1
<1>1. /\ phase = "start" /\ l \in 0..Len(line) /\ line' = Drop(l) /\ reads' = reads + 1
      /\ UNCHANGED <<fgSessionId, delivered, first, hub, hubOut, sent>>
  <2>1. line \in Seq(Byte) /\ 1 \in Nat
    BY DEF Shaped
  <2> QED BY <2>1, ReadTakes DEF ReadStart, world
<1>2. /\ Head(line) = V2_START => Continue("v2_header", <<>>)
      /\ Head(line) = START => Continue("legacy_header", <<>>)
      /\ Head(line) \notin {START, V2_START} => Return({"framing_errors"})
  BY DEF ReadStart
<1>3. /\ Framed(w, B, sent) /\ InOrder(w, B, sent, hub.frames, hub.session)
      /\ Flows(w) /\ Placed(w, B) /\ Processed(w, B, Begin(w))
      /\ Counted = reads /\ Counted \in Nat /\ reads \in Nat
  BY <1>1, Calling DEF Receiving
<1>4. l = 1 /\ 1 \in 1..Len(line) /\ line[1] = Head(line)
  <2>1. line \in Seq(Byte)
    BY DEF Shaped
  <2> QED BY <1>1, <2>1
<1> HIDE DEF l
<1>5. /\ Pos(w)' = Pos(w) + l /\ Pos(w) \in Nat /\ Pos(w) + l <= Len(w)
      /\ \A i \in 1..Len(line) : line[i] = w[Pos(w) + i]
  BY <1>1, <1>3, ThreadFlows
<1>6. PICK e \in Nat : e = Pos(w) + 1 /\ e <= Len(w)
  BY <1>4, <1>5
<1>7. Begin(w) = e
  BY <1>1, <1>5, <1>6 DEF Begin, BytesRead
<1>8. e \in B /\ w[e] = Head(line)
  <2>1. w[e] = Head(line)
    BY <1>4, <1>5, <1>6
  <2>2. e # Len(w) + 1
    <3>1. Len(w) \in Nat
      OBVIOUS
    <3> QED BY <1>6, <3>1
  <2> QED BY <1>1, <1>3, <1>7, <2>1, <2>2 DEF Placed
<1>9. Pos(w)' = e
  BY <1>4, <1>5, <1>6
<1>10. ASSUME Processed(w, B, e), BytesRead' = 1, phase' # "start", Counted' = Counted
       PROVE  Begin(w)' = e /\ CaughtUp(w, B)'
  <2>1. Begin(w)' = e
    BY <1>6, <1>9, <1>10 DEF Begin
  <2>2. Processed(w, B, e)'
    BY <1>1, <1>10 DEF Processed
  <2>3. Counted' = reads' - 1
    BY <1>1, <1>3, <1>10
  <2> QED BY <1>10, <2>1, <2>2, <2>3 DEF CaughtUp
<1>11. Processed(w, B, e)
  BY <1>3, <1>7
<1>12. CASE Head(line) = V2_START
  <2>1. phase' = "v2_header" /\ UNCHANGED fgLinkStats
    BY <1>2, <1>12 DEF Continue
  <2>2. BytesRead' = 1 /\ Counted' = Counted
    BY <2>1 DEF BytesRead, Counted
  <2>3. e \in Frames(w, B)
    BY <1>8, <1>12 DEF Frames
  <2>4. Begin(w)' = e /\ CaughtUp(w, B)'
    BY <1>10, <1>11, <2>1, <2>2
  <2> QED BY <2>1, <2>3, <2>4 DEF Placed
<1>13. CASE Head(line) = START
  <2>1. phase' = "legacy_header" /\ UNCHANGED fgLinkStats
    BY <1>2, <1>13 DEF Continue
  <2>2. BytesRead' = 1 /\ Counted' = Counted
    BY <2>1 DEF BytesRead, Counted
  <2>3. e \in Hellos(w, B)
    BY <1>8, <1>13 DEF Hellos
  <2>4. Begin(w)' = e /\ CaughtUp(w, B)'
    BY <1>10, <1>11, <2>1, <2>2
  <2> QED BY <2>1, <2>3, <2>4 DEF Placed
<1>14. CASE Head(line) \notin {START, V2_START}
  <2>1. Return({"framing_errors"})
    BY <1>2, <1>14
  <2>2. phase' = "start" /\ BytesRead' = 0 /\ Counted' = Counted + 1
    BY <2>1, CountedMore
  <2>3. Size(w[e]) = 1
    BY <1>8, <1>14 DEF Size
  <2>4. Processed(w, B, e + Size(w[e]))'
    <3>1. Passed(w, e)
      BY <1>1, <1>8, <1>14 DEF Passed
    <3> QED BY <1>1, <1>3, <1>8, <1>11, <3>1, Passing
  <2>5. e + 1 \in B \/ e + 1 = Len(w) + 1
    BY <1>3, <1>8, <2>3, Boundary
  <2>6. Begin(w)' = e + 1
    BY <1>6, <1>9, <2>2 DEF Begin
  <2>7. Placed(w, B)'
    BY <2>2, <2>5, <2>6 DEF Placed
  <2>8. CaughtUp(w, B)'
    <3>1. Begin(w)' = e + Size(w[e])
      BY <2>3, <2>6
    <3>2. Counted' = reads'
      BY <1>1, <1>3, <2>2
    <3> QED BY <2>2, <2>4, <3>1, <3>2 DEF CaughtUp
  <2> QED BY <2>7, <2>8
<1> QED BY <1>12, <1>13, <1>14

\* A call that goes on reading stays at its unit.
LEMMA StillAt ==
  ASSUME NEW w, NEW B, NEW e \in Nat, Processed(w, B, e), Begin(w)' = e,
         phase # "start", phase' # "start",
         Counted = IF phase = "start" THEN reads ELSE reads - 1,
         UNCHANGED <<fgLinkStats, fgSessionId, delivered, first, hub, sent, reads>>
  PROVE  CaughtUp(w, B)'
<1>1. Processed(w, B, e)'
  BY DEF Processed
<1>2. Counted' = reads' - 1
  BY DEF Counted
<1> QED BY <1>1, <1>2 DEF CaughtUp

\* The header of a status frame at b.
IsStatus(w, b) ==
  /\ w[b + 1] = V2_VERSION /\ w[b + 2] = ALL_STATUS /\ w[b + 3] = PORT_NONE
  /\ w[b + 4] = 1

\* What the hub puts in a frame, where the frame is.
LEMMA FrameFields ==
  ASSUME Shaped, NEW w, NEW B, Framed(w, B, sent), NEW e \in Frames(w, B)
  PROVE  /\ IsStatus(w, e)
         /\ Body(w, e) \in HubBody /\ Body(w, e) \in Seq(Byte) /\ Len(Body(w, e)) = 7
         /\ \A i \in 1..Len(Body(w, e)) : Body(w, e)[i] = w[e + i]
<1> DEFINE body == Body(w, e)
           l == Len(body)
<1>1. body \in sent /\ Len(body) = 7 /\ \A i \in 1..Len(body) : body[i] = w[e + i]
  BY FrameAt
<1>2. body \in HubBody
  BY <1>1 DEF Shaped
<1>3. /\ body[1] = V2_VERSION /\ body[2] = ALL_STATUS /\ body[3] = PORT_NONE /\ body[4] = 1
      /\ body \in Seq(Byte)
  BY <1>2, LinkAssumption, BodyBytes
<1>4. l = 7 /\ \A i \in 1..l : body[i] = w[e + i]
  BY <1>1
<1> HIDE DEF body, l
<1>5. 1 \in 1..l /\ 2 \in 1..l /\ 3 \in 1..l /\ 4 \in 1..l
  BY <1>4
<1>6. /\ w[e + 1] = body[1] /\ w[e + 2] = body[2]
      /\ w[e + 3] = body[3] /\ w[e + 4] = body[4]
  BY <1>4, <1>5
<1>7. body \in HubBody /\ body \in Seq(Byte) /\ Len(body) = 7
      /\ \A i \in 1..Len(body) : body[i] = w[e + i]
  BY <1>1, <1>2, <1>3
<1> QED BY <1>3, <1>6, <1>7 DEF body, IsStatus

\* The header of a frame.
LEMMA V2HeaderInStep ==
  ASSUME Shaped, NEW w \in Seq(Byte), NEW B, InStepWith(w, B), ReadV2Header
  PROVE  Placed(w, B)' /\ CaughtUp(w, B)'
<1> DEFINE l == 6
<1>1. /\ phase = "v2_header" /\ l \in 0..Len(line) /\ line' = Drop(l) /\ UNCHANGED hubOut
      /\ UNCHANGED <<fgLinkStats, fgSessionId, delivered, first, hub, sent, reads>>
      /\ phase' = IF Head(line) # V2_VERSION \/ Got(l)[4] > MaxPayload
                  THEN "discard" ELSE "v2_payload"
      /\ header' = Got(l)
  <2>1. line \in Seq(Byte) /\ 6 \in Nat
    BY DEF Shaped
  <2> QED BY <2>1, ReadTakes DEF ReadV2Header, Continue, world, history
<1>2. /\ Framed(w, B, sent) /\ Flows(w) /\ Placed(w, B) /\ Processed(w, B, Begin(w))
      /\ Counted = IF phase = "start" THEN reads ELSE reads - 1
  BY <1>1, Calling DEF Receiving, Busy
<1>3. l = 6 /\ 1 \in 1..l /\ 4 \in 1..l /\ 1 \in 1..Len(line) /\ line[1] = Head(line)
  <2>1. line \in Seq(Byte)
    BY DEF Shaped
  <2> QED BY <1>1, <2>1
<1>12. 1..HEADER = 1..l
  OBVIOUS
<1> HIDE DEF l
<1>4. /\ Pos(w)' = Pos(w) + l /\ Pos(w) \in Nat
      /\ \A i \in 1..l : Got(l)[i] = w[Pos(w) + i]
      /\ \A i \in 1..Len(line) : line[i] = w[Pos(w) + i]
  BY <1>1, <1>2, ThreadFlows
<1>5. Begin(w) = Pos(w)
  <2>1. BytesRead = 1
    BY <1>1 DEF BytesRead
  <2> QED BY <1>4, <2>1 DEF Begin
<1>6. PICK e \in Nat : e = Pos(w)
  BY <1>4
<1>7. e \in Frames(w, B) /\ Processed(w, B, e)
  BY <1>1, <1>2, <1>5, <1>6 DEF Placed
<1>8. w[e + 1] = V2_VERSION /\ w[e + 4] = 1
  BY <1>2, <1>7, FrameFields DEF IsStatus
<1>9. phase' = "v2_payload"
  <2>1. Head(line) = V2_VERSION /\ Got(l)[4] = 1
    BY <1>3, <1>4, <1>6, <1>8
  <2>2. ~(1 > MaxPayload)
    BY LinkAssumption DEF LinkAssumption
  <2> QED BY <1>1, <2>1, <2>2
<1>10. Begin(w)' = e
  <2>1. BytesRead' = 7
    BY <1>9 DEF BytesRead
  <2>2. Begin(w)' = Pos(w)' + 1 - BytesRead'
    BY DEF Begin
  <2> QED BY <1>3, <1>4, <1>6, <2>1, <2>2
<1>11. Placed(w, B)'
  <2>1. \A i \in 1..HEADER : header'[i] = w[e + i]
    BY <1>1, <1>4, <1>6, <1>12
  <2> QED BY <1>7, <1>9, <1>10, <2>1 DEF Placed
<1> QED BY <1>1, <1>2, <1>7, <1>9, <1>10, <1>11, StillAt

\* The header of a HELLO.
LEMMA LegacyHeaderInStep ==
  ASSUME Shaped, NEW w \in Seq(Byte), NEW B, InStepWith(w, B), ReadLegacyHeader
  PROVE  Placed(w, B)' /\ CaughtUp(w, B)'
<1> DEFINE l == 3
<1>1. /\ phase = "legacy_header" /\ l \in 0..Len(line) /\ line' = Drop(l) /\ UNCHANGED hubOut
      /\ UNCHANGED <<fgSessionId, delivered, first, hub, sent, reads>>
      /\ raspike_is_valid_port(Got(l)[3]) =>
           phase' = "legacy_payload" /\ header' = Got(l) /\ UNCHANGED fgLinkStats
  <2>1. line \in Seq(Byte) /\ 3 \in Nat
    BY DEF Shaped
  <2> QED BY <2>1, ReadTakes DEF ReadLegacyHeader, Continue, world, history
<1>2. /\ Framed(w, B, sent) /\ Flows(w) /\ Placed(w, B) /\ Processed(w, B, Begin(w))
      /\ Counted = IF phase = "start" THEN reads ELSE reads - 1
  BY <1>1, Calling DEF Receiving, Busy
<1>3. l = 3 /\ 1 \in 1..l /\ 2 \in 1..l /\ 3 \in 1..l
  OBVIOUS
<1> HIDE DEF l
<1>4. /\ Pos(w)' = Pos(w) + l /\ Pos(w) \in Nat
      /\ \A i \in 1..l : Got(l)[i] = w[Pos(w) + i]
  BY <1>1, <1>2, ThreadFlows
<1>5. Begin(w) = Pos(w)
  <2>1. BytesRead = 1
    BY <1>1 DEF BytesRead
  <2> QED BY <1>4, <2>1 DEF Begin
<1>6. PICK e \in Nat : e = Pos(w)
  BY <1>4
<1>7. e \in Hellos(w, B) /\ Processed(w, B, e)
  BY <1>1, <1>2, <1>5, <1>6 DEF Placed
<1>8. Got(l)[1] = LINK_HELLO /\ Got(l)[2] = HELLO_SIZE /\ Got(l)[3] = PORT_NONE
  <2>1. IsHello(w, e)
    BY <1>2, <1>7, HelloAt
  <2>2. w[e + 1] = LINK_HELLO /\ w[e + 2] = HELLO_SIZE /\ w[e + 3] = PORT_NONE
    BY <2>1 DEF IsHello
  <2>3. Got(l)[1] = w[e + 1] /\ Got(l)[2] = w[e + 2] /\ Got(l)[3] = w[e + 3]
    BY <1>3, <1>4, <1>6
  <2> QED BY <2>2, <2>3
<1>9. phase' = "legacy_payload" /\ header' = Got(l) /\ UNCHANGED fgLinkStats
  BY <1>1, <1>8 DEF raspike_is_valid_port
<1>10. header' = <<LINK_HELLO, HELLO_SIZE, PORT_NONE>>
  <2> DEFINE got == Got(l)
             want == <<LINK_HELLO, HELLO_SIZE, PORT_NONE>>
  <2>1. got \in Seq(Byte) /\ Len(got) = l
    <3>1. line \in Seq(Byte)
      BY DEF Shaped
    <3> QED BY <1>1, <3>1, Reading
  <2>2. want \in Seq(Byte) /\ Len(want) = 3
    BY Bytes
  <2>3. want[1] = LINK_HELLO /\ want[2] = HELLO_SIZE /\ want[3] = PORT_NONE
    OBVIOUS
  <2>4. got[1] = LINK_HELLO /\ got[2] = HELLO_SIZE /\ got[3] = PORT_NONE
    BY <1>8
  <2> HIDE DEF got, want
  <2>5. \A i \in 1..Len(got) : got[i] = want[i]
    <3>1. \A i \in 1..3 : got[i] = want[i]
      BY <2>3, <2>4
    <3> QED BY <1>3, <2>1, <3>1
  <2>6. got = want
    <3>1. got \in Seq(Byte)
      BY <2>1
    <3>2. want \in Seq(Byte)
      BY <2>2
    <3>3. Len(got) = Len(want)
      BY <1>3, <2>1, <2>2
    <3> QED BY <2>5, <3>1, <3>2, <3>3, SeqEqual
  <2> QED BY <1>9, <2>6 DEF got, want
<1>11. Begin(w)' = e
  <2>1. BytesRead' = 4
    BY <1>9 DEF BytesRead
  <2>2. Begin(w)' = Pos(w)' + 1 - BytesRead'
    BY DEF Begin
  <2> QED BY <1>3, <1>4, <1>6, <2>1, <2>2
<1>12. Placed(w, B)'
  BY <1>7, <1>9, <1>10, <1>11 DEF Placed
<1> QED BY <1>1, <1>2, <1>7, <1>9, <1>11, <1>12, StillAt

\* A call that has read its unit counts, and the next one starts behind it.
LEMMA UnitDone ==
  ASSUME Shaped, NEW w, NEW B, Framed(w, B, sent),
         InOrder(w, B, sent, hub.frames, hub.session),
         NEW e \in B, Processed(w, B, e), Passed(w, e),
         UNCHANGED <<first, hub, sent, reads>>, phase' = "start",
         Counted \in Nat, reads \in Nat, Counted = reads - 1, Counted' = Counted + 1,
         Begin(w)' = e + Size(w[e])
  PROVE  Placed(w, B)' /\ CaughtUp(w, B)'
<1>1. Processed(w, B, e + Size(w[e]))'
  BY Passing
<1>2. e + Size(w[e]) \in B \/ e + Size(w[e]) = Len(w) + 1
  BY Boundary
<1>3. Placed(w, B)'
  BY <1>2 DEF Placed
<1>4. Counted' = reads'
  OBVIOUS
<1> QED BY <1>1, <1>3, <1>4 DEF CaughtUp

\* The payload of a HELLO: the host takes its session over.
LEMMA LegacyPayloadInStep ==
  ASSUME Shaped, NEW w \in Seq(Byte), NEW B, InStepWith(w, B), ReadLegacyPayload
  PROVE  Placed(w, B)' /\ CaughtUp(w, B)'
<1> DEFINE l == 2
<1>1. phase = "legacy_payload"
  BY DEF ReadLegacyPayload
<1>2. /\ Framed(w, B, sent) /\ InOrder(w, B, sent, hub.frames, hub.session)
      /\ Flows(w) /\ Placed(w, B) /\ Processed(w, B, Begin(w))
      /\ Counted = reads - 1 /\ Counted \in Nat /\ reads \in Nat
  BY <1>1, Calling DEF Receiving, Busy
<1>3. header[1] = LINK_HELLO /\ header[2] = HELLO_SIZE /\ header[3] = PORT_NONE
  <2>1. header = <<LINK_HELLO, HELLO_SIZE, PORT_NONE>>
    BY <1>1, <1>2 DEF Placed
  <2> QED BY <2>1
<1>4. /\ l \in 0..Len(line) /\ line' = Drop(l) /\ UNCHANGED <<hubOut, hub, sent, reads>>
      /\ UNCHANGED <<delivered, first>>
      /\ process_command(LINK_HELLO, PORT_NONE, fgSessionId, Got(l))
  <2>1. line \in Seq(Byte) /\ 2 \in Nat
    BY DEF Shaped
  <2>2. Read(2) /\ process_command(LINK_HELLO, PORT_NONE, fgSessionId, Got(2))
        /\ UNCHANGED world /\ UNCHANGED history
    BY <1>3 DEF ReadLegacyPayload
  <2> QED BY <2>1, <2>2, ReadTakes DEF world, history
<1>5. l = 2 /\ 1 \in 1..l /\ 2 \in 1..l
  OBVIOUS
<1> HIDE DEF l
<1>6. /\ Pos(w)' = Pos(w) + l /\ Pos(w) \in Nat
      /\ \A i \in 1..l : Got(l)[i] = w[Pos(w) + i]
  BY <1>2, <1>4, ThreadFlows
<1>7. Begin(w) = Pos(w) + 1 - 4
  <2>1. BytesRead = 4
    BY <1>1 DEF BytesRead
  <2> QED BY <2>1 DEF Begin
<1>8. Begin(w) \in Hellos(w, B)
  BY <1>1, <1>2 DEF Placed
<1>9. PICK e \in Nat : e = Begin(w) /\ Pos(w) = e + 3
  <2>1. Begin(w) \in Nat
    BY <1>2, <1>8, HelloAt
  <2> QED BY <1>6, <1>7, <2>1
<1>10. e \in Hellos(w, B) /\ e \in B /\ Size(w[e]) = 6 /\ IsHello(w, e) /\ Processed(w, B, e)
  BY <1>2, <1>8, <1>9, HelloAt
<1>11. Got(l)[1] = V2_VERSION /\ Got(l)[2] = Announced(w, e) /\ Len(Got(l)) = HELLO_SIZE
  <2>1. Got(l)[1] = w[Pos(w) + 1] /\ Got(l)[2] = w[Pos(w) + 2]
    BY <1>5, <1>6
  <2>2. Pos(w) + 1 = e + 4 /\ Pos(w) + 2 = e + 5
    BY <1>9
  <2>3. Len(Got(l)) = l
    <3>1. line \in Seq(Byte)
      BY DEF Shaped
    <3> QED BY <1>4, <3>1, Reading
  <2> QED BY <1>5, <1>10, <2>1, <2>2, <2>3 DEF IsHello, Announced
<1>12. Announced(w, e) # 0
  <2>1. Announced(w, e) \in 1..hub.session
    BY <1>2, <1>10 DEF InOrder
  <2> QED BY <2>1
<1>13. fgSessionId' = Announced(w, e) /\ Return({"rx_frames"})
  <2>1. HelloSession(Got(l)) = Announced(w, e)
    BY <1>11 DEF HelloSession
  <2>2. SessionAfter(LINK_HELLO, Got(l)) = Announced(w, e)
    BY <1>12, <2>1 DEF SessionAfter
  <2>3. Return({"rx_frames"})
    <3>1. LINK_HELLO \notin DOMAIN PayloadSize
      BY DEF PayloadSize, DRIVE_TELEMETRY, RUNTIME_TELEMETRY
    <3> QED BY <1>4, <3>1 DEF process_command
  <2> QED BY <1>4, <2>2, <2>3 DEF process_command
<1>14. Passed(w, e)
  BY <1>4, <1>10, <1>13 DEF Passed, IsHello
<1>15. phase' = "start" /\ BytesRead' = 0 /\ Counted' = Counted + 1
  BY <1>13, CountedMore
<1>16. Begin(w)' = e + Size(w[e])
  <2>1. Begin(w)' = Pos(w)' + 1 - BytesRead'
    BY DEF Begin
  <2>2. Pos(w)' = e + 5
    BY <1>5, <1>6, <1>9
  <2>3. e + 5 + 1 - 0 = e + 6
    OBVIOUS
  <2> QED BY <1>10, <1>15, <2>1, <2>2, <2>3
<1> QED BY <1>2, <1>4, <1>10, <1>14, <1>15, <1>16, UnitDone

\* The checksum of a frame is the one that has been sent with it.
LEMMA FrameIntact ==
  ASSUME Shaped, NEW w \in Seq(Byte), NEW B, Framed(w, B, sent), NEW e \in Frames(w, B),
         NEW q, q[1] = w[e + 8], q[2] = w[e + 9]
  PROVE  Intact(Body(w, e), q)
<1> DEFINE body == Body(w, e)
           frame == V2Frame(body)
           crc == rp_v2_crc16(body)
           l == Len(frame)
<1>1. body \in HubBody
  BY FrameFields
<1>2. Stands(frame, w, e) /\ e \in Nat
  BY FrameAt
<1>3. l = 10 /\ frame[9] = crc % 256 /\ frame[10] = crc \div 256
  BY <1>1, LinkAssumption, ChecksumAssumption, FrameBytes
<1>4. crc \in Nat /\ crc < 65536
  BY <1>1, ChecksumAssumption DEF ChecksumAssumption
<1>5. \A i \in 1..l : w[e + i - 1] = frame[i]
  BY <1>2 DEF Stands
<1> HIDE DEF frame, l
<1>6. 9 \in 1..l /\ 10 \in 1..l
  BY <1>3
<1>7. w[e + 9 - 1] = frame[9] /\ w[e + 10 - 1] = frame[10]
  BY <1>5, <1>6
<1>8. e + 9 - 1 = e + 8 /\ e + 10 - 1 = e + 9
  BY <1>2
<1>9. q[1] = crc % 256 /\ q[2] = crc \div 256
  BY <1>3, <1>7, <1>8
<1> HIDE DEF crc, body
<1>10. (crc % 256) + 256 * (crc \div 256) = crc
  BY <1>4
<1>11. rp_v2_get_u16(q) = crc
  BY <1>9, <1>10 DEF rp_v2_get_u16
<1> QED BY <1>11 DEF Intact, crc, body

\* Header and payload, as read, are the body of the frame.
LEMMA WholeBody ==
  ASSUME Shaped, NEW w \in Seq(Byte), NEW B, Framed(w, B, sent), NEW e \in Frames(w, B),
         Len(header) = HEADER, \A i \in 1..HEADER : header[i] = w[e + i],
         NEW p \in Seq(Byte), Len(p) = 1, p[1] = w[e + 7]
  PROVE  header \o p = Body(w, e)
<1> DEFINE body == Body(w, e)
           all == header \o p
           l == Len(header)
           m == Len(p)
<1>1. /\ body \in Seq(Byte) /\ Len(body) = 7 /\ \A i \in 1..Len(body) : body[i] = w[e + i]
  BY FrameFields
<1>2. /\ all \in Seq(Byte) /\ Len(all) = l + m
      /\ \A i \in 1..l : all[i] = header[i]
      /\ \A i \in 1..m : all[l + i] = p[i]
  <2>1. header \in Seq(Byte)
    BY DEF Shaped
  <2> HIDE DEF l, m
  <2> QED BY <2>1, Joined DEF l, m
<1>3. l = 6 /\ m = 1 /\ \A i \in 1..l : header[i] = w[e + i]
  <2>1. 1..HEADER = 1..l
    OBVIOUS
  <2> QED BY <2>1
<1> HIDE DEF l, m, all, body
<1>4. \A i \in 1..Len(all) : all[i] = body[i]
  <2> SUFFICES ASSUME NEW i \in 1..Len(all) PROVE all[i] = body[i]
    OBVIOUS
  <2>1. i \in 1..Len(body) /\ (i \in 1..l \/ i = l + 1)
    BY <1>1, <1>2, <1>3
  <2>2. body[i] = w[e + i]
    BY <1>1, <2>1
  <2>3. CASE i \in 1..l
    BY <1>2, <1>3, <2>2, <2>3
  <2>4. CASE i = l + 1
    <3>1. 1 \in 1..m
      BY <1>3
    <3>2. all[l + 1] = p[1]
      BY <1>2, <3>1
    <3>3. e + i = e + 7
      BY <1>3, <2>4
    <3> QED BY <2>2, <2>4, <3>2, <3>3
  <2> QED BY <2>1, <2>3, <2>4
<1>5. Len(all) = Len(body)
  BY <1>1, <1>2, <1>3
<1>6. all = body
  <2>1. all \in Seq(Byte)
    BY <1>2
  <2>2. body \in Seq(Byte)
    BY <1>1
  <2> QED BY <1>4, <1>5, <2>1, <2>2, SeqEqual
<1> QED BY <1>6 DEF all, body

\* The payload of a frame: it is intact, of the session of the host, and processed.
LEMMA V2PayloadInStep ==
  ASSUME Shaped, NEW w \in Seq(Byte), NEW B, InStepWith(w, B), ReadV2Payload
  PROVE  Placed(w, B)' /\ CaughtUp(w, B)'
<1>1. phase = "v2_payload"
  BY DEF ReadV2Payload
<1>2. /\ Framed(w, B, sent) /\ InOrder(w, B, sent, hub.frames, hub.session)
      /\ Flows(w) /\ Placed(w, B) /\ Processed(w, B, Begin(w))
      /\ Counted = reads - 1 /\ Counted \in Nat /\ reads \in Nat
  BY <1>1, Calling DEF Receiving, Busy
<1>3. Begin(w) \in Frames(w, B) /\ \A i \in 1..HEADER : header[i] = w[Begin(w) + i]
  BY <1>1, <1>2 DEF Placed
<1>4. Begin(w) = Pos(w) + 1 - 7
  <2>1. BytesRead = 7
    BY <1>1 DEF BytesRead
  <2> QED BY <2>1 DEF Begin
<1>5. PICK e \in Nat : e = Begin(w)
  BY <1>2, <1>3, FrameAt
<1>6. /\ e \in Frames(w, B) /\ e \in B /\ Size(w[e]) = 10 /\ w[e] = V2_START
      /\ Processed(w, B, e) /\ \A i \in 1..HEADER : header[i] = w[e + i]
  <2>1. e \in Frames(w, B)
    BY <1>3, <1>5
  <2>2. e \in B /\ Size(w[e]) = 10 /\ w[e] = V2_START
    BY <1>2, <2>1, FrameAt
  <2> QED BY <1>2, <1>3, <1>5, <2>1, <2>2
<1>7. /\ w[e + 2] = ALL_STATUS /\ w[e + 3] = PORT_NONE /\ w[e + 4] = 1
  <2>1. Framed(w, B, sent) /\ e \in Frames(w, B)
    BY <1>2, <1>6
  <2>2. IsStatus(w, e)
    BY <2>1, FrameFields
  <2> QED BY <2>2 DEF IsStatus
<1>8. header[2] = ALL_STATUS /\ header[3] = PORT_NONE /\ header[4] = 1
      /\ header[6] = SessionOf(w, e)
  <2>1. 2 \in 1..HEADER /\ 3 \in 1..HEADER /\ 4 \in 1..HEADER /\ 6 \in 1..HEADER
    OBVIOUS
  <2>2. header[2] = w[e + 2] /\ header[3] = w[e + 3]
    BY <1>6, <2>1
  <2>3. header[4] = w[e + 4] /\ header[6] = w[e + 6]
    BY <1>6, <2>1
  <2> QED BY <1>7, <2>2, <2>3 DEF SessionOf
<1>9. header[6] = fgSessionId
  BY <1>2, <1>6, <1>8, FrameSession
<1> DEFINE p == Got(1)
           q == SubSeq(line, 1 + 1, 1 + CRC_SIZE)
           l == 3
<1>10. /\ l \in 0..Len(line) /\ line' = Drop(l)
       /\ UNCHANGED <<hubOut, hub, sent, reads, first>>
       /\ \/ /\ Intact(header \o p, q)
             /\ process_command(ALL_STATUS, PORT_NONE, header[6], p)
             /\ delivered' = IF header[6] = fgSessionId
                             THEN Append(delivered, header \o p) ELSE delivered
          \/ ~Intact(header \o p, q)
  <2>1. line \in Seq(Byte) /\ 3 \in Nat /\ 1 + CRC_SIZE = 3
    BY DEF Shaped
  <2>2. Read(1 + CRC_SIZE) /\ UNCHANGED world /\ UNCHANGED <<first, reads>>
    BY <1>8 DEF ReadV2Payload
  <2>3. l \in 0..Len(line) /\ line' = Drop(l)
    BY <2>1, <2>2, ReadTakes
  <2>4. \/ /\ Intact(header \o p, q)
           /\ process_command(ALL_STATUS, PORT_NONE, header[6], p)
           /\ delivered' = IF header[6] = fgSessionId
                           THEN Append(delivered, header \o p) ELSE delivered
        \/ ~Intact(header \o p, q)
    BY <1>8 DEF ReadV2Payload
  <2> QED BY <2>2, <2>3, <2>4 DEF world
<1>11. /\ Pos(w)' = Pos(w) + l /\ Pos(w) \in Nat
       /\ \A i \in 1..Len(line) : line[i] = w[Pos(w) + i]
  <2> HIDE DEF l
  <2> QED BY <1>2, <1>10, ThreadFlows
<1>12. Len(line) \in Nat /\ Len(line) >= 3 /\ line \in Seq(Byte)
  BY <1>10 DEF Shaped
<1>13. Pos(w) + 1 = e + 7 /\ Pos(w) + 2 = e + 8 /\ Pos(w) + 3 = e + 9
  BY <1>4, <1>5, <1>11
<1>14. line[1] = w[e + 7] /\ line[2] = w[e + 8] /\ line[3] = w[e + 9]
  <2>1. 1 \in 1..Len(line) /\ 2 \in 1..Len(line) /\ 3 \in 1..Len(line)
    BY <1>12
  <2> QED BY <1>11, <1>13, <2>1
<1>15. p \in Seq(Byte) /\ Len(p) = 1 /\ p[1] = w[e + 7]
  <2> DEFINE k == 1
  <2>1. k \in 0..Len(line) /\ k = 1 /\ 1 \in 1..k
    BY <1>12
  <2> HIDE DEF k
  <2>2. Got(k) \in Seq(Byte) /\ Len(Got(k)) = k /\ \A i \in 1..k : Got(k)[i] = line[i]
    BY <1>12, <2>1, Reading
  <2> QED BY <1>14, <2>1, <2>2
<1>16. q[1] = w[e + 8] /\ q[2] = w[e + 9]
  <2> DEFINE a == 2
             z == 3
  <2>1. a \in Int /\ z \in Int /\ a = 2 /\ z = 3 /\ a <= z /\ 1 \in 1..(z - a + 1)
        /\ 2 \in 1..(z - a + 1) /\ q = SubSeq(line, a, z)
    OBVIOUS
  <2>2. \A i \in a..z : line[i] \in Byte
    <3>1. \A i \in a..z : i \in 1..Len(line)
      BY <1>12
    <3> QED BY <1>12, <3>1, ElementOfSeq
  <2> HIDE DEF a, z, q
  <2>3. \A i \in 1..(z - a + 1) : SubSeq(line, a, z)[i] = line[a + i - 1]
    BY <2>1, <2>2, SubSeqProperties
  <2>4. q[1] = line[a + 1 - 1] /\ q[2] = line[a + 2 - 1]
    BY <2>1, <2>3
  <2>5. a + 1 - 1 = 2 /\ a + 2 - 1 = 3
    BY <2>1
  <2> QED BY <1>14, <2>4, <2>5
<1> HIDE DEF p, q, l
<1>17. header \o p = Body(w, e)
  <2>1. Len(header) = HEADER
    BY <1>1 DEF Shaped
  <2> QED BY <1>2, <1>6, <1>15, <2>1, WholeBody
<1>18. Intact(header \o p, q)
  BY <1>2, <1>6, <1>15, <1>16, <1>17, FrameIntact
<1>19. /\ process_command(ALL_STATUS, PORT_NONE, fgSessionId, p)
       /\ delivered' = Append(delivered, Body(w, e))
  BY <1>9, <1>10, <1>17, <1>18
<1>20. Return({"rx_frames"}) /\ fgSessionId' = fgSessionId
  <2>1. SessionAfter(ALL_STATUS, p) = fgSessionId
    BY DEF SessionAfter
  <2>2. raspike_is_valid_port(PORT_NONE)
    BY DEF raspike_is_valid_port
  <2>3. PayloadSize[ALL_STATUS] = Len(p)
    BY <1>15 DEF PayloadSize
  <2>4. Return({"rx_frames"})
    BY <1>19, <2>2, <2>3 DEF process_command
  <2> QED BY <1>19, <2>1, <2>4 DEF process_command
<1>21. Passed(w, e)
  BY <1>6, <1>19, <1>20 DEF Passed
<1>22. phase' = "start" /\ BytesRead' = 0 /\ Counted' = Counted + 1
  BY <1>20, CountedMore
<1>23. Begin(w)' = e + Size(w[e])
  <2>1. Begin(w)' = Pos(w)' + 1 - BytesRead'
    BY DEF Begin
  <2>2. Pos(w)' = e + 9
    BY <1>11, <1>13 DEF l
  <2>3. e + 9 + 1 - 0 = e + 10
    OBVIOUS
  <2> QED BY <1>6, <1>22, <2>1, <2>2, <2>3
<1> QED BY <1>2, <1>6, <1>10, <1>21, <1>22, <1>23, UnitDone

\* A call of raspike_prot_receive stays in step.
LEMMA ReceiveInStep ==
  ASSUME Shaped, InStep, Receive, UNCHANGED timeouts
  PROVE  InStep'
<1>1. PICK w, B : w \in Seq(Byte) /\ B \in SUBSET (1..Len(w)) /\ InStepWith(w, B)
  BY Units
<1>2. /\ Framed(w, B, sent) /\ InOrder(w, B, sent, hub.frames, hub.session)
      /\ Flows(w) /\ Placed(w, B)
  BY <1>1 DEF InStepWith
<1>3. UNCHANGED <<hub, hubOut, sent>>
  BY ThreadLeaves
<1>4. Flows(w)'
  <2>1. PICK k \in 0..Len(line) : line' = Drop(k)
    BY ReceiveTakes
  <2> QED BY <1>1, <1>2, <1>3, <2>1, ThreadFlows
<1>5. ~Discard
  BY <1>2 DEF Discard, Placed
<1>6. ~FrameTimesOut
  <2>1. timeouts \in Nat
    BY DEF Shaped
  <2> QED BY <2>1 DEF FrameTimesOut
<1>7. Placed(w, B)' /\ CaughtUp(w, B)'
  BY <1>1, <1>5, <1>6, StartInStep, V2HeaderInStep, V2PayloadInStep, LegacyHeaderInStep,
     LegacyPayloadInStep DEF Receive
<1>8. InStepWith(w, B)'
  BY <1>2, <1>3, <1>4, <1>7 DEF InStepWith
<1> QED BY <1>1, <1>8 DEF InStep

-----------------------------------------------------------------------------
(* The invariant, and what follows from it. *)

\* At first the hub has sent nothing.
LEMMA InStepAtFirst ==
  ASSUME Init
  PROVE  InStep
<1> DEFINE w == <<>>
           B == {}
<1>1. /\ phase = "init" /\ line = <<>> /\ hubOut = <<>> /\ sent = {}
      /\ hub.session = 1 /\ hub.frames = 0
  BY DEF Init
<1>2. w \in Seq(Byte) /\ Len(w) = 0 /\ 1..Len(w) = {}
  OBVIOUS
<1>3. Framed(w, B, sent)
  BY <1>1, <1>2 DEF Framed
<1>4. Hellos(w, B) = {} /\ Frames(w, B) = {}
  BY DEF Hellos, Frames
<1>5. InOrder(w, B, sent, hub.frames, hub.session)
  BY <1>1, <1>4 DEF InOrder
<1>6. Flows(w)
  <2>1. Len(line) = 0 /\ Len(hubOut) = 0 /\ 1..Len(line) = {} /\ 1..Len(hubOut) = {}
    BY <1>1
  <2>2. Pos(w) = 0
    BY <1>2, <2>1 DEF Pos
  <2> QED BY <2>1, <2>2 DEF Flows
<1>7. Placed(w, B)
  BY <1>1 DEF Placed
<1>8. InStepWith(w, B)
  BY <1>1, <1>3, <1>5, <1>6, <1>7 DEF InStepWith, Receiving, Busy
<1>9. B \in SUBSET (1..Len(w))
  OBVIOUS
<1> HIDE DEF w, B
<1> QED BY <1>2, <1>8, <1>9 DEF InStep

\* Every undamaged step keeps the thread in step.
LEMMA InStepStep ==
  ASSUME Shaped, Tallied, Clean => InStep, [Next]_vars
  PROVE  (Clean => InStep)'
<1> SUFFICES ASSUME Clean' PROVE InStep'
  OBVIOUS
<1> USE LinkAssumption, ChecksumAssumption, LookalikeAssumption
<1>1. damage \in Nat /\ timeouts \in Nat /\ damage' = 0 /\ timeouts' = 0
  BY DEF Shaped, Clean
<1>2. CASE UNCHANGED vars
  <2>1. UNCHANGED <<phase, header, fgSessionId, fgLinkStats, line, hub, hubOut, sent>>
        /\ UNCHANGED <<delivered, first, reads, damage, timeouts>>
    BY <1>2 DEF vars, host, world, history, faults
  <2>2. InStep
    BY <2>1 DEF Clean
  <2>3. PICK w, B : w \in Seq(Byte) /\ B \in SUBSET (1..Len(w)) /\ InStepWith(w, B)
    BY <2>2, Units
  <2>4. BytesRead' = BytesRead /\ Pos(w)' = Pos(w) /\ Begin(w)' = Begin(w)
    BY <2>1 DEF BytesRead, Pos, Begin
  <2>5. /\ Framed(w, B, sent) /\ InOrder(w, B, sent, hub.frames, hub.session)
        /\ Flows(w) /\ Placed(w, B) /\ (phase \in Receiving => CaughtUp(w, B))
    BY <2>3 DEF InStepWith
  <2>6. Flows(w)'
    BY <2>1, <2>4, <2>5 DEF Flows
  <2>7. Placed(w, B)'
    BY <2>1, <2>4, <2>5 DEF Placed
  <2>8. CaughtUp(w, B) => CaughtUp(w, B)'
    BY <2>1, <2>4 DEF CaughtUp, Processed, Counted
  <2>9. InStepWith(w, B)'
    BY <2>1, <2>5, <2>6, <2>7, <2>8 DEF InStepWith
  <2> QED BY <2>3, <2>9 DEF InStep
<1>3. CASE Handshake \/ Receive
  <2>1. damage' = damage /\ (timeouts' = timeouts \/ timeouts' = timeouts + 1)
    BY <1>3, ThreadLeaves
  <2>2. damage = 0 /\ timeouts = 0 /\ UNCHANGED timeouts
    BY <1>1, <2>1
  <2>3. InStep
    BY <2>2 DEF Clean
  <2> QED BY <1>3, <2>2, <2>3, HandshakeInStep, ReceiveInStep
<1>4. CASE HubAnswer \/ HubSend \/ HubRestart
  <2>1. damage' = damage /\ timeouts' = timeouts
    BY <1>4 DEF HubAnswer, HubSend, HubRestart, faults
  <2>2. InStep
    BY <1>1, <2>1 DEF Clean
  <2> QED BY <1>4, <2>2, AnswerInStep, SendInStep, RestartInStep
<1>5. CASE Arrive
  <2>1. timeouts' = timeouts /\ (damage' = damage \/ damage' = damage + 1)
    BY <1>5 DEF Arrive
  <2>2. damage = 0 /\ timeouts = 0 /\ UNCHANGED damage
    BY <1>1, <2>1
  <2>3. InStep
    BY <2>2 DEF Clean
  <2> QED BY <1>5, <2>2, <2>3, ArriveInStep
<1> QED BY <1>2, <1>3, <1>4, <1>5, Actors

\* Before the first step nothing is counted.
LEMMA TalliedAtFirst ==
  ASSUME Init
  PROVE  Tallied
BY DEF Init, Tallied, Counted, Busy

\* The inductive invariant.
LEMMA InductiveInvariant == Spec => []Inductive
<1>1. Init => Inductive
  BY LinkAssumption, ShapedAtFirst, TalliedAtFirst, InStepAtFirst DEF Inductive
<1>2. Inductive /\ [Next]_vars => Inductive'
  <2> SUFFICES ASSUME Inductive, [Next]_vars PROVE Inductive'
    OBVIOUS
  <2>1. Shaped /\ Tallied /\ (Clean => InStep)
    BY DEF Inductive
  <2>2. Shaped'
    BY <2>1, LinkAssumption, ChecksumAssumption, ShapedStep
  <2>3. Tallied'
    BY <2>1, LinkAssumption, TalliedStep
  <2>4. (Clean => InStep)'
    BY <2>1, InStepStep
  <2> QED BY <2>2, <2>3, <2>4 DEF Inductive
<1> QED BY <1>1, <1>2, PTL DEF Spec

\* raspike_link_get_stats counts no call of raspike_prot_receive twice, and without damage
\* every one of them.
THEOREM EveryCallCounts == Spec => []CountedOnce
<1>1. Inductive => CountedOnce
  <2> SUFFICES ASSUME Inductive PROVE CountedOnce
    OBVIOUS
  <2>1. Shaped /\ Tallied /\ (Clean => InStep)
    BY DEF Inductive
  <2>2. ASSUME phase = "start", Clean PROVE Counted = reads
    <3>1. PICK w, B : w \in Seq(Byte) /\ B \in SUBSET (1..Len(w)) /\ InStepWith(w, B)
      BY <2>1, <2>2, Units
    <3>2. phase \in Receiving
      BY <2>2 DEF Receiving
    <3> QED BY <2>1, <2>2, <3>1, <3>2, Calling
  <2> QED BY <2>1, <2>2 DEF CountedOnce, Tallied
<1> QED BY <1>1, InductiveInvariant, PTL

\* With nothing left to read the thread has passed the whole stream.
LEMMA AtTheEnd ==
  ASSUME Shaped, NEW w \in Seq(Byte), NEW B, InStepWith(w, B), Quiet
  PROVE  Processed(w, B, Len(w) + 1) /\ \A b \in B : b < Len(w) + 1
<1>1. phase = "start" /\ Len(line) = 0 /\ Len(hubOut) = 0
  BY DEF Quiet
<1>2. Framed(w, B, sent) /\ Processed(w, B, Begin(w)) /\ Flows(w)
  BY <1>1, Calling DEF Receiving
<1>3. Begin(w) = Len(w) + 1
  <2>1. BytesRead = 0
    BY <1>1 DEF BytesRead
  <2>2. Begin(w) = Pos(w) + 1 - BytesRead
    BY DEF Begin
  <2>3. Pos(w) = Len(w)
    <3>1. /\ Pos(w) \in Nat /\ Len(w) \in Nat
          /\ Len(w) = Pos(w) + Len(line) + Len(hubOut)
      BY <1>2, Position
    <3> QED BY <1>1, <3>1
  <2>4. Len(w) \in Nat
    OBVIOUS
  <2> QED BY <2>1, <2>2, <2>3, <2>4
<1>4. \A b \in B : b < Len(w) + 1
  <2> SUFFICES ASSUME NEW b \in B PROVE b < Len(w) + 1
    OBVIOUS
  <2>1. b \in Nat /\ b <= Len(w) /\ Len(w) \in Nat
    BY <1>2, FirstByte
  <2> QED BY <2>1
<1> QED BY <1>2, <1>3, <1>4

\* Without damage every frame that the hub sends after raspike_prot_init succeeded is
\* processed, whatever HELLOs and answers lie between the frames.
THEOREM NoFrameMissed == Spec => []NothingMissed
<1>1. Inductive => NothingMissed
  <2> SUFFICES ASSUME Inductive, Quiet, Clean, NEW body \in sent, body[5] >= first
               PROVE  \E i \in 1..Len(delivered) : delivered[i] = body
    BY DEF NothingMissed
  <2>1. Shaped /\ InStep
    BY DEF Inductive
  <2>2. PICK w, B : w \in Seq(Byte) /\ B \in SUBSET (1..Len(w)) /\ InStepWith(w, B)
    BY <2>1, Units
  <2>3. /\ Framed(w, B, sent) /\ InOrder(w, B, sent, hub.frames, hub.session)
    BY <2>2 DEF InStepWith
  <2>4. PICK b \in Frames(w, B) : Body(w, b) = body
    BY <2>3 DEF InOrder
  <2>5. Number(w, b) >= first
    <3>1. body[5] = w[b + 5]
      <4> DEFINE l == Len(Body(w, b))
      <4>1. l = 7 /\ \A i \in 1..l : Body(w, b)[i] = w[b + i]
        BY <2>1, <2>3, FrameFields
      <4> HIDE DEF l
      <4>2. 5 \in 1..l
        BY <4>1
      <4> QED BY <2>4, <4>1, <4>2
    <3> QED BY <3>1 DEF Number
  <2>6. Processed(w, B, Len(w) + 1) /\ b < Len(w) + 1
    BY <2>1, <2>2, AtTheEnd DEF Frames
  <2> QED BY <2>4, <2>5, <2>6 DEF Processed
<1> QED BY <1>1, InductiveInvariant, PTL

\* Without damage the host ends up in the session of the hub: the last HELLO is of it.
THEOREM HostFollowsSession == Spec => []SessionAgrees
<1>1. Inductive => SessionAgrees
  <2> SUFFICES ASSUME Inductive, Quiet, Clean PROVE fgSessionId = hub.session
    BY DEF SessionAgrees
  <2>1. Shaped /\ InStep
    BY DEF Inductive
  <2>2. PICK w, B : w \in Seq(Byte) /\ B \in SUBSET (1..Len(w)) /\ InStepWith(w, B)
    BY <2>1, Units
  <2>3. /\ Framed(w, B, sent) /\ InOrder(w, B, sent, hub.frames, hub.session)
    BY <2>2 DEF InStepWith
  <2>4. /\ Processed(w, B, Len(w) + 1) /\ \A b \in B : b < Len(w) + 1
    BY <2>1, <2>2, AtTheEnd
  <2>5. PICK h \in Hellos(w, B) : /\ Announced(w, h) = fgSessionId
                                  /\ \A g \in Hellos(w, B) : g < Len(w) + 1 => g <= h
    BY <2>4 DEF Processed
  <2>6. \A g \in Hellos(w, B) : g <= h /\ g \in Nat
    <3>1. \A g \in Hellos(w, B) : g < Len(w) + 1
      BY <2>4 DEF Hellos
    <3>2. \A g \in Hellos(w, B) : g \in Nat
      BY <2>3, Fields
    <3> QED BY <2>5, <3>1, <3>2
  <2>7. Announced(w, h) \in 1..hub.session
    BY <2>3 DEF InOrder
  <2>8. ~(Announced(w, h) < hub.session)
    <3> SUFFICES ASSUME Announced(w, h) < hub.session PROVE FALSE
      OBVIOUS
    <3>1. PICK g \in Hellos(w, B) : h < g
      BY <2>3 DEF InOrder
    <3> QED BY <2>6, <3>1
  <2>9. hub.session \in Nat
    BY <2>1 DEF Shaped
  <2> QED BY <2>5, <2>7, <2>8, <2>9
<1> QED BY <1>1, InductiveInvariant, PTL

\* Without damage a v2 frame that is processed is one the hub sent, and frames are
\* processed in the order they were sent, none of them twice.
THEOREM GenuineUndamaged == Spec => [](Clean => Genuine)
<1>1. Inductive => (Clean => Genuine)
  <2> SUFFICES ASSUME Inductive, Clean PROVE Genuine
    OBVIOUS
  <2>1. Shaped /\ InStep
    BY DEF Inductive
  <2>2. PICK w, B : w \in Seq(Byte) /\ B \in SUBSET (1..Len(w)) /\ InStepWith(w, B)
    BY <2>1, Units
  <2>3. CASE phase \in Receiving
    <3>1. Processed(w, B, Begin(w))
      BY <2>1, <2>2, <2>3, Calling
    <3> QED BY <3>1 DEF Processed, Genuine
  <2>4. CASE phase \notin Receiving
    <3>1. delivered = <<>>
      BY <2>1, <2>4 DEF Shaped
    <3>2. Len(delivered) = 0
      BY <3>1
    <3>3. 1..Len(delivered) = {}
      BY <3>2
    <3> QED BY <3>3 DEF Genuine
  <2> QED BY <2>3, <2>4
<1> QED BY <1>1, InductiveInvariant, PTL
=============================================================================

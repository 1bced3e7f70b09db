---------------------------- MODULE RaspikeComProofs ----------------------------
(***************************************************************************)
(* The properties of sending, for any number of threads, frames, flushes,  *)
(* failures and links, and for every size of a frame and of the buffer:    *)
(* types and the bound of the buffer (TypeOK), what is accepted is not     *)
(* lost (AcceptedIsKept), a session carries its own frames (OwnFramesOnly),*)
(* and, for a mode that is changed only at rest, frames are not mixed      *)
(* (FramesUnmixed), priority frames are on the wire (UrgentIsOnTheWire)    *)
(* and in order (InOrder).                                                 *)
(***************************************************************************)
EXTENDS RaspikeCom, TLAPS

\* In a call of send_frame (raspike_usb_buffer_flush has no frame).
Sending(t) == pc[t] # "idle" /\ job[t].frame # 0

Writing(t) == pc[t] \in {"write", "flushing"}

\* Who sends a frame has fgSendMutex, and its frame is the last one that was begun, and
\* of this link; who writes the buffer has fg_send_mutex; a write begins at the start.
Locks == \A t \in Thread :
  /\ Sending(t) => fgSendMutex = t /\ job[t].frame = frames /\ since < frames
  /\ pc[t] \in {"mode", "append", "write"} => job[t].frame # 0
  /\ pc[t] \in {"mode", "append", "flush"} => job[t].written = 0
  /\ pc[t] = "flushing" => fg_send_mutex = t

\* Whose bytes the wire and the buffer hold, once the handshake is over.
Own ==
  /\ \A i \in 1..Len(wire) :
       wire[i].frame <= frames /\ (phase = "opening" \/ wire[i].frame > since)
  /\ \A i \in 1..Len(fg_send_buffer) :
       fg_send_buffer[i].frame <= frames /\ (phase = "opening" \/ fg_send_buffer[i].frame > since)

\* In the handshake whoever sends will flush, and once the last INIT has been sent without
\* an error nothing is buffered.
Greeting ==
  /\ \A f \in accepted : f <= frames
  /\ phase = "opening" =>
       /\ \A t \in Thread : pc[t] # "idle" =>
            job[t].frame # 0 /\ job[t].flush /\ frames \notin urgent
       /\ frames \in urgent => fg_send_buffer = <<>>

\* The bytes of frame f are on the wire or in the buffer.
Kept(f) == \A p \in 1..FrameSize :
  [frame |-> f, part |-> p] \in ToSet(wire) \cup ToSet(fg_send_buffer)

\* What was accepted, and what is about to be, is kept; what was written is on the wire.
Keeps ==
  /\ \A f \in accepted : Kept(f)
  /\ \A t \in Thread :
       /\ pc[t] \in {"flush", "flushing"} /\ job[t].frame # 0 => Kept(job[t].frame)
       /\ Writing(t) => \A i \in 1..job[t].written : Source(t)[i] \in ToSet(wire)

-----------------------------------------------------------------------------
(* Without a change of mode under way. *)

\* Every part of a frame follows the part before it.
Chained(s) == \A i \in 1..Len(s) : s[i].part > 1 =>
  i > 1 /\ s[i - 1] = [s[i] EXCEPT !.part = @ - 1]

Sorted(s) == \A i, j \in 1..Len(s) : i < j => s[i].frame <= s[j].frame

\* The buffer holds frames in their order.
Buffered == Chained(fg_send_buffer) /\ Sorted(fg_send_buffer)

\* Frame f is whole in s, from place m on.
HoldsAt(s, f, m) == m + FrameSize - 1 <= Len(s)
  /\ \A p \in 1..FrameSize : s[m + p - 1] = [frame |-> f, part |-> p]
Holds(s, f) == \E m \in 1..Len(s) : HoldsAt(s, f, m)

\* Nothing is buffered in NORMAL mode, and nothing is written past the buffer in the other.
Modes ==
  /\ fg_send_mode = "NORMAL" =>
       fg_send_buffer = <<>> /\ \A t \in Thread : pc[t] \notin {"append", "flushing"}
  /\ fg_send_mode = "BUFFERED" => \A t \in Thread : pc[t] # "write"

\* What a thread has written is what came last on the wire.
Written == \A t \in Thread : Writing(t) =>
  /\ job[t].written <= Len(wire)
  /\ \A i \in 1..job[t].written : wire[Len(wire) - job[t].written + i] = Source(t)[i]

\* Frame f is whole on the wire or in the buffer.
Safe(f) == Holds(wire, f) \/ Holds(fg_send_buffer, f)

Whole ==
  /\ \A f \in accepted : Safe(f)
  /\ \A f \in urgent : Holds(wire, f)
  /\ \A t \in Thread : pc[t] \in {"flush", "flushing"} /\ job[t].frame # 0 =>
       Safe(job[t].frame)

\* A frame that was accepted came before whatever was sent later.
Ordered == \A f \in accepted, g \in 1..MaxFrames, i \in 1..Len(wire) :
  f < g /\ HoldsAt(wire, g, i) => \E j \in 1..(i - 1) : HoldsAt(wire, f, j)

Undisturbed == Modes /\ Written /\ Chained(wire) /\ Whole /\ Ordered

Inductive ==
  /\ TypeOK /\ Locks /\ Own /\ Greeting /\ Keeps /\ Buffered
  /\ disturbed \/ Undisturbed

\* A link is opened, or its handshake is over.
NextLink == Reopen \/ Opened

-----------------------------------------------------------------------------
(* What the steps of a call change. *)

\* The steps that end a call, or go on to the flush.
Finishing(t) == \/ BufferedWrite(t) \/ NoBuffers(t) \/ WriteDone(t) \/ WriteFails(t)
                \/ FlushNothing(t) \/ FlushDone(t) \/ FlushFails(t)

\* The call returns: fgSendMutex is let go if it was taken, and a frame that was sent
\* counts as accepted.
LEMMA Returns ==
  ASSUME NEW t \in Thread, NEW success \in BOOLEAN, Return(t, success)
  PROVE  /\ pc' = [pc EXCEPT ![t] = "idle"]
         /\ fgSendMutex' = IF job[t].frame = 0 THEN fgSendMutex ELSE Nobody
         /\ success /\ job[t].frame # 0 => accepted' = accepted \cup {job[t].frame}
         /\ ~success \/ job[t].frame = 0 => UNCHANGED past
         /\ success /\ job[t].frame # 0 /\ job[t].flush =>
              urgent' = urgent \cup {job[t].frame}
         /\ ~job[t].flush => urgent' = urgent
<1>1. CASE job[t].frame = 0
  BY <1>1 DEF Return, Goto, past
<1>2. CASE job[t].frame # 0
  BY <1>2 DEF Return, Goto, past
<1> QED BY <1>1, <1>2

\* A call that finishes a step is idle or about to flush; what is accepted, or to be
\* flushed, grows by its frame at most.
LEMMA Finishes ==
  ASSUME NEW t \in Thread, Finishing(t)
  PROVE  /\ \/ /\ pc' = [pc EXCEPT ![t] = "flush"] /\ pc[t] \in {"append", "write"}
               /\ UNCHANGED <<fgSendMutex, past>>
            \/ /\ pc' = [pc EXCEPT ![t] = "idle"]
               /\ fgSendMutex' = IF job[t].frame = 0 THEN fgSendMutex ELSE Nobody
               /\ job[t].frame = 0 => UNCHANGED past
               /\ accepted' \in {accepted, accepted \cup {job[t].frame}}
               /\ urgent' \in {urgent, urgent \cup {job[t].frame}}
               /\ urgent' = urgent \/ accepted' = accepted \cup {job[t].frame}
         /\ job' = job \/ job' = [job EXCEPT ![t].written = 0]
         /\ UNCHANGED <<fg_send_mode, wire, still, frames, flushes>>
<1>1. ASSUME NEW success \in BOOLEAN, Return(t, success)
      PROVE  /\ pc' = [pc EXCEPT ![t] = "idle"]
             /\ fgSendMutex' = IF job[t].frame = 0 THEN fgSendMutex ELSE Nobody
             /\ job[t].frame = 0 => UNCHANGED past
             /\ accepted' \in {accepted, accepted \cup {job[t].frame}}
             /\ urgent' \in {urgent, urgent \cup {job[t].frame}}
             /\ urgent' = urgent \/ accepted' = accepted \cup {job[t].frame}
  <2>1. CASE job[t].frame = 0
    BY <1>1, <2>1 DEF Return, Goto, past
  <2>2. CASE job[t].frame # 0
    BY <1>1, <2>2 DEF Return, Goto, past
  <2> QED BY <2>1, <2>2
<1>2. Sent(t) \/ Return(t, TRUE) \/ Return(t, FALSE)
  BY DEF Finishing, BufferedWrite, NoBuffers, WriteDone, WriteFails, FlushNothing,
         FlushDone, FlushFails
<1>3. Sent(t) => pc[t] \in {"append", "write"} \/ Return(t, TRUE) \/ Return(t, FALSE)
  BY DEF Finishing, BufferedWrite, NoBuffers, WriteDone, WriteFails, FlushNothing,
         FlushDone, FlushFails
<1>4. /\ job' = job \/ job' = [job EXCEPT ![t].written = 0]
      /\ UNCHANGED <<fg_send_mode, wire, still, frames, flushes>>
  BY DEF Finishing, BufferedWrite, NoBuffers, WriteDone, WriteFails, FlushNothing,
         FlushDone, FlushFails, bounds
<1>5. CASE Return(t, TRUE) \/ Return(t, FALSE)
  BY <1>1, <1>4, <1>5
<1>6. CASE Sent(t) /\ pc[t] \in {"append", "write"}
  <2>1. CASE Return(t, TRUE)
    BY <1>5, <2>1
  <2>2. CASE Goto(t, "flush") /\ UNCHANGED <<fgSendMutex, past>>
    BY <1>4, <1>6, <2>2 DEF Goto
  <2> QED BY <1>6, <2>1, <2>2 DEF Sent
<1> QED BY <1>2, <1>3, <1>5, <1>6

\* With a new link, or at the end of its handshake, nothing is under way; the histories begin
\* anew, and the buffer stays.
LEMMA Anew ==
  ASSUME NextLink
  PROVE  /\ \A t \in Thread : pc[t] = "idle" /\ pc'[t] = "idle"
         /\ wire' = <<>> /\ accepted' = {} /\ urgent' = {}
         /\ UNCHANGED <<fg_send_buffer, fg_send_mutex, fgSendMutex, pc, job, frames>>
  BY DEF NextLink, Reopen, Opened, Afresh, shared, bounds

-----------------------------------------------------------------------------
(* Types. *)

\* A frame is a sequence of bytes.
LEMMA FramesAreBytes ==
  ASSUME ComAssumption, NEW f \in 1..MaxFrames
  PROVE  FrameOf(f) \in Seq(Byte) /\ Len(FrameOf(f)) = FrameSize
<1>1. FrameOf(f) \in [1..FrameSize -> Byte]
  BY DEF FrameOf, Byte
<1>2. FrameSize \in Nat
  BY DEF ComAssumption
<1> QED BY <1>1, <1>2

\* What a thread is to write is a sequence of bytes that its count of them can hold.
LEMMA SourcesAreBytes ==
  ASSUME ComAssumption, TypeOK, Locks, NEW t \in Thread, Writing(t)
  PROVE  Source(t) \in Seq(Byte) /\ Len(Source(t)) \in 0..(BufferSize + FrameSize)
<1>1. CASE pc[t] = "write"
  <2>1. job[t].frame \in 1..MaxFrames
    BY <1>1 DEF TypeOK, Job, Locks, ComAssumption
  <2> QED BY <1>1, <2>1, FramesAreBytes DEF Source, ComAssumption
<1>2. CASE pc[t] # "write"
  BY <1>2 DEF Source, TypeOK, ComAssumption
<1> QED BY <1>1, <1>2

\* The first state.
LEMMA Initially == ASSUME ComAssumption PROVE Init => Inductive
<1> SUFFICES ASSUME Init PROVE Inductive
  OBVIOUS
<1> USE ComAssumption DEF Init
<1>1. TypeOK
  <2>1. [frame |-> 0, flush |-> FALSE, written |-> 0] \in Job
    BY DEF Job, ComAssumption
  <2>2. writable \in BOOLEAN /\ disturbed \in BOOLEAN /\ phase \in {"open", "closing", "opening"}
    OBVIOUS
  <2>3. 0 \in 0..MaxFrames /\ 0 \in 0..MaxFlushes /\ 0 \in 0..MaxFailures /\ 1 \in 1..MaxLinks
    BY DEF ComAssumption
  <2>4. job \in [Thread -> Job]
    BY <2>1
  <2>5. fg_send_buffer \in Seq(Byte) /\ Len(fg_send_buffer) <= BufferSize /\ wire \in Seq(Byte)
    BY DEF ComAssumption
  <2>6. pc \in [Thread -> {"idle", "mode", "append", "write", "flush", "flushing"}]
    OBVIOUS
  <2>7. since \in 0..frames /\ accepted \subseteq 1..MaxFrames /\ urgent \subseteq accepted
    OBVIOUS
  <2> QED BY <2>2, <2>3, <2>4, <2>5, <2>6, <2>7 DEF TypeOK
<1>2. Locks
  BY DEF Locks, Sending
<1>3. Own /\ Greeting
  BY DEF Own, Greeting
<1>4. Keeps
  BY DEF Keeps, Writing
<1>5. Buffered
  BY DEF Buffered, Chained, Sorted
<1>6. Undisturbed
  BY DEF Undisturbed, Modes, Written, Writing, Chained, Whole, Ordered
<1> QED BY <1>1, <1>2, <1>3, <1>4, <1>5, <1>6 DEF Inductive

\* Types, of the steps that finish something.
LEMMA TypeFinishing ==
  ASSUME ComAssumption, TypeOK, Locks, NEW t \in Thread, Finishing(t)
  PROVE  TypeOK'
<1>1. pc' \in [Thread -> {"idle", "mode", "append", "write", "flush", "flushing"}]
  BY Finishes DEF TypeOK
<1>2. fgSendMutex' \in Thread \cup {Nobody}
  BY Finishes DEF TypeOK
<1>3. job' \in [Thread -> Job]
  <2>1. job \in [Thread -> Job]
    BY DEF TypeOK
  <2>2. [job[t] EXCEPT !.written = 0] \in Job
    BY <2>1 DEF Job, ComAssumption
  <2>3. job' = job \/ job' = [job EXCEPT ![t] = [job[t] EXCEPT !.written = 0]]
    BY Finishes
  <2> QED BY <2>1, <2>2, <2>3
<1>4. accepted' \subseteq 1..MaxFrames /\ urgent' \subseteq accepted'
  <2>1. job[t].frame \in 0..MaxFrames
    BY DEF TypeOK, Job
  <2>2. CASE job[t].frame = 0
    BY <2>2, Finishes DEF TypeOK, past
  <2>3. CASE job[t].frame # 0
    <3>1. job[t].frame \in 1..MaxFrames
      BY <2>1, <2>3 DEF ComAssumption
    <3> QED BY <3>1, Finishes DEF TypeOK, past
  <2> QED BY <2>2, <2>3
<1>5. fg_send_mutex' \in Thread \cup {Nobody} /\ failures' \in 0..MaxFailures
  <2>1. fg_send_mutex' \in {fg_send_mutex, Nobody}
    BY DEF Finishing, BufferedWrite, NoBuffers, WriteDone, WriteFails, FlushNothing,
           FlushDone, FlushFails
  <2>2. failures' = failures \/ (failures' = failures + Failure /\ MayFail)
    BY DEF Finishing, BufferedWrite, NoBuffers, WriteDone, WriteFails, FlushNothing,
           FlushDone, FlushFails, bounds
  <2>3. failures' \in 0..MaxFailures
    BY <2>2 DEF TypeOK, MayFail, Failure, ComAssumption
  <2> QED BY <2>1, <2>3 DEF TypeOK
<1>6. fg_send_buffer' \in Seq(Byte) /\ Len(fg_send_buffer') <= BufferSize
  <2>1. CASE BufferedWrite(t)
    <3>1. job[t].frame \in 1..MaxFrames
      BY <2>1 DEF TypeOK, Job, Locks, BufferedWrite, ComAssumption
    <3> QED BY <2>1, <3>1, FramesAreBytes DEF TypeOK, BufferedWrite, HasRoom
  <2>2. CASE FlushDone(t)
    BY <2>2 DEF FlushDone, ComAssumption
  <2>3. CASE fg_send_buffer' = fg_send_buffer
    BY <2>3 DEF TypeOK
  <2> QED BY <2>1, <2>2, <2>3 DEF Finishing, NoBuffers, WriteDone, WriteFails, FlushNothing,
                                  FlushFails
<1>7. UNCHANGED <<fg_send_mode, wire, still, frames, flushes>>
  BY Finishes
<1> QED BY <1>1, <1>2, <1>3, <1>4, <1>5, <1>6, <1>7 DEF TypeOK, still, link

\* Types, of the other steps of a thread.
LEMMA TypeStep ==
  ASSUME ComAssumption, TypeOK, Locks, NEW t \in Thread,
         \/ \E flush_now \in BOOLEAN : SendFrame(t, flush_now)
         \/ BufferFlush(t) \/ Shutdown(t) \/ ReadMode(t) \/ Write(t) \/ Flush(t)
  PROVE  TypeOK'
<1>1. ASSUME NEW flush_now \in BOOLEAN, SendFrame(t, flush_now) PROVE TypeOK'
  <2>1. frames + 1 \in 0..MaxFrames /\ since \in 0..(frames + 1)
    BY <1>1 DEF SendFrame, TypeOK, ComAssumption
  <2>2. [frame |-> frames + 1, flush |-> flush_now, written |-> 0] \in Job
    BY <2>1 DEF Job, ComAssumption
  <2>3. job' \in [Thread -> Job]
    BY <1>1, <2>2 DEF SendFrame, TypeOK
  <2>4. pc' \in [Thread -> {"idle", "mode", "append", "write", "flush", "flushing"}]
    BY <1>1 DEF SendFrame, Goto, TypeOK
  <2> QED BY <1>1, <2>1, <2>3, <2>4 DEF SendFrame, TypeOK, still, link, past
<1>2. CASE BufferFlush(t) \/ Shutdown(t)
  <2>1. [frame |-> 0, flush |-> TRUE, written |-> 0] \in Job
    BY DEF Job, ComAssumption
  <2>2. job' \in [Thread -> Job]
    BY <1>2, <2>1 DEF BufferFlush, Shutdown, TypeOK
  <2>3. pc' \in [Thread -> {"idle", "mode", "append", "write", "flush", "flushing"}]
    BY <1>2 DEF BufferFlush, Shutdown, Goto, TypeOK
  <2>4. flushes' \in 0..MaxFlushes /\ phase' \in {"open", "closing", "opening"}
    <3>1. CASE BufferFlush(t)
      BY <3>1 DEF BufferFlush, TypeOK, ComAssumption, still, link
    <3>2. CASE Shutdown(t)
      BY <3>2 DEF Shutdown, TypeOK, bounds
    <3> QED BY <1>2, <3>1, <3>2
  <2>5. /\ UNCHANGED <<fg_send_buffer, fg_send_mode, fg_send_mutex, fgSendMutex, wire, writable>>
        /\ UNCHANGED <<disturbed, since, links, accepted, urgent, frames, failures>>
    BY <1>2 DEF BufferFlush, Shutdown, still, link, past, shared, bounds
  <2> QED BY <2>2, <2>3, <2>4, <2>5 DEF TypeOK
<1>3. CASE ReadMode(t) \/ Flush(t)
  <2>1. pc' \in [Thread -> {"idle", "mode", "append", "write", "flush", "flushing"}]
    BY <1>3 DEF ReadMode, Flush, Goto, TypeOK
  <2>2. fg_send_mutex' \in Thread \cup {Nobody}
    BY <1>3 DEF ReadMode, Flush, TypeOK, shared
  <2>3. UNCHANGED <<fg_send_buffer, fg_send_mode, fgSendMutex, job, wire, still, past, bounds>>
    BY <1>3 DEF ReadMode, Flush, shared
  <2> QED BY <2>1, <2>2, <2>3 DEF TypeOK, still, link, past, bounds
<1>4. CASE Write(t)
  <2>1. Source(t) \in Seq(Byte) /\ Len(Source(t)) \in 0..(BufferSize + FrameSize)
    BY <1>4, SourcesAreBytes DEF Write, Writing
  <2>2. job \in [Thread -> Job]
    BY DEF TypeOK
  <2>3. job[t].written \in Nat /\ job[t].written < Len(Source(t))
    BY <1>4, <2>2 DEF Write, Job
  <2>4. job[t].written + 1 \in 0..(BufferSize + FrameSize)
        /\ job[t].written + 1 \in 1..Len(Source(t))
    BY <2>1, <2>3 DEF ComAssumption
  <2>5. wire' \in Seq(Byte)
    BY <1>4, <2>1, <2>4 DEF Write, TypeOK
  <2>6. job' \in [Thread -> Job]
    <3>1. job' = [job EXCEPT ![t] = [job[t] EXCEPT !.written = job[t].written + 1]]
      BY <1>4 DEF Write
    <3>2. [job[t] EXCEPT !.written = job[t].written + 1] \in Job
      BY <2>2, <2>4 DEF Job
    <3> QED BY <2>2, <3>1, <3>2
  <2> QED BY <1>4, <2>5, <2>6 DEF Write, TypeOK, shared, still, link, past, bounds
<1> QED BY <1>1, <1>2, <1>3, <1>4

\* Types, of the application's choice of mode, of the descriptor and of the next link.
LEMMA TypeLink ==
  ASSUME ComAssumption, TypeOK,
         \/ \E mode \in {"NORMAL", "BUFFERED"} : raspike_usb_set_mode(mode)
         \/ Stall \/ Resume \/ NextLink
  PROVE  TypeOK'
<1>1. ASSUME NEW mode \in {"NORMAL", "BUFFERED"}, raspike_usb_set_mode(mode) PROVE TypeOK'
  <2>1. disturbed' \in BOOLEAN
    <3>1. disturbed' = (disturbed \/ (mode # fg_send_mode /\ ~AtRest))
      BY <1>1 DEF raspike_usb_set_mode
    <3> QED BY <3>1, Zenon
  <2> QED BY <1>1, <2>1 DEF raspike_usb_set_mode, TypeOK, link, past, bounds
<1>2. CASE Stall \/ Resume
  <2>1. writable' \in BOOLEAN
    BY <1>2 DEF Stall, Resume
  <2>2. failures' \in 0..MaxFailures
    BY <1>2 DEF Stall, Resume, TypeOK, bounds, ComAssumption
  <2>3. UNCHANGED <<shared, pc, job, wire, disturbed, link, past, frames, flushes>>
    BY <1>2 DEF Stall, Resume, bounds
  <2> QED BY <2>1, <2>2, <2>3 DEF TypeOK, shared, link, past
<1>3. CASE NextLink
  <2>1. links' \in 1..MaxLinks /\ since' \in 0..frames'
    <3>1. CASE Reopen
      BY <3>1 DEF Reopen, TypeOK, ComAssumption, bounds
    <3>2. CASE Opened
      BY <3>2 DEF Opened, TypeOK, bounds
    <3> QED BY <1>3, <3>1, <3>2 DEF NextLink
  <2>2. fg_send_mode' \in {"NORMAL", "BUFFERED"} /\ writable' \in BOOLEAN
    BY <1>3 DEF NextLink, Reopen, Opened, TypeOK, shared
  <2>3. disturbed' \in BOOLEAN
    <3>1. CASE Reopen
      <4>1. disturbed' = (fg_send_mode = "NORMAL" /\ fg_send_buffer # <<>>)
        BY <3>1 DEF Reopen
      <4> QED BY <4>1, Zenon
    <3>2. CASE Opened
      BY <3>2 DEF Opened
    <3> QED BY <1>3, <3>1, <3>2 DEF NextLink
  <2>4. phase' \in {"open", "closing", "opening"} /\ UNCHANGED bounds
    BY <1>3 DEF NextLink, Reopen, Opened
  <2> QED BY <1>3, <2>1, <2>2, <2>3, <2>4, Anew DEF TypeOK, bounds
<1> QED BY <1>1, <1>2, <1>3

-----------------------------------------------------------------------------
(* Locks. *)

\* A thread that returns was the one that held fgSendMutex, if it sent a frame.
LEMMA LocksFinishing ==
  ASSUME ComAssumption, TypeOK, Locks, NEW t \in Thread, Finishing(t)
  PROVE  Locks'
<1>1. /\ pc \in [Thread -> {"idle", "mode", "append", "write", "flush", "flushing"}]
      /\ job \in [Thread -> Job]
  BY DEF TypeOK
<1>2. pc[t] # "idle" /\ UNCHANGED <<frames, since>>
  <2>1. pc[t] # "idle"
    BY DEF Finishing, BufferedWrite, NoBuffers, WriteDone, WriteFails, FlushNothing,
           FlushDone, FlushFails
  <2>2. UNCHANGED <<frames, since>>
    BY Finishes DEF still, link
  <2> QED BY <2>1, <2>2
<1>3. job'[t].frame = job[t].frame /\ \A u \in Thread \ {t} : job'[u] = job[u]
  <2>1. job' = job \/ job' = [job EXCEPT ![t] = [job[t] EXCEPT !.written = 0]]
    BY Finishes
  <2>2. [job[t] EXCEPT !.written = 0].frame = job[t].frame
    BY <1>1 DEF Job
  <2> QED BY <1>1, <2>1, <2>2
<1>4. fg_send_mutex' = fg_send_mutex \/ (pc[t] = "flushing" /\ pc'[t] = "idle")
  BY <1>1 DEF Finishing, BufferedWrite, NoBuffers, WriteDone, WriteFails, FlushNothing,
         FlushDone, FlushFails, Return, Goto
<1>5. job'[t].written = 0 \/ pc'[t] = "idle"
  <2>1. CASE WriteDone(t)
    BY <1>1, <2>1 DEF WriteDone
  <2>2. CASE BufferedWrite(t)
    BY <1>1, <2>2 DEF BufferedWrite, Locks
  <2>3. CASE ~WriteDone(t) /\ ~BufferedWrite(t)
    BY <1>1, <2>3 DEF Finishing, NoBuffers, WriteFails, FlushNothing, FlushDone, FlushFails,
                      Return, Goto
  <2> QED BY <2>1, <2>2, <2>3
<1>6. ASSUME NEW u \in Thread \ {t}
      PROVE  /\ pc'[u] = pc[u] /\ job'[u] = job[u]
             /\ Sending(u) => fgSendMutex' = u
             /\ pc[u] = "flushing" => fg_send_mutex' = u
  <2>1. pc'[u] = pc[u]
    BY <1>1, Finishes
  <2>2. Sending(u) => fgSendMutex' = fgSendMutex
    BY <1>2, Finishes DEF Locks, Sending
  <2>3. pc[u] = "flushing" => fg_send_mutex' = fg_send_mutex
    BY <1>4 DEF Locks
  <2> QED BY <1>3, <2>1, <2>2, <2>3 DEF Locks
<1>7. pc'[t] # "idle" => pc'[t] = "flush" /\ fgSendMutex' = fgSendMutex
  BY <1>1, Finishes
<1> QED BY <1>2, <1>3, <1>5, <1>6, <1>7 DEF Locks, Sending

\* A thread that begins or goes on takes a mutex that nobody had.
LEMMA LocksStep ==
  ASSUME ComAssumption, TypeOK, Locks, NEW t \in Thread,
         \/ \E flush_now \in BOOLEAN : SendFrame(t, flush_now)
         \/ BufferFlush(t) \/ Shutdown(t) \/ ReadMode(t) \/ Write(t) \/ Flush(t)
  PROVE  Locks'
<1>1. /\ pc \in [Thread -> {"idle", "mode", "append", "write", "flush", "flushing"}]
      /\ job \in [Thread -> Job] /\ frames \in Nat /\ since \in 0..frames
      /\ Nobody \notin Thread
  BY DEF TypeOK, ComAssumption
<1>2. ASSUME NEW flush_now \in BOOLEAN, SendFrame(t, flush_now) PROVE Locks'
  <2>1. \A u \in Thread : ~Sending(u)
    BY <1>1, <1>2 DEF SendFrame, Locks
  <2> QED BY <1>1, <1>2, <2>1 DEF SendFrame, Goto, Locks, Sending, still, link
<1>3. CASE BufferFlush(t) \/ Shutdown(t)
  BY <1>1, <1>3 DEF BufferFlush, Shutdown, Goto, Locks, Sending, still, link, shared
<1>4. CASE ReadMode(t)
  BY <1>1, <1>4 DEF ReadMode, Goto, Locks, Sending, still, link, shared, bounds
<1>5. CASE Write(t)
  <2>1. /\ pc' = pc /\ \A u \in Thread : job'[u].frame = job[u].frame
        /\ \A u \in Thread \ {t} : job'[u] = job[u]
    BY <1>1, <1>5 DEF Write
  <2> QED BY <1>5, <2>1 DEF Write, Locks, Sending, still, link, shared, bounds
<1>6. CASE Flush(t)
  BY <1>1, <1>6 DEF Flush, Goto, Locks, Sending, still, link, bounds
<1> QED BY <1>2, <1>3, <1>4, <1>5, <1>6

\* The mode, the descriptor and the next link have nothing to do with the locks.
LEMMA LocksLink ==
  ASSUME ComAssumption, TypeOK, Locks,
         \/ \E mode \in {"NORMAL", "BUFFERED"} : raspike_usb_set_mode(mode)
         \/ Stall \/ Resume \/ NextLink
  PROVE  Locks'
<1>1. /\ UNCHANGED <<pc, job, frames, fgSendMutex, fg_send_mutex>>
      /\ since' = since \/ \A t \in Thread : pc[t] = "idle"
  BY Anew DEF NextLink, Reopen, Opened, raspike_usb_set_mode, Stall, Resume, link, shared, bounds
<1> QED BY <1>1 DEF Locks, Sending

-----------------------------------------------------------------------------
(* What is kept. *)

\* The elements of a sequence of bytes are bytes.
LEMMA BytesOf ==
  ASSUME ComAssumption, NEW s \in Seq(Byte), NEW i \in 1..Len(s)
  PROVE  s[i] \in Byte /\ s[i].frame \in Nat /\ s[i].part \in Nat \ {0}
<1>1. s[i] \in Byte
  OBVIOUS
<1> QED BY <1>1 DEF Byte, ComAssumption

\* A byte more, on the wire.
LEMMA Appended ==
  ASSUME NEW s \in Seq(Byte), NEW b \in Byte
  PROVE  /\ Len(Append(s, b)) = Len(s) + 1 /\ Append(s, b)[Len(s) + 1] = b
         /\ \A i \in 1..Len(s) : Append(s, b)[i] = s[i]
         /\ ToSet(Append(s, b)) = ToSet(s) \cup {b}
<1> DEFINE t == Append(s, b)
<1>1. /\ Len(t) = Len(s) + 1 /\ t[Len(s) + 1] = b /\ \A i \in 1..Len(s) : t[i] = s[i]
      /\ DOMAIN t = 1..Len(t) /\ DOMAIN s = 1..Len(s) /\ Len(s) \in Nat
  OBVIOUS
<1> HIDE DEF t
<1>2. 1..(Len(s) + 1) = 1..Len(s) \cup {Len(s) + 1}
  BY <1>1
<1>3. ToSet(t) = ToSet(s) \cup {b}
  BY <1>1, <1>2 DEF ToSet
<1> QED BY <1>1, <1>3 DEF t

\* A frame more, in the buffer.
LEMMA Joined ==
  ASSUME ComAssumption, NEW s \in Seq(Byte), NEW f \in 1..MaxFrames
  PROVE  /\ Len(s \o FrameOf(f)) = Len(s) + FrameSize
         /\ \A i \in 1..Len(s) : (s \o FrameOf(f))[i] = s[i]
         /\ \A i \in 1..(Len(s) + FrameSize) : i > Len(s) =>
              (s \o FrameOf(f))[i] = [frame |-> f, part |-> i - Len(s)]
         /\ ToSet(s) \subseteq ToSet(s \o FrameOf(f))
         /\ \A p \in 1..FrameSize : [frame |-> f, part |-> p] \in ToSet(s \o FrameOf(f))
<1> DEFINE r == FrameOf(f)
           t == s \o r
<1>1. r \in Seq(Byte) /\ Len(r) = FrameSize
  BY FramesAreBytes
<1>2. \A p \in 1..FrameSize : r[p] = [frame |-> f, part |-> p]
  BY DEF FrameOf
<1> HIDE DEF r
<1>3. /\ Len(t) = Len(s) + FrameSize /\ t \in Seq(Byte)
      /\ \A i \in 1..Len(t) : t[i] = IF i <= Len(s) THEN s[i] ELSE r[i - Len(s)]
  BY <1>1
<1> HIDE DEF t
<1>4. Len(s) \in Nat /\ FrameSize \in Nat /\ DOMAIN t = 1..Len(t) /\ DOMAIN s = 1..Len(s)
  BY <1>3 DEF ComAssumption
<1>5. \A i \in 1..Len(s) : i \in DOMAIN t /\ t[i] = s[i]
  BY <1>3, <1>4
<1>6. ASSUME NEW p \in 1..FrameSize
      PROVE  Len(s) + p \in DOMAIN t /\ t[Len(s) + p] = [frame |-> f, part |-> p]
  <2>1. Len(s) + p \in 1..Len(t) /\ ~(Len(s) + p <= Len(s)) /\ Len(s) + p - Len(s) = p
    BY <1>3, <1>4
  <2>2. t[Len(s) + p] = r[p]
    BY <1>3, <2>1
  <2> QED BY <1>2, <1>4, <2>1, <2>2
<1>7. \A i \in 1..(Len(s) + FrameSize) : i > Len(s) =>
        t[i] = [frame |-> f, part |-> i - Len(s)]
  <2> SUFFICES ASSUME NEW i \in 1..(Len(s) + FrameSize), i > Len(s)
               PROVE  t[i] = [frame |-> f, part |-> i - Len(s)]
    OBVIOUS
  <2>1. i - Len(s) \in 1..FrameSize /\ i \in 1..Len(t) /\ ~(i <= Len(s))
    BY <1>3, <1>4
  <2> QED BY <1>2, <1>3, <2>1
<1>8. ToSet(s) \subseteq ToSet(t)
  BY <1>4, <1>5 DEF ToSet
<1>9. \A p \in 1..FrameSize : [frame |-> f, part |-> p] \in ToSet(t)
  BY <1>6 DEF ToSet
<1> QED BY <1>3, <1>5, <1>7, <1>8, <1>9 DEF t, r

\* What a thread writes next.
LEMMA NextByte ==
  ASSUME ComAssumption, TypeOK, Locks, NEW t \in Thread, Write(t)
  PROVE  LET k == job[t].written
         IN  /\ k \in Nat /\ k + 1 \in 1..Len(Source(t))
             /\ Source(t)[k + 1] \in Byte /\ wire' = Append(wire, Source(t)[k + 1])
             /\ pc' = pc /\ fg_send_buffer' = fg_send_buffer
             /\ job'[t].written = k + 1 /\ job'[t].frame = job[t].frame
             /\ \A u \in Thread \ {t} : job'[u] = job[u]
             /\ \A u \in Thread : Source(u)' = Source(u)
<1>1. Source(t) \in Seq(Byte) /\ job \in [Thread -> Job]
  BY SourcesAreBytes DEF Write, Writing, TypeOK
<1>2. job[t].written \in Nat /\ job[t].written < Len(Source(t))
  BY <1>1 DEF Write, Job
<1>3. job[t].written + 1 \in 1..Len(Source(t))
  BY <1>1, <1>2
<1>4. Source(t)[job[t].written + 1] \in Byte
  BY <1>1, <1>3
<1>5. job' = [job EXCEPT ![t] = [job[t] EXCEPT !.written = job[t].written + 1]]
  BY DEF Write
<1>6. /\ job'[t].written = job[t].written + 1 /\ job'[t].frame = job[t].frame
      /\ \A u \in Thread \ {t} : job'[u] = job[u]
  BY <1>1, <1>5 DEF Job
<1>7. pc' = pc /\ fg_send_buffer' = fg_send_buffer
  BY DEF Write, shared
<1>8. \A u \in Thread : Source(u)' = Source(u)
  BY <1>6, <1>7 DEF Source
<1> QED BY <1>2, <1>3, <1>4, <1>6, <1>7, <1>8 DEF Write

\* A thread that appends its frame to the buffer has the last frame, of this link.
LEMMA NextFrame ==
  ASSUME ComAssumption, TypeOK, Locks, NEW t \in Thread, BufferedWrite(t)
  PROVE  /\ job[t].frame \in 1..MaxFrames /\ job[t].frame = frames /\ since < frames
         /\ fg_send_buffer \in Seq(Byte) /\ fg_send_mutex = Nobody
         /\ fg_send_buffer' = fg_send_buffer \o FrameOf(job[t].frame)
         /\ UNCHANGED <<job, wire, frames, since, phase>>
<1>1. job[t].frame \in 0..MaxFrames /\ job[t].frame # 0
  BY DEF TypeOK, Job, Locks, BufferedWrite
<1>2. Sending(t)
  BY <1>1 DEF Sending, BufferedWrite
<1> QED BY <1>1, <1>2 DEF TypeOK, Locks, BufferedWrite, still, link, bounds, ComAssumption

\* The frames of a link stay those that were sent over it.
LEMMA OwnStep ==
  ASSUME ComAssumption, TypeOK, Locks, Own, Greeting, [Next]_vars
  PROVE  Own'
<1> USE ComAssumption
<1>1. fg_send_buffer \in Seq(Byte) /\ wire \in Seq(Byte) /\ frames \in Nat /\ since \in Nat
  BY DEF TypeOK
<1>2. ASSUME NEW t \in Thread, Write(t) PROVE Own'
  <2> DEFINE b == Source(t)[job[t].written + 1]
  <2>1. /\ b \in Byte /\ wire' = Append(wire, b) /\ fg_send_buffer' = fg_send_buffer
        /\ UNCHANGED <<frames, since, phase>>
    BY <1>2, NextByte DEF Write, still, link, bounds
  <2>2. b.frame <= frames /\ (phase = "opening" \/ b.frame > since)
    <3>1. CASE pc[t] = "write"
      <4>1. Sending(t)
        BY <3>1 DEF Sending, Locks
      <4>2. b = [frame |-> job[t].frame, part |-> job[t].written + 1]
        <5>1. job[t].written + 1 \in 1..Len(Source(t)) /\ Source(t) = FrameOf(job[t].frame)
          BY <1>2, <3>1, NextByte DEF Source
        <5>2. Len(Source(t)) = FrameSize
          BY <5>1 DEF FrameOf, ComAssumption
        <5> QED BY <5>1, <5>2 DEF FrameOf
      <4> QED BY <1>1, <4>1, <4>2 DEF Locks
    <3>2. CASE pc[t] # "write"
      BY <1>2, <3>2, NextByte DEF Source, Own
    <3> QED BY <3>1, <3>2
  <2> HIDE DEF b
  <2>3. \A i \in 1..Len(wire') : wire'[i] = b \/ (i \in 1..Len(wire) /\ wire'[i] = wire[i])
    BY <1>1, <2>1, Appended
  <2> QED BY <2>1, <2>2, <2>3 DEF Own
<1>3. ASSUME NEW t \in Thread, BufferedWrite(t) PROVE Own'
  <2>1. /\ job[t].frame \in 1..MaxFrames /\ job[t].frame = frames /\ since < frames
        /\ fg_send_buffer' = fg_send_buffer \o FrameOf(job[t].frame)
        /\ UNCHANGED <<wire, frames, since, phase>>
    BY <1>3, NextFrame
  <2>2. \A i \in 1..Len(fg_send_buffer') : fg_send_buffer'[i].frame = frames
          \/ (i \in 1..Len(fg_send_buffer) /\ fg_send_buffer'[i] = fg_send_buffer[i])
    <3> SUFFICES ASSUME NEW i \in 1..Len(fg_send_buffer'), i > Len(fg_send_buffer)
                 PROVE  fg_send_buffer'[i].frame = frames
      BY <1>1, <2>1, Joined
    <3>1. i \in 1..(Len(fg_send_buffer) + FrameSize)
      BY <1>1, <2>1, Joined
    <3>2. fg_send_buffer'[i] = [frame |-> job[t].frame, part |-> i - Len(fg_send_buffer)]
      BY <1>1, <2>1, <3>1, Joined
    <3> QED BY <2>1, <3>2
  <2> QED BY <1>1, <2>1, <2>2 DEF Own
<1>4. CASE NextLink
  <2>1. phase' = "opening" \/ (phase = "opening" /\ Greeted /\ since' = since)
    BY <1>4 DEF NextLink, Reopen, Opened
  <2>2. phase = "opening" /\ Greeted => fg_send_buffer = <<>>
    BY DEF Greeting, Greeted
  <2> QED BY <1>4, <2>1, <2>2, Anew DEF Own
<1>5. ASSUME UNCHANGED <<wire, since>>, phase' = phase \/ (phase = "open" /\ phase' = "closing"), frames' = frames \/ frames' = frames + 1,
             fg_send_buffer' = fg_send_buffer \/ fg_send_buffer' = <<>>
      PROVE  Own'
  <2>1. /\ \A i \in 1..Len(wire) : wire[i].frame \in Nat
        /\ \A i \in 1..Len(fg_send_buffer) : fg_send_buffer[i].frame \in Nat
    BY <1>1, BytesOf
  <2>2. /\ \A i \in 1..Len(wire) : wire[i].frame <= frames'
        /\ \A i \in 1..Len(fg_send_buffer) : fg_send_buffer[i].frame <= frames'
    BY <1>1, <1>5, <2>1 DEF Own
  <2> QED BY <1>5, <2>2 DEF Own
<1>6. ASSUME NEW t \in Thread, Step(t) PROVE Own'
  <2>1. CASE ReadMode(t) \/ Flush(t) \/ NoBuffers(t) \/ WriteDone(t) \/ WriteFails(t)
             \/ FlushNothing(t) \/ FlushDone(t) \/ FlushFails(t)
    BY <1>5, <2>1 DEF ReadMode, Flush, NoBuffers, WriteDone, WriteFails, FlushNothing,
                      FlushDone, FlushFails, shared, still, link, bounds
  <2> QED BY <1>2, <1>3, <1>6, <2>1 DEF Step
<1>7. ASSUME NEW t \in Thread,
             \/ BufferFlush(t) \/ Shutdown(t)
             \/ \E flush_now \in BOOLEAN : SendFrame(t, flush_now)
      PROVE  Own'
  <2>1. CASE BufferFlush(t)
    BY <1>5, <2>1 DEF BufferFlush, shared, still, link
  <2>2. CASE Shutdown(t)
    BY <1>5, <2>2 DEF Shutdown, shared, bounds
  <2>3. ASSUME NEW flush_now \in BOOLEAN, SendFrame(t, flush_now) PROVE Own'
    BY <1>5, <2>3 DEF SendFrame, still, link
  <2> QED BY <1>7, <2>1, <2>2, <2>3
<1>8. CASE \/ \E mode \in {"NORMAL", "BUFFERED"} : raspike_usb_set_mode(mode)
           \/ Stall \/ Resume \/ UNCHANGED vars
  BY <1>5, <1>8 DEF raspike_usb_set_mode, Stall, Resume, vars, shared, still, link, bounds
<1> QED BY <1>4, <1>6, <1>7, <1>8 DEF Next, NextLink

\* A step of t that takes nothing from what the wire and the buffer hold keeps what was
\* accepted, if it keeps the frame of t.
LEMMA KeepsCall ==
  ASSUME Keeps, NEW t \in Thread,
         ToSet(wire) \subseteq ToSet(wire'),
         ToSet(wire) \cup ToSet(fg_send_buffer)
           \subseteq ToSet(wire') \cup ToSet(fg_send_buffer'),
         \A u \in Thread \ {t} : pc'[u] = pc[u] /\ job'[u] = job[u]
                                 /\ (Writing(u) => Source(u)' = Source(u)),
         accepted' \subseteq accepted \cup {job[t].frame},
         \A f \in accepted' \ accepted : Kept(f)',
         pc'[t] \in {"flush", "flushing"} /\ job'[t].frame # 0 =>
           \A f : f = job'[t].frame => Kept(f)',
         Writing(t)' => \A i \in 1..job'[t].written : Source(t)'[i] \in ToSet(wire')
  PROVE  Keeps'
<1>1. \A f : Kept(f) => Kept(f)'
  BY DEF Kept
<1>2. \A f \in accepted' : Kept(f)'
  BY <1>1 DEF Keeps
<1>3. ASSUME NEW u \in Thread \ {t}
      PROVE  /\ (pc[u] \in {"flush", "flushing"} /\ job[u].frame # 0 => Kept(job[u].frame))'
             /\ (Writing(u) => \A i \in 1..job[u].written : Source(u)[i] \in ToSet(wire))'
  <2>1. pc[u] \in {"flush", "flushing"} /\ job[u].frame # 0 =>
          \A f : f = job[u].frame => Kept(f)'
    BY <1>1 DEF Keeps
  <2>2. (pc[u] \in {"flush", "flushing"} /\ job[u].frame # 0 => Kept(job[u].frame))'
    BY <2>1
  <2>3. (Writing(u) => \A i \in 1..job[u].written : Source(u)[i] \in ToSet(wire))'
    BY DEF Keeps, Writing
  <2> QED BY <2>2, <2>3
<1>4. (pc[t] \in {"flush", "flushing"} /\ job[t].frame # 0 => Kept(job[t].frame))'
  OBVIOUS
<1> QED BY <1>2, <1>3, <1>4 DEF Keeps

\* Writing one byte keeps them.
LEMMA KeepsWrite ==
  ASSUME ComAssumption, TypeOK, Locks, Keeps, NEW t \in Thread, Write(t)
  PROVE  Keeps'
<1> DEFINE k == job[t].written
           b == Source(t)[k + 1]
<1>1. /\ k \in Nat /\ b \in Byte /\ wire' = Append(wire, b) /\ wire \in Seq(Byte)
      /\ pc' = pc /\ fg_send_buffer' = fg_send_buffer
      /\ job'[t].written = k + 1 /\ job'[t].frame = job[t].frame
      /\ \A u \in Thread \ {t} : job'[u] = job[u]
      /\ \A u \in Thread : Source(u)' = Source(u)
  BY NextByte DEF TypeOK
<1>2. Writing(t) /\ accepted' = accepted
  BY DEF Write, Writing, past
<1>3. ToSet(wire') = ToSet(wire) \cup {b}
  BY <1>1, Appended
<1>4. \A i \in 1..job'[t].written : Source(t)'[i] \in ToSet(wire')
  <2>1. \A i \in 1..k : Source(t)[i] \in ToSet(wire)
    BY <1>2 DEF Keeps
  <2>2. \A i \in 1..(k + 1) : i \in 1..k \/ i = k + 1
    BY <1>1
  <2>3. \A i \in 1..(k + 1) : Source(t)[i] \in ToSet(wire')
    BY <1>3, <2>1, <2>2
  <2>4. Source(t)' = Source(t) /\ job'[t].written = k + 1
    BY <1>1
  <2> QED BY <2>3, <2>4
<1>5. \A f : Kept(f) => Kept(f)'
  BY <1>1, <1>3 DEF Kept
<1>6. pc'[t] \in {"flush", "flushing"} /\ job'[t].frame # 0 =>
        \A f : f = job'[t].frame => Kept(f)'
  BY <1>1, <1>5 DEF Keeps
<1> HIDE DEF b
<1> QED BY <1>1, <1>2, <1>3, <1>4, <1>6, KeepsCall

\* So does appending a frame to the buffer, which keeps that frame.
LEMMA KeepsAppend ==
  ASSUME ComAssumption, TypeOK, Locks, Keeps, NEW t \in Thread, BufferedWrite(t)
  PROVE  Keeps'
<1>1. /\ job[t].frame \in 1..MaxFrames /\ fg_send_mutex = Nobody
      /\ fg_send_buffer \in Seq(Byte)
      /\ fg_send_buffer' = fg_send_buffer \o FrameOf(job[t].frame)
      /\ UNCHANGED <<job, wire>>
  BY NextFrame
<1>2. /\ ToSet(fg_send_buffer) \subseteq ToSet(fg_send_buffer')
      /\ \A p \in 1..FrameSize :
           [frame |-> job[t].frame, part |-> p] \in ToSet(fg_send_buffer')
  BY <1>1, Joined
<1>3. \A f : f = job[t].frame => Kept(f)'
  BY <1>2 DEF Kept
<1>4. \A u \in Thread : pc[u] # "flushing"
  BY <1>1 DEF Locks, ComAssumption
<1>5. Finishing(t) /\ pc \in [Thread -> {"idle", "mode", "append", "write", "flush", "flushing"}]
  BY DEF Finishing, TypeOK
<1>6. /\ \A u \in Thread \ {t} : pc'[u] = pc[u]
      /\ pc'[t] \in {"idle", "flush"}
      /\ accepted' \subseteq accepted \cup {job[t].frame}
  BY <1>5, Finishes DEF past
<1>7. \A u \in Thread \ {t} : Writing(u) => Source(u)' = Source(u)
  BY <1>1, <1>4, <1>6 DEF Writing, Source
<1>8. ~Writing(t)'
  BY <1>6 DEF Writing
<1> QED BY <1>1, <1>2, <1>3, <1>6, <1>7, <1>8, KeepsCall

\* So does the end of a flush, because all of the buffer is on the wire then.
LEMMA KeepsFlushed ==
  ASSUME ComAssumption, TypeOK, Locks, Keeps, NEW t \in Thread, FlushDone(t)
  PROVE  Keeps'
<1>1. /\ pc[t] = "flushing" /\ job[t].written = Len(fg_send_buffer)
      /\ fg_send_buffer' = <<>> /\ wire' = wire /\ fg_send_buffer \in Seq(Byte)
  BY DEF FlushDone, TypeOK
<1>2. ToSet(fg_send_buffer) \subseteq ToSet(wire)
  <2>1. Source(t) = fg_send_buffer /\ Writing(t)
    BY <1>1 DEF Source, Writing
  <2>2. \A i \in 1..Len(fg_send_buffer) : fg_send_buffer[i] \in ToSet(wire)
    BY <1>1, <2>1 DEF Keeps
  <2>3. DOMAIN fg_send_buffer = 1..Len(fg_send_buffer)
    BY <1>1
  <2> QED BY <2>2, <2>3 DEF ToSet
<1>3. \A u \in Thread \ {t} : pc[u] # "flushing"
  BY <1>1 DEF Locks
<1>4. Finishing(t) /\ pc \in [Thread -> {"idle", "mode", "append", "write", "flush", "flushing"}]
      /\ job \in [Thread -> Job]
  BY DEF Finishing, TypeOK
<1>5. /\ \A u \in Thread \ {t} : pc'[u] = pc[u] /\ job'[u] = job[u]
      /\ pc'[t] = "idle"
      /\ accepted' \subseteq accepted \cup ({job[t].frame} \ {0})
  <2>1. /\ \A u \in Thread \ {t} : pc'[u] = pc[u] /\ job'[u] = job[u]
        /\ pc'[t] = "idle"
    BY <1>1, <1>4, Finishes
  <2>2. accepted' \subseteq accepted \cup ({job[t].frame} \ {0})
    BY <1>1, <1>4, Finishes DEF past
  <2> QED BY <2>1, <2>2
<1>6. \A u \in Thread \ {t} : Writing(u) => Source(u)' = Source(u)
  BY <1>3, <1>5 DEF Writing, Source
<1>7. \A f : Kept(f) => Kept(f)'
  BY <1>1, <1>2 DEF Kept
<1>8. job[t].frame # 0 => Kept(job[t].frame)
  BY <1>1 DEF Keeps
<1>9. \A f \in accepted' \ accepted : Kept(f)'
  BY <1>5, <1>7, <1>8
<1>10. ~Writing(t)'
  BY <1>5 DEF Writing
<1> QED BY <1>1, <1>2, <1>5, <1>6, <1>9, <1>10, KeepsCall

\* So do the other steps that finish something: a frame is accepted only if it has been
\* written, or if what it was to be flushed with is empty.
LEMMA KeepsFinishing ==
  ASSUME ComAssumption, TypeOK, Locks, Keeps, NEW t \in Thread,
         \/ NoBuffers(t) \/ WriteDone(t) \/ WriteFails(t) \/ FlushNothing(t)
         \/ FlushFails(t)
  PROVE  Keeps'
<1>1. UNCHANGED <<fg_send_buffer, wire>>
  BY DEF NoBuffers, WriteDone, WriteFails, FlushNothing, FlushFails
<1>2. Finishing(t) /\ pc \in [Thread -> {"idle", "mode", "append", "write", "flush", "flushing"}]
      /\ job \in [Thread -> Job]
  BY DEF Finishing, TypeOK
<1>3. /\ \A u \in Thread \ {t} : pc'[u] = pc[u] /\ job'[u] = job[u]
      /\ pc'[t] \in {"idle", "flush"}
      /\ accepted' \subseteq accepted \cup ({job[t].frame} \ {0})
  <2>1. \A u \in Thread \ {t} : pc'[u] = pc[u] /\ job'[u] = job[u]
    BY <1>2, Finishes
  <2>2. pc'[t] \in {"idle", "flush"}
    BY <1>2, Finishes
  <2>3. accepted' \subseteq accepted \cup ({job[t].frame} \ {0})
    BY <1>2, Finishes DEF past
  <2> QED BY <2>1, <2>2, <2>3
<1>4. \A u \in Thread \ {t} : Writing(u) => Source(u)' = Source(u)
  BY <1>1, <1>3 DEF Source
<1>5. \A f : Kept(f) => Kept(f)'
  BY <1>1 DEF Kept
<1>6. WriteDone(t) => Kept(job[t].frame)
  <2> SUFFICES ASSUME WriteDone(t), NEW p \in 1..FrameSize
               PROVE  [frame |-> job[t].frame, part |-> p] \in ToSet(wire)
    BY DEF Kept
  <2>1. Writing(t) /\ Source(t) = FrameOf(job[t].frame) /\ job[t].written = FrameSize
    BY DEF WriteDone, Writing, Source
  <2>2. Source(t)[p] \in ToSet(wire)
    BY <2>1 DEF Keeps
  <2> QED BY <2>1, <2>2 DEF FrameOf
<1>7. accepted' # accepted => WriteDone(t) \/ (pc[t] = "flush" /\ job[t].frame # 0)
  <2>1. NoBuffers(t) \/ WriteFails(t) \/ FlushFails(t) => Return(t, FALSE)
    BY DEF NoBuffers, WriteFails, FlushFails
  <2>2. Return(t, FALSE) => accepted' = accepted
    BY Returns DEF past
  <2>3. FlushNothing(t) => pc[t] = "flush" /\ Return(t, TRUE)
    BY DEF FlushNothing
  <2>4. Return(t, TRUE) /\ job[t].frame = 0 => accepted' = accepted
    BY Returns DEF past
  <2> QED BY <2>1, <2>2, <2>3, <2>4
<1>8. \A f \in accepted' \ accepted : Kept(f)'
  BY <1>3, <1>5, <1>6, <1>7 DEF Keeps
<1>9. pc'[t] = "flush" => \A f : f = job'[t].frame => Kept(f)'
  <2>1. pc'[t] = "flush" => WriteDone(t)
    BY <1>2 DEF NoBuffers, WriteFails, FlushNothing, FlushFails, Return, Goto
  <2>2. WriteDone(t) => job'[t].frame = job[t].frame
    BY <1>2 DEF WriteDone
  <2> QED BY <1>5, <1>6, <2>1, <2>2
<1>10. ~Writing(t)'
  BY <1>3 DEF Writing
<1> QED BY <1>1, <1>3, <1>4, <1>8, <1>9, <1>10, KeepsCall

\* Every step keeps them.
LEMMA KeepsStep ==
  ASSUME ComAssumption, TypeOK, Locks, Keeps, [Next]_vars
  PROVE  Keeps'
<1>1. /\ pc \in [Thread -> {"idle", "mode", "append", "write", "flush", "flushing"}]
      /\ job \in [Thread -> Job]
  BY DEF TypeOK
<1>2. ASSUME NEW t \in Thread,
             \/ \E flush_now \in BOOLEAN : SendFrame(t, flush_now)
             \/ BufferFlush(t) \/ Shutdown(t) \/ ReadMode(t) \/ Flush(t)
      PROVE  Keeps'
  <2>1. UNCHANGED <<fg_send_buffer, wire, accepted>>
    BY <1>2 DEF SendFrame, BufferFlush, Shutdown, ReadMode, Flush, shared, past
  <2>2. \A u \in Thread \ {t} : pc'[u] = pc[u] /\ job'[u] = job[u]
    BY <1>1, <1>2 DEF SendFrame, BufferFlush, Shutdown, ReadMode, Flush, Goto
  <2>3. \A u \in Thread \ {t} : Writing(u) => Source(u)' = Source(u)
    BY <2>1, <2>2 DEF Source
  <2>4. Writing(t)' => job'[t].written = 0
    BY <1>1, <1>2 DEF SendFrame, BufferFlush, Shutdown, ReadMode, Flush, Goto, Writing, Locks
  <2>5. pc'[t] \in {"flush", "flushing"} /\ job'[t].frame # 0 =>
          job'[t].frame = job[t].frame /\ pc[t] = "flush"
    BY <1>1, <1>2 DEF SendFrame, BufferFlush, Shutdown, ReadMode, Flush, Goto
  <2>6. \A f : Kept(f) => Kept(f)'
    BY <2>1 DEF Kept
  <2>7. pc'[t] \in {"flush", "flushing"} /\ job'[t].frame # 0 =>
          \A f : f = job'[t].frame => Kept(f)'
    BY <2>5, <2>6 DEF Keeps
  <2> QED BY <2>1, <2>2, <2>3, <2>4, <2>7, KeepsCall
<1>3. CASE NextLink
  <2>1. accepted' = {} /\ \A t \in Thread : pc'[t] = "idle"
    BY <1>3, Anew
  <2> QED BY <2>1 DEF Keeps, Writing
<1>4. CASE \/ \E mode \in {"NORMAL", "BUFFERED"} : raspike_usb_set_mode(mode)
           \/ Stall \/ Resume \/ UNCHANGED vars
  <2>1. UNCHANGED <<fg_send_buffer, wire, accepted, pc, job>>
    BY <1>4 DEF raspike_usb_set_mode, Stall, Resume, vars, shared, past
  <2> QED BY <2>1 DEF Keeps, Kept, Writing, Source
<1>5. ASSUME NEW t \in Thread, Step(t) PROVE Keeps'
  BY <1>2, <1>5, KeepsWrite, KeepsAppend, KeepsFlushed, KeepsFinishing DEF Step
<1> QED BY <1>2, <1>3, <1>4, <1>5 DEF Next, NextLink

-----------------------------------------------------------------------------
(* What the buffer holds, and what the wire holds of it. *)

\* A frame is in the order of its parts.
LEMMA FramesChained ==
  ASSUME ComAssumption, NEW f \in 1..MaxFrames
  PROVE  Chained(FrameOf(f))
<1>1. Len(FrameOf(f)) = FrameSize
  BY FramesAreBytes
<1> SUFFICES ASSUME NEW i \in 1..FrameSize, FrameOf(f)[i].part > 1
             PROVE  i > 1 /\ FrameOf(f)[i - 1] = [FrameOf(f)[i] EXCEPT !.part = @ - 1]
  BY <1>1 DEF Chained
<1>2. FrameOf(f)[i] = [frame |-> f, part |-> i]
  BY DEF FrameOf
<1>3. i - 1 \in 1..FrameSize
  BY <1>2 DEF ComAssumption
<1>4. FrameOf(f)[i - 1] = [frame |-> f, part |-> i - 1]
  BY <1>3 DEF FrameOf
<1> QED BY <1>2, <1>3, <1>4

\* A frame more in the buffer: it is in order, and the frames stay sorted.
LEMMA BufferedAppend ==
  ASSUME ComAssumption, TypeOK, Locks, Own, Buffered, NEW t \in Thread, BufferedWrite(t)
  PROVE  Buffered'
<1> DEFINE s == fg_send_buffer
           f == job[t].frame
<1>1. /\ f \in 1..MaxFrames /\ f = frames /\ s \in Seq(Byte) /\ s' = s \o FrameOf(f)
      /\ \A i \in 1..Len(s) : s[i].frame <= f
  BY NextFrame DEF Own
<1>2. /\ Len(s') = Len(s) + FrameSize /\ Len(s) \in Nat /\ FrameSize \in Nat
      /\ \A i \in 1..Len(s) : s'[i] = s[i]
      /\ \A i \in 1..Len(s') : i > Len(s) => s'[i] = [frame |-> f, part |-> i - Len(s)]
  <2>1. /\ Len(s \o FrameOf(f)) = Len(s) + FrameSize
        /\ \A i \in 1..Len(s) : (s \o FrameOf(f))[i] = s[i]
        /\ \A i \in 1..(Len(s) + FrameSize) : i > Len(s) =>
             (s \o FrameOf(f))[i] = [frame |-> f, part |-> i - Len(s)]
    BY <1>1, Joined
  <2>2. Len(s) \in Nat /\ FrameSize \in Nat
    BY <1>1 DEF ComAssumption
  <2> QED BY <1>1, <2>1, <2>2
<1> HIDE DEF f
<1>3. Chained(s')
  <2> SUFFICES ASSUME NEW i \in 1..Len(s'), s'[i].part > 1
               PROVE  i > 1 /\ s'[i - 1] = [s'[i] EXCEPT !.part = @ - 1]
    BY DEF Chained
  <2>1. CASE i <= Len(s)
    <3>1. i \in 1..Len(s) /\ s'[i] = s[i]
      BY <1>2, <2>1
    <3>2. i > 1 /\ s[i - 1] = [s[i] EXCEPT !.part = @ - 1]
      BY <3>1 DEF Buffered, Chained
    <3>3. i - 1 \in 1..Len(s)
      BY <3>1, <3>2, <1>2
    <3> QED BY <1>2, <3>1, <3>2, <3>3
  <2>2. CASE i > Len(s)
    <3>1. s'[i] = [frame |-> f, part |-> i - Len(s)]
      BY <1>2, <2>2
    <3>2. i - Len(s) > 1
      BY <3>1
    <3>3. i - 1 \in 1..Len(s') /\ i - 1 > Len(s) /\ i > 1
      BY <1>2, <3>2
    <3>4. s'[i - 1] = [frame |-> f, part |-> (i - 1) - Len(s)]
      BY <1>2, <3>3
    <3>5. (i - 1) - Len(s) = (i - Len(s)) - 1
      BY <1>2
    <3> QED BY <3>1, <3>3, <3>4, <3>5
  <2> QED BY <1>2, <2>1, <2>2
<1>4. Sorted(s')
  <2> SUFFICES ASSUME NEW i \in 1..Len(s'), NEW j \in 1..Len(s'), i < j
               PROVE  s'[i].frame <= s'[j].frame
    BY DEF Sorted
  <2>1. CASE j <= Len(s)
    <3>1. i \in 1..Len(s) /\ j \in 1..Len(s)
      BY <1>2, <2>1
    <3> QED BY <1>2, <3>1 DEF Buffered, Sorted
  <2>2. CASE j > Len(s)
    <3>1. s'[j].frame = f
      BY <1>2, <2>2
    <3>2. s'[i].frame <= f
      <4>1. CASE i <= Len(s)
        <5>1. i \in 1..Len(s)
          BY <1>2, <4>1
        <5> QED BY <1>1, <1>2, <5>1
      <4>2. CASE i > Len(s)
        <5>1. s'[i].frame = f
          BY <1>2, <4>2
        <5> QED BY <1>1, <5>1
      <4> QED BY <1>2, <4>1, <4>2
    <3> QED BY <3>1, <3>2
  <2> QED BY <1>2, <2>1, <2>2
<1> QED BY <1>3, <1>4 DEF Buffered

\* What a step does to the wire and to the buffer, apart from the next link: a write
\* extends the wire, a send in BUFFERED mode the buffer, the end of a flush empties it.
LEMMA Effects ==
  ASSUME [Next]_vars
  PROVE  \/ \E t \in Thread : Write(t) \/ BufferedWrite(t) \/ FlushDone(t)
         \/ NextLink
         \/ UNCHANGED <<wire, fg_send_buffer>>
<1>1. ASSUME NEW t \in Thread, Step(t), ~Write(t), ~BufferedWrite(t), ~FlushDone(t)
      PROVE  UNCHANGED <<wire, fg_send_buffer>>
  BY <1>1 DEF Step, ReadMode, NoBuffers, WriteDone, WriteFails, Flush, FlushNothing,
              FlushFails, shared
<1>2. ASSUME NEW t \in Thread,
             \/ BufferFlush(t) \/ Shutdown(t)
             \/ \E flush_now \in BOOLEAN : SendFrame(t, flush_now)
      PROVE  UNCHANGED <<wire, fg_send_buffer>>
  BY <1>2 DEF BufferFlush, Shutdown, SendFrame, shared
<1>3. CASE \/ \E mode \in {"NORMAL", "BUFFERED"} : raspike_usb_set_mode(mode)
           \/ Stall \/ Resume \/ UNCHANGED vars
  BY <1>3 DEF raspike_usb_set_mode, Stall, Resume, vars, shared
<1> QED BY <1>1, <1>2, <1>3 DEF Next, NextLink

\* The buffer holds frames in their order, after every step.
LEMMA BufferedStep ==
  ASSUME ComAssumption, TypeOK, Locks, Own, Buffered, [Next]_vars
  PROVE  Buffered'
<1>1. ASSUME fg_send_buffer' = <<>> PROVE Buffered'
  BY <1>1 DEF Buffered, Chained, Sorted
<1>2. ASSUME fg_send_buffer' = fg_send_buffer PROVE Buffered'
  BY <1>2 DEF Buffered, Chained, Sorted
<1>3. ASSUME NEW t \in Thread, Write(t) \/ FlushDone(t) PROVE Buffered'
  BY <1>1, <1>2, <1>3 DEF Write, FlushDone, shared
<1>4. CASE NextLink
  BY <1>2, <1>4, Anew
<1> QED BY <1>2, <1>3, <1>4, BufferedAppend, Effects

-----------------------------------------------------------------------------
(* While the mode is not changed with bytes yet to be written. *)

\* A step does not end a disturbance, but the next link does.
LEMMA Disturbing ==
  ASSUME [Next]_vars, ~disturbed' PROVE ~disturbed \/ NextLink
<1>1. ASSUME NEW t \in Thread,
             \/ \E flush_now \in BOOLEAN : SendFrame(t, flush_now)
             \/ BufferFlush(t) \/ Shutdown(t) \/ Step(t)
      PROVE  disturbed' = disturbed
  <2>1. CASE Shutdown(t)
    BY <2>1 DEF Shutdown
  <2>2. CASE ~Shutdown(t)
    BY <1>1, <2>2 DEF SendFrame, BufferFlush, Step, ReadMode, BufferedWrite, NoBuffers, Write,
                      WriteDone, WriteFails, Flush, FlushNothing, FlushDone, FlushFails, still
  <2> QED BY <2>1, <2>2
<1>2. ASSUME NEW mode, raspike_usb_set_mode(mode) PROVE ~disturbed
  BY <1>2 DEF raspike_usb_set_mode
<1>3. CASE Stall \/ Resume \/ UNCHANGED vars
  <2>1. disturbed' = disturbed
    BY <1>3 DEF Stall, Resume, vars, still
  <2> QED BY <2>1
<1> QED BY <1>1, <1>2, <1>3 DEF Next, NextLink

\* The mode decides who may be where, if it is changed only at rest.
LEMMA ModesStep ==
  ASSUME ComAssumption, TypeOK, Modes, [Next]_vars, ~NextLink, ~disturbed'
  PROVE  Modes'
<1>1. /\ pc \in [Thread -> {"idle", "mode", "append", "write", "flush", "flushing"}]
      /\ fg_send_mode \in {"NORMAL", "BUFFERED"}
  BY DEF TypeOK
<1>2. ASSUME NEW t \in Thread, fg_send_mode' = fg_send_mode,
             fg_send_buffer' = fg_send_buffer \/ fg_send_buffer' = <<>>,
             NEW label, pc' = [pc EXCEPT ![t] = label],
             label \in {"idle", "mode", "flush"}
      PROVE  Modes'
  BY <1>1, <1>2 DEF Modes
<1>3. ASSUME NEW t \in Thread,
             \/ BufferFlush(t) \/ Shutdown(t)
             \/ \E flush_now \in BOOLEAN : SendFrame(t, flush_now)
      PROVE  Modes'
  BY <1>2, <1>3 DEF BufferFlush, Shutdown, SendFrame, Goto, shared
<1>4. ASSUME NEW t \in Thread, Step(t) PROVE Modes'
  <2>1. CASE ReadMode(t)
    BY <1>1, <2>1 DEF ReadMode, Goto, shared, Modes
  <2>2. CASE Flush(t)
    BY <1>1, <2>2 DEF Flush, Goto, Modes
  <2>3. CASE Write(t)
    BY <1>1, <2>3 DEF Write, shared, Modes
  <2>4. CASE BufferedWrite(t)
    <3>1. fg_send_mode = "BUFFERED" /\ fg_send_mode' = fg_send_mode
      BY <1>1, <2>4 DEF BufferedWrite, Modes
    <3>2. pc' = [pc EXCEPT ![t] = "idle"] \/ pc' = [pc EXCEPT ![t] = "flush"]
      BY <2>4, Finishes DEF Finishing
    <3> QED BY <1>1, <3>1, <3>2 DEF Modes
  <2>5. CASE Finishing(t) /\ ~BufferedWrite(t)
    <3>1. pc' = [pc EXCEPT ![t] = "idle"] \/ pc' = [pc EXCEPT ![t] = "flush"]
      BY <2>5, Finishes
    <3>2. /\ fg_send_mode' = fg_send_mode
          /\ fg_send_buffer' = fg_send_buffer \/ fg_send_buffer' = <<>>
      BY <2>5 DEF Finishing, NoBuffers, WriteDone, WriteFails, FlushNothing, FlushDone,
                  FlushFails
    <3> QED BY <1>2, <3>1, <3>2
  <2> QED BY <1>4, <2>1, <2>2, <2>3, <2>4, <2>5 DEF Step, Finishing
<1>5. ASSUME NEW mode \in {"NORMAL", "BUFFERED"}, raspike_usb_set_mode(mode) PROVE Modes'
  <2>1. mode = fg_send_mode \/ AtRest
    BY <1>5 DEF raspike_usb_set_mode
  <2>2. fg_send_mode' = mode /\ UNCHANGED <<fg_send_buffer, pc>>
    BY <1>5 DEF raspike_usb_set_mode
  <2> QED BY <2>1, <2>2 DEF AtRest, Modes
<1>6. CASE Stall \/ Resume \/ UNCHANGED vars
  BY <1>6 DEF Stall, Resume, vars, shared, Modes
<1> QED BY <1>3, <1>4, <1>5, <1>6 DEF Next, NextLink

\* Then only one thread writes at a time.
LEMMA OneWriter ==
  ASSUME ComAssumption, TypeOK, Locks, Modes,
         NEW t \in Thread, NEW u \in Thread, Writing(t), Writing(u)
  PROVE  t = u
<1>1. fg_send_mode \in {"NORMAL", "BUFFERED"}
  BY DEF TypeOK
<1>2. pc[t] = pc[u]
  BY <1>1 DEF Modes, Writing
<1>3. CASE pc[t] = "write"
  BY <1>2, <1>3 DEF Locks, Sending
<1>4. CASE pc[t] = "flushing"
  BY <1>2, <1>4 DEF Locks
<1> QED BY <1>3, <1>4 DEF Writing

\* Whoever is writing after a step that writes nothing was writing the same before, or is
\* at its start.
LEMMA Writers ==
  ASSUME ComAssumption, TypeOK, Locks, [Next]_vars, ~NextLink, NEW u \in Thread, Writing(u)',
         \A t \in Thread : ~Write(t)
  PROVE  \/ Writing(u) /\ job'[u].written = job[u].written /\ Source(u)' = Source(u)
         \/ job'[u].written = 0
<1>1. /\ pc \in [Thread -> {"idle", "mode", "append", "write", "flush", "flushing"}]
      /\ job \in [Thread -> Job]
  BY DEF TypeOK
<1>2. ASSUME NEW t \in Thread,
             \/ \E flush_now \in BOOLEAN : SendFrame(t, flush_now)
             \/ BufferFlush(t) \/ Shutdown(t) \/ ReadMode(t) \/ Flush(t)
      PROVE  \/ Writing(u) /\ job'[u].written = job[u].written /\ Source(u)' = Source(u)
             \/ job'[u].written = 0
  <2>1. fg_send_buffer' = fg_send_buffer
    BY <1>2 DEF SendFrame, BufferFlush, Shutdown, ReadMode, Flush, shared
  <2>2. CASE u # t
    <3>1. pc'[u] = pc[u] /\ job'[u] = job[u]
      BY <1>1, <1>2, <2>2 DEF SendFrame, BufferFlush, Shutdown, ReadMode, Flush, Goto
    <3> QED BY <2>1, <3>1 DEF Writing, Source
  <2>3. CASE u = t
    BY <1>1, <1>2, <2>3 DEF SendFrame, BufferFlush, Shutdown, ReadMode, Flush, Goto, Writing, Locks
  <2> QED BY <2>2, <2>3
<1>3. ASSUME NEW t \in Thread, Finishing(t)
      PROVE  Writing(u) /\ job'[u].written = job[u].written /\ Source(u)' = Source(u)
  <2>1. pc'[t] \in {"idle", "flush"}
    BY <1>1, <1>3, Finishes
  <2>2. u # t
    BY <2>1 DEF Writing
  <2>3. pc'[u] = pc[u] /\ job'[u] = job[u]
    BY <1>1, <1>3, <2>2, Finishes
  <2>4. fg_send_buffer' = fg_send_buffer \/ pc[u] # "flushing"
    <3>1. CASE BufferedWrite(t)
      BY <3>1 DEF BufferedWrite, Locks, ComAssumption
    <3>2. CASE FlushDone(t)
      BY <2>2, <3>2 DEF FlushDone, Locks
    <3>3. CASE ~BufferedWrite(t) /\ ~FlushDone(t)
      BY <1>3, <3>3 DEF Finishing, NoBuffers, WriteDone, WriteFails, FlushNothing, FlushFails
    <3> QED BY <3>1, <3>2, <3>3
  <2> QED BY <2>3, <2>4 DEF Writing, Source
<1>4. CASE \/ \E mode \in {"NORMAL", "BUFFERED"} : raspike_usb_set_mode(mode)
           \/ Stall \/ Resume \/ UNCHANGED vars
  <2>1. UNCHANGED <<fg_send_buffer, pc, job>>
    BY <1>4 DEF raspike_usb_set_mode, Stall, Resume, vars, shared
  <2> QED BY <2>1 DEF Writing, Source
<1> QED BY <1>2, <1>3, <1>4 DEF Next, NextLink, Step, Finishing

\* What a thread has written is what came last on the wire.
LEMMA WrittenStep ==
  ASSUME ComAssumption, TypeOK, Locks, Modes, Written, [Next]_vars
  PROVE  Written'
<1>1. wire \in Seq(Byte) /\ job \in [Thread -> Job] /\ Len(wire) \in Nat
  BY DEF TypeOK
<1>2. ASSUME NEW t \in Thread, Write(t) PROVE Written'
  <2> DEFINE k == job[t].written
             b == Source(t)[k + 1]
             n == Len(wire)
  <2>1. /\ k \in Nat /\ b \in Byte /\ wire' = Append(wire, b) /\ pc' = pc
        /\ job'[t].written = k + 1 /\ \A u \in Thread : Source(u)' = Source(u)
    BY <1>2, NextByte
  <2>2. Writing(t) /\ \A u \in Thread : Writing(u)' => Writing(u)
    BY <1>2, <2>1 DEF Writing, Write
  <2>3. \A u \in Thread : Writing(u)' => u = t
    BY <2>2, OneWriter
  <2>4. k <= n /\ \A i \in 1..k : wire[n - k + i] = Source(t)[i]
    BY <2>2 DEF Written
  <2> HIDE DEF b
  <2>5. /\ Len(wire') = n + 1 /\ wire'[n + 1] = b
        /\ \A i \in 1..n : wire'[i] = wire[i]
    BY <1>1, <2>1, Appended
  <2>6. job'[t].written <= Len(wire')
    BY <1>1, <2>1, <2>4, <2>5
  <2>7. ASSUME NEW i \in 1..(k + 1)
        PROVE  wire'[Len(wire') - job'[t].written + i] = Source(t)[i]
    <3>1. Len(wire') - job'[t].written + i = n - k + i
      <4>1. Len(wire') = n + 1 /\ job'[t].written = k + 1 /\ n \in Nat /\ k \in Nat
        BY <1>1, <2>1, <2>5
      <4> HIDE DEF n, k
      <4> QED BY <4>1
    <3>2. CASE i = k + 1
      <4>1. n - k + i = n + 1
        BY <1>1, <2>1, <3>2
      <4> QED BY <2>5, <3>1, <3>2, <4>1 DEF b
    <3>3. CASE i # k + 1
      <4>1. i \in 1..k /\ n - k + i \in 1..n
        BY <1>1, <2>1, <2>4, <3>3
      <4> QED BY <2>4, <2>5, <3>1, <4>1
    <3> QED BY <3>2, <3>3
  <2>8. /\ job'[t].written <= Len(wire')
        /\ \A i \in 1..job'[t].written :
             wire'[Len(wire') - job'[t].written + i] = Source(t)'[i]
    BY <2>1, <2>6, <2>7
  <2> QED BY <2>3, <2>8 DEF Written
<1>3. CASE NextLink
  BY <1>3, Anew DEF Written, Writing
<1>4. CASE ~NextLink /\ \A t \in Thread : ~Write(t)
  <2>1. wire' = wire
    BY <1>4, Effects DEF BufferedWrite, FlushDone
  <2>2. ASSUME NEW u \in Thread, Writing(u)'
        PROVE  /\ job'[u].written <= Len(wire)
               /\ \A i \in 1..job'[u].written :
                    wire[Len(wire) - job'[u].written + i] = Source(u)'[i]
    <3>1. CASE Writing(u) /\ job'[u].written = job[u].written /\ Source(u)' = Source(u)
      BY <3>1 DEF Written
    <3>2. CASE job'[u].written = 0
      BY <1>1, <3>2
    <3> QED BY <1>4, <2>2, <3>1, <3>2, Writers
  <2> QED BY <2>1, <2>2 DEF Written
<1> QED BY <1>2, <1>3, <1>4

\* On the wire every part of a frame follows the part before it.
LEMMA ChainedStep ==
  ASSUME ComAssumption, TypeOK, Locks, Buffered, Written, Chained(wire), [Next]_vars
  PROVE  Chained(wire')
<1>1. wire \in Seq(Byte) /\ job \in [Thread -> Job] /\ Len(wire) \in Nat
  BY DEF TypeOK
<1>2. ASSUME NEW t \in Thread, Write(t) PROVE Chained(wire')
  <2> DEFINE k == job[t].written
             s == Source(t)
             n == Len(wire)
  <2>1. /\ k \in Nat /\ k + 1 \in 1..Len(s) /\ s[k + 1] \in Byte
        /\ wire' = Append(wire, s[k + 1])
    BY <1>2, NextByte
  <2>2. Chained(s)
    <3>1. CASE pc[t] = "write"
      <4>1. job[t].frame \in 1..MaxFrames
        BY <3>1 DEF TypeOK, Job, Locks, ComAssumption
      <4> QED BY <3>1, <4>1, FramesChained DEF Source
    <3>2. CASE pc[t] # "write"
      BY <3>2 DEF Source, Buffered
    <3> QED BY <3>1, <3>2
  <2>3. k <= n /\ \A i \in 1..k : wire[n - k + i] = s[i]
    BY <1>2 DEF Written, Writing, Write
  <2> HIDE DEF s
  <2>4. /\ Len(wire') = n + 1 /\ wire'[n + 1] = s[k + 1]
        /\ \A i \in 1..n : wire'[i] = wire[i]
    BY <1>1, <2>1, Appended
  <2> SUFFICES ASSUME NEW i \in 1..Len(wire'), wire'[i].part > 1
               PROVE  i > 1 /\ wire'[i - 1] = [wire'[i] EXCEPT !.part = @ - 1]
    BY DEF Chained
  <2>5. CASE i = n + 1
    <3>1. k + 1 > 1 /\ s[(k + 1) - 1] = [s[k + 1] EXCEPT !.part = @ - 1]
      BY <2>1, <2>2, <2>4, <2>5 DEF Chained
    <3>2. k \in Nat \ {0} /\ n \in Nat /\ k <= n
      BY <1>1, <2>1, <2>3, <3>1
    <3>3. (k + 1) - 1 = k /\ k \in 1..k /\ n - k + k = n /\ n \in 1..n /\ i - 1 = n /\ i > 1
      BY <2>5, <3>2
    <3>4. wire'[n] = s[k]
      BY <2>3, <2>4, <3>3
    <3> QED BY <2>4, <2>5, <3>1, <3>3, <3>4
  <2>6. CASE i # n + 1
    <3>1. i \in 1..n /\ wire'[i] = wire[i]
      BY <1>1, <2>4, <2>6
    <3>2. i > 1 /\ wire[i - 1] = [wire[i] EXCEPT !.part = @ - 1]
      BY <3>1 DEF Chained
    <3>3. i - 1 \in 1..n
      BY <1>1, <3>1, <3>2
    <3> QED BY <2>4, <3>1, <3>2, <3>3
  <2> QED BY <2>5, <2>6
<1>3. CASE NextLink
  BY <1>3, Anew DEF Chained
<1>4. CASE wire' = wire
  BY <1>4
<1> QED BY <1>2, <1>3, <1>4, Effects DEF BufferedWrite, FlushDone

-----------------------------------------------------------------------------
(* Whole frames. *)

\* A frame that is whole in a sequence is whole, at its place, in what extends it.
LEMMA Extended ==
  ASSUME ComAssumption, NEW s \in Seq(Byte), NEW r \in Seq(Byte), Len(s) <= Len(r),
         \A i \in 1..Len(s) : r[i] = s[i], NEW f
  PROVE  /\ \A m \in 1..Len(s) : HoldsAt(s, f, m) => HoldsAt(r, f, m)
         /\ Holds(s, f) => Holds(r, f)
<1>1. FrameSize \in Nat \ {0} /\ Len(s) \in Nat /\ Len(r) \in Nat
  BY DEF ComAssumption
<1>2. ASSUME NEW m \in 1..Len(s), HoldsAt(s, f, m) PROVE HoldsAt(r, f, m)
  <2>1. m + FrameSize - 1 <= Len(r)
    BY <1>1, <1>2 DEF HoldsAt
  <2>2. ASSUME NEW p \in 1..FrameSize PROVE r[m + p - 1] = [frame |-> f, part |-> p]
    <3>1. m + p - 1 \in 1..Len(s)
      BY <1>1, <1>2 DEF HoldsAt
    <3> QED BY <1>2, <3>1 DEF HoldsAt
  <2> QED BY <2>1, <2>2 DEF HoldsAt
<1>3. 1..Len(s) \subseteq 1..Len(r)
  BY <1>1
<1> QED BY <1>2, <1>3 DEF Holds

\* A step of t that loses no frame keeps them whole, if it keeps that of t.
LEMMA WholeCall ==
  ASSUME Whole, NEW t \in Thread,
         \A f : Safe(f) => Safe(f)', \A f : Holds(wire, f) => Holds(wire', f),
         \A u \in Thread \ {t} : pc'[u] = pc[u] /\ job'[u] = job[u],
         \A f \in accepted' \ accepted : Safe(f)',
         \A f \in urgent' \ urgent : Holds(wire', f),
         pc'[t] \in {"flush", "flushing"} /\ job'[t].frame # 0 =>
           \A f : f = job'[t].frame => Safe(f)'
  PROVE  Whole'
<1>1. \A f \in accepted' : Safe(f)'
  BY DEF Whole
<1>2. \A f \in urgent' : Holds(wire', f)
  BY DEF Whole
<1>3. ASSUME NEW u \in Thread
      PROVE  (pc[u] \in {"flush", "flushing"} /\ job[u].frame # 0 => Safe(job[u].frame))'
  <2>1. CASE u = t
    BY <2>1
  <2>2. CASE u # t
    <3>1. pc[u] \in {"flush", "flushing"} /\ job[u].frame # 0 =>
            \A f : f = job[u].frame => Safe(f)'
      BY DEF Whole
    <3> QED BY <2>2, <3>1
  <2> QED BY <2>1, <2>2
<1> QED BY <1>1, <1>2, <1>3 DEF Whole

\* Writing one byte does.
LEMMA WholeWrite ==
  ASSUME ComAssumption, TypeOK, Locks, Whole, NEW t \in Thread, Write(t)
  PROVE  Whole'
<1> DEFINE b == Source(t)[job[t].written + 1]
<1>1. /\ b \in Byte /\ wire' = Append(wire, b) /\ wire \in Seq(Byte)
      /\ pc' = pc /\ fg_send_buffer' = fg_send_buffer /\ job'[t].frame = job[t].frame
      /\ \A u \in Thread \ {t} : job'[u] = job[u]
  BY NextByte DEF TypeOK
<1>2. accepted' = accepted /\ urgent' = urgent
  BY DEF Write, past
<1> HIDE DEF b
<1>3. /\ wire' \in Seq(Byte) /\ Len(wire) <= Len(wire')
      /\ \A i \in 1..Len(wire) : wire'[i] = wire[i]
  BY <1>1
<1>4. \A f : Holds(wire, f) => Holds(wire', f)
  BY <1>1, <1>3, Extended
<1>5. \A f : Safe(f) => Safe(f)'
  BY <1>1, <1>4 DEF Safe
<1>6. pc'[t] \in {"flush", "flushing"} /\ job'[t].frame # 0 =>
        \A f : f = job'[t].frame => Safe(f)'
  BY <1>1, <1>5 DEF Whole
<1> QED BY <1>1, <1>2, <1>4, <1>5, <1>6, WholeCall

\* So does appending a frame to the buffer, which is whole there.
LEMMA WholeAppend ==
  ASSUME ComAssumption, TypeOK, Locks, Whole, NEW t \in Thread, BufferedWrite(t)
  PROVE  Whole'
<1> DEFINE s == fg_send_buffer
           r == s \o FrameOf(job[t].frame)
<1>1. /\ job[t].frame \in 1..MaxFrames /\ s \in Seq(Byte) /\ fg_send_buffer' = r
      /\ UNCHANGED <<job, wire>>
  BY NextFrame
<1>2. /\ r \in Seq(Byte) /\ Len(s) \in Nat /\ FrameSize \in Nat \ {0}
      /\ Len(r) = Len(s) + FrameSize /\ \A i \in 1..Len(s) : r[i] = s[i]
      /\ \A i \in 1..(Len(s) + FrameSize) : i > Len(s) =>
           r[i] = [frame |-> job[t].frame, part |-> i - Len(s)]
  <2>1. FrameOf(job[t].frame) \in Seq(Byte)
    BY <1>1, FramesAreBytes
  <2>2. r \in Seq(Byte) /\ Len(s) \in Nat /\ FrameSize \in Nat \ {0}
    BY <1>1, <2>1 DEF ComAssumption
  <2>3. /\ Len(r) = Len(s) + FrameSize /\ \A i \in 1..Len(s) : r[i] = s[i]
        /\ \A i \in 1..(Len(s) + FrameSize) : i > Len(s) =>
             r[i] = [frame |-> job[t].frame, part |-> i - Len(s)]
    BY <1>1, Joined
  <2> QED BY <2>2, <2>3
<1> HIDE DEF r
<1>3. \A f : Holds(s, f) => Holds(r, f)
  <2>1. Len(s) <= Len(r)
    BY <1>2
  <2> QED BY <1>1, <1>2, <2>1, Extended
<1>4. \A f : Safe(f) => Safe(f)'
  BY <1>1, <1>3 DEF Safe
<1>5. Holds(r, job[t].frame)
  <2>1. ASSUME NEW p \in 1..FrameSize
        PROVE  r[(Len(s) + 1) + p - 1] = [frame |-> job[t].frame, part |-> p]
    <3>1. /\ (Len(s) + 1) + p - 1 \in 1..(Len(s) + FrameSize)
          /\ (Len(s) + 1) + p - 1 > Len(s) /\ ((Len(s) + 1) + p - 1) - Len(s) = p
      BY <1>2
    <3> QED BY <1>2, <3>1
  <2>2. Len(s) + 1 \in 1..Len(r) /\ (Len(s) + 1) + FrameSize - 1 <= Len(r)
    BY <1>2
  <2> QED BY <2>1, <2>2 DEF Holds, HoldsAt
<1>6. \A f : f = job[t].frame => Safe(f)'
  BY <1>1, <1>5 DEF Safe
<1>7. Finishing(t) /\ pc \in [Thread -> {"idle", "mode", "append", "write", "flush", "flushing"}]
  BY DEF Finishing, TypeOK
<1>8. /\ \A u \in Thread \ {t} : pc'[u] = pc[u] /\ job'[u] = job[u]
      /\ accepted' \subseteq accepted \cup {job[t].frame}
  BY <1>1, <1>7, Finishes DEF past
<1>9. urgent' = urgent
  BY Returns DEF BufferedWrite, Sent, past
<1> QED BY <1>1, <1>4, <1>6, <1>8, <1>9, WholeCall

\* So does the end of a flush: the buffer is what came last on the wire.
LEMMA WholeFlushed ==
  ASSUME ComAssumption, TypeOK, Locks, Written, Whole, NEW t \in Thread, FlushDone(t)
  PROVE  Whole'
<1> DEFINE n == Len(wire)
           k == Len(fg_send_buffer)
<1>1. /\ pc[t] = "flushing" /\ job[t].written = k
      /\ fg_send_buffer' = <<>> /\ wire' = wire
      /\ n \in Nat /\ k \in Nat /\ FrameSize \in Nat \ {0}
  BY DEF FlushDone, TypeOK, ComAssumption
<1>2. k <= n /\ \A i \in 1..k : wire[n - k + i] = fg_send_buffer[i]
  <2>1. Writing(t) /\ Source(t) = fg_send_buffer
    BY <1>1 DEF Writing, Source
  <2> QED BY <1>1, <2>1 DEF Written
<1> HIDE DEF n, k
<1>3. ASSUME NEW f, Holds(fg_send_buffer, f) PROVE Holds(wire, f)
  <2>1. PICK m \in 1..k : HoldsAt(fg_send_buffer, f, m)
    BY <1>3 DEF Holds, k
  <2>2. m + FrameSize - 1 <= k
    BY <2>1 DEF HoldsAt, k
  <2>3. n - k + m \in 1..n /\ (n - k + m) + FrameSize - 1 <= n
    BY <1>1, <1>2, <2>2
  <2>4. ASSUME NEW p \in 1..FrameSize
        PROVE  wire[(n - k + m) + p - 1] = [frame |-> f, part |-> p]
    <3>1. m + p - 1 \in 1..k /\ (n - k + m) + p - 1 = n - k + (m + p - 1)
      BY <1>1, <2>2
    <3> QED BY <1>2, <2>1, <3>1 DEF HoldsAt
  <2> QED BY <2>3, <2>4 DEF Holds, HoldsAt, n
<1>4. \A f : Safe(f) => Holds(wire', f) /\ Safe(f)'
  BY <1>1, <1>3 DEF Safe
<1>5. Finishing(t) /\ pc \in [Thread -> {"idle", "mode", "append", "write", "flush", "flushing"}]
      /\ job \in [Thread -> Job]
  BY DEF Finishing, TypeOK
<1>6. \A u \in Thread \ {t} : pc'[u] = pc[u] /\ job'[u] = job[u]
  BY <1>5, Finishes
<1>7. pc'[t] = "idle"
  BY <1>1, <1>5, Finishes
<1>8. /\ accepted' \subseteq accepted \cup ({job[t].frame} \ {0})
      /\ urgent' \subseteq urgent \cup ({job[t].frame} \ {0})
  BY <1>1, <1>5, Finishes DEF past
<1>9. job[t].frame # 0 => Safe(job[t].frame)
  BY <1>1 DEF Whole
<1>10. /\ \A f \in accepted' \ accepted : Safe(f)'
       /\ \A f \in urgent' \ urgent : Holds(wire', f)
  BY <1>4, <1>8, <1>9
<1>11. \A f : Holds(wire, f) => Holds(wire', f)
  BY <1>1
<1> QED BY <1>4, <1>6, <1>7, <1>10, <1>11, WholeCall

\* So do the other steps that finish something: what has been written is whole on the
\* wire, and what was buffered before an empty buffer is found is there, too.
LEMMA WholeFinishing ==
  ASSUME ComAssumption, TypeOK, Locks, Written, Whole, NEW t \in Thread,
         \/ NoBuffers(t) \/ WriteDone(t) \/ WriteFails(t) \/ FlushNothing(t)
         \/ FlushFails(t)
  PROVE  Whole'
<1>1. UNCHANGED <<fg_send_buffer, wire>>
  BY DEF NoBuffers, WriteDone, WriteFails, FlushNothing, FlushFails
<1>2. Finishing(t) /\ pc \in [Thread -> {"idle", "mode", "append", "write", "flush", "flushing"}]
      /\ job \in [Thread -> Job] /\ Len(wire) \in Nat /\ FrameSize \in Nat \ {0}
  BY DEF Finishing, TypeOK, ComAssumption
<1>3. \A u \in Thread \ {t} : pc'[u] = pc[u] /\ job'[u] = job[u]
  BY <1>2, Finishes
<1>4. /\ accepted' \subseteq accepted \cup ({job[t].frame} \ {0})
      /\ urgent' \subseteq urgent \cup ({job[t].frame} \ {0})
  BY <1>2, Finishes DEF past
<1>5. (\A f : Safe(f) => Safe(f)') /\ (\A f : Holds(wire, f) => Holds(wire', f))
  BY <1>1 DEF Safe
<1>6. WriteDone(t) => Holds(wire, job[t].frame)
  <2> SUFFICES ASSUME WriteDone(t) PROVE Holds(wire, job[t].frame)
    OBVIOUS
  <2> DEFINE n == Len(wire)
             m == n - FrameSize + 1
  <2>1. Writing(t) /\ Source(t) = FrameOf(job[t].frame) /\ job[t].written = FrameSize
    BY DEF WriteDone, Writing, Source
  <2>2. FrameSize <= n /\ \A i \in 1..FrameSize : wire[n - FrameSize + i] = FrameOf(job[t].frame)[i]
    BY <2>1 DEF Written
  <2> HIDE DEF n
  <2>3. m \in 1..n /\ m + FrameSize - 1 <= n
    BY <1>2, <2>2 DEF n
  <2>4. ASSUME NEW p \in 1..FrameSize
        PROVE  wire[m + p - 1] = [frame |-> job[t].frame, part |-> p]
    <3>1. m + p - 1 = n - FrameSize + p
      BY <1>2 DEF n
    <3> QED BY <2>2, <3>1 DEF FrameOf
  <2> QED BY <2>3, <2>4 DEF Holds, HoldsAt, n
<1>7. FlushNothing(t) /\ job[t].frame # 0 => Holds(wire, job[t].frame)
  <2>1. FlushNothing(t) => pc[t] = "flush" /\ ~Holds(fg_send_buffer, job[t].frame)
    BY DEF FlushNothing, Holds
  <2> QED BY <2>1 DEF Whole, Safe
<1>8. ~WriteDone(t) /\ ~FlushNothing(t) => UNCHANGED past
  BY Returns DEF NoBuffers, WriteFails, FlushFails
<1>9. /\ \A f \in accepted' \ accepted : Safe(f)'
      /\ \A f \in urgent' \ urgent : Holds(wire', f)
  BY <1>1, <1>4, <1>6, <1>7, <1>8 DEF Safe, past
<1>10. pc'[t] \notin {"flush", "flushing"} \/ (WriteDone(t) /\ job'[t].frame = job[t].frame)
  <2>1. WriteDone(t) => job'[t].frame = job[t].frame
    BY <1>2 DEF WriteDone
  <2>2. WriteDone(t) \/ pc'[t] = "idle"
    BY <1>2 DEF NoBuffers, WriteFails, FlushNothing, FlushFails, Return, Goto
  <2> QED BY <2>1, <2>2
<1>11. pc'[t] \in {"flush", "flushing"} /\ job'[t].frame # 0 =>
         \A f : f = job'[t].frame => Safe(f)'
  BY <1>1, <1>6, <1>10 DEF Safe
<1> QED BY <1>3, <1>5, <1>9, <1>11, WholeCall

\* Every step does.
LEMMA WholeStep ==
  ASSUME ComAssumption, TypeOK, Locks, Written, Whole, [Next]_vars
  PROVE  Whole'
<1>1. /\ pc \in [Thread -> {"idle", "mode", "append", "write", "flush", "flushing"}]
      /\ job \in [Thread -> Job]
  BY DEF TypeOK
<1>2. ASSUME NEW t \in Thread,
             \/ \E flush_now \in BOOLEAN : SendFrame(t, flush_now)
             \/ BufferFlush(t) \/ Shutdown(t) \/ ReadMode(t) \/ Flush(t)
      PROVE  Whole'
  <2>1. UNCHANGED <<fg_send_buffer, wire, accepted, urgent>>
    BY <1>2 DEF SendFrame, BufferFlush, Shutdown, ReadMode, Flush, shared, past
  <2>2. \A u \in Thread \ {t} : pc'[u] = pc[u] /\ job'[u] = job[u]
    BY <1>1, <1>2 DEF SendFrame, BufferFlush, Shutdown, ReadMode, Flush, Goto
  <2>3. (\A f : Safe(f) => Safe(f)') /\ (\A f : Holds(wire, f) => Holds(wire', f))
    BY <2>1 DEF Safe
  <2>4. pc'[t] \in {"flush", "flushing"} /\ job'[t].frame # 0 =>
          job'[t].frame = job[t].frame /\ pc[t] = "flush"
    BY <1>1, <1>2 DEF SendFrame, BufferFlush, Shutdown, ReadMode, Flush, Goto
  <2>5. pc'[t] \in {"flush", "flushing"} /\ job'[t].frame # 0 =>
          \A f : f = job'[t].frame => Safe(f)'
    BY <2>3, <2>4 DEF Whole
  <2> QED BY <2>1, <2>2, <2>3, <2>5, WholeCall
<1>3. CASE NextLink
  <2>1. accepted' = {} /\ urgent' = {} /\ \A t \in Thread : pc'[t] = "idle"
    BY <1>3, Anew
  <2> QED BY <2>1 DEF Whole
<1>4. CASE \/ \E mode \in {"NORMAL", "BUFFERED"} : raspike_usb_set_mode(mode)
           \/ Stall \/ Resume \/ UNCHANGED vars
  <2>1. UNCHANGED <<fg_send_buffer, wire, accepted, urgent, pc, job>>
    BY <1>4 DEF raspike_usb_set_mode, Stall, Resume, vars, shared, past
  <2> QED BY <2>1 DEF Whole, Safe
<1>5. ASSUME NEW t \in Thread, Step(t) PROVE Whole'
  BY <1>2, <1>5, WholeWrite, WholeAppend, WholeFlushed, WholeFinishing DEF Step
<1> QED BY <1>2, <1>3, <1>4, <1>5 DEF Next, NextLink

-----------------------------------------------------------------------------
(* Order. *)

\* Only the last frame that was begun is ever accepted.
LEMMA AcceptedIsLast ==
  ASSUME ComAssumption, TypeOK, Locks, [Next]_vars, NEW f \in accepted' \ accepted
  PROVE  f = frames
<1>1. ASSUME NEW t \in Thread, Finishing(t) PROVE f = frames
  <2>1. f = job[t].frame /\ f # 0
    BY <1>1, Finishes DEF past
  <2>2. Sending(t)
    BY <1>1, <2>1 DEF Sending, Finishing, BufferedWrite, NoBuffers, WriteDone, WriteFails,
                      FlushNothing, FlushDone, FlushFails
  <2> QED BY <2>1, <2>2 DEF Locks
<1>2. ASSUME NEW t \in Thread,
             \/ \E flush_now \in BOOLEAN : SendFrame(t, flush_now)
             \/ BufferFlush(t) \/ Shutdown(t) \/ ReadMode(t) \/ Write(t) \/ Flush(t)
      PROVE  accepted' = accepted
  BY <1>2 DEF SendFrame, BufferFlush, Shutdown, ReadMode, Write, Flush, past
<1>3. CASE NextLink
  BY <1>3, Anew
<1>4. CASE \/ \E mode \in {"NORMAL", "BUFFERED"} : raspike_usb_set_mode(mode)
           \/ Stall \/ Resume \/ UNCHANGED vars
  BY <1>4 DEF raspike_usb_set_mode, Stall, Resume, vars, past
<1> QED BY <1>1, <1>2, <1>3, <1>4 DEF Next, NextLink, Step, Finishing

\* When the last INIT was sent without an error, its flush has emptied the buffer.
LEMMA GreetingStep ==
  ASSUME ComAssumption, TypeOK, Locks, Greeting, [Next]_vars
  PROVE  Greeting'
<1>1. /\ pc \in [Thread -> {"idle", "mode", "append", "write", "flush", "flushing"}]
      /\ job \in [Thread -> Job] /\ frames \in Nat /\ urgent \subseteq accepted
      /\ accepted \subseteq Nat /\ Nobody \notin Thread
  BY DEF TypeOK, ComAssumption
<1>2. ASSUME NEW t \in Thread, NEW flush_now \in BOOLEAN, SendFrame(t, flush_now)
      PROVE  Greeting'
  <2>1. frames' = frames + 1 /\ UNCHANGED <<phase, accepted, urgent, fg_send_buffer>>
    BY <1>2 DEF SendFrame, still, link, past
  <2>2. \A f \in accepted : f <= frames' /\ f # frames'
    BY <1>1, <2>1 DEF Greeting
  <2>3. frames' \notin urgent
    BY <1>1, <2>2
  <2>4. phase = "opening" => /\ job'[t].frame = frames + 1 /\ job'[t].flush
                             /\ \A u \in Thread \ {t} : pc'[u] = "idle"
    BY <1>1, <1>2 DEF SendFrame, MaySend, Goto
  <2> QED BY <1>1, <2>1, <2>2, <2>3, <2>4 DEF Greeting
<1>3. ASSUME NEW t \in Thread, BufferFlush(t) \/ Shutdown(t) PROVE Greeting'
  <2>1. /\ phase' # "opening" /\ UNCHANGED <<accepted, frames>>
    BY <1>3 DEF BufferFlush, Shutdown, still, link, past, bounds
  <2> QED BY <2>1 DEF Greeting
<1>4. ASSUME NEW t \in Thread, ReadMode(t) \/ Write(t) \/ Flush(t) PROVE Greeting'
  <2>1. UNCHANGED <<phase, frames, accepted, urgent, fg_send_buffer>> /\ pc[t] # "idle"
    BY <1>4 DEF ReadMode, Write, Flush, shared, still, link, past, bounds
  <2>2. \A u \in Thread : pc'[u] # "idle" => pc[u] # "idle"
    BY <1>1, <1>4, <2>1 DEF ReadMode, Write, Flush, Goto
  <2>3. \A u \in Thread : job'[u].frame = job[u].frame /\ job'[u].flush = job[u].flush
    <3>1. CASE Write(t)
      <4>1. job' = [job EXCEPT ![t] = [job[t] EXCEPT !.written = job[t].written + 1]]
        BY <3>1 DEF Write
      <4> QED BY <1>1, <4>1 DEF Job
    <3>2. CASE ~Write(t)
      BY <1>4, <3>2 DEF ReadMode, Flush
    <3> QED BY <3>1, <3>2
  <2> QED BY <2>1, <2>2, <2>3 DEF Greeting
<1>5. ASSUME NEW t \in Thread, Finishing(t) PROVE Greeting'
  <2>1. UNCHANGED <<phase, frames>> /\ pc[t] # "idle"
    BY <1>5, Finishes DEF still, link, Finishing, BufferedWrite, NoBuffers, WriteDone,
            WriteFails, FlushNothing, FlushDone, FlushFails
  <2>2. \A f \in accepted' : f <= frames
    <3>1. \A f \in accepted' \ accepted : f = frames
      BY AcceptedIsLast
    <3>2. frames <= frames
      BY <1>1
    <3>3. \A f \in accepted : f <= frames
      BY DEF Greeting
    <3> QED BY <3>1, <3>2, <3>3, Zenon
  <2> SUFFICES ASSUME phase = "opening"
               PROVE  /\ \A u \in Thread : pc'[u] # "idle" =>
                           job'[u].frame # 0 /\ job'[u].flush /\ frames \notin urgent'
                      /\ frames \in urgent' => fg_send_buffer' = <<>>
    BY <2>1, <2>2 DEF Greeting
  <2>3. job[t].frame # 0 /\ job[t].flush /\ frames \notin urgent
    BY <2>1 DEF Greeting
  <2>4. ASSUME NEW u \in Thread \ {t} PROVE pc'[u] = "idle"
    <3>1. pc'[u] = pc[u]
      BY <1>1, <1>5, Finishes
    <3>2. ~(Sending(u) /\ Sending(t))
      BY DEF Locks
    <3> QED BY <2>1, <2>3, <3>1, <3>2 DEF Sending, Greeting
  <2>5. job'[t].frame = job[t].frame /\ job'[t].flush = job[t].flush
    BY <1>1, <1>5, Finishes DEF Job
  <2>6. CASE FlushNothing(t) \/ FlushDone(t)
    <3>1. fg_send_buffer' = <<>> /\ pc'[t] = "idle"
      BY <1>1, <2>6 DEF FlushNothing, FlushDone, Return, Goto
    <3> QED BY <2>4, <3>1
  <2>7. CASE ~FlushNothing(t) /\ ~FlushDone(t)
    <3>1. Return(t, FALSE) \/ Sent(t)
      BY <1>5, <2>7 DEF Finishing, BufferedWrite, NoBuffers, WriteDone, WriteFails, FlushFails
    <3>2. urgent' = urgent
      BY <2>3, <3>1, Returns DEF Sent, past
    <3> QED BY <2>3, <2>4, <2>5, <3>2
  <2> QED BY <2>6, <2>7
<1>6. CASE NextLink
  BY <1>6, Anew DEF Greeting
<1>7. CASE \/ \E mode \in {"NORMAL", "BUFFERED"} : raspike_usb_set_mode(mode)
           \/ Stall \/ Resume \/ UNCHANGED vars
  <2>1. UNCHANGED <<phase, frames, accepted, urgent, fg_send_buffer, pc, job>>
    BY <1>7 DEF raspike_usb_set_mode, Stall, Resume, vars, shared, still, link, past, bounds
  <2> QED BY <2>1 DEF Greeting
<1> QED BY <1>2, <1>3, <1>4, <1>5, <1>6, <1>7 DEF Next, NextLink, Step, Finishing

\* When the last byte of a later frame is written, every accepted frame is whole on the
\* wire: in NORMAL mode nothing is buffered, and a flush writes the buffer in its order.
LEMMA EarlierIsWritten ==
  ASSUME ComAssumption, TypeOK, Locks, Buffered, Modes, Written, NEW t \in Thread, Write(t),
         NEW f \in Nat, Safe(f), f < Source(t)[job[t].written + 1].frame
  PROVE  Holds(wire, f)
<1> DEFINE s == fg_send_buffer
           n == Len(wire)
           k == job[t].written
<1>1. /\ k \in Nat /\ n \in Nat /\ FrameSize \in Nat \ {0} /\ s \in Seq(Byte)
      /\ k + 1 \in 1..Len(Source(t)) /\ Writing(t)
  <2>1. k \in Nat /\ k + 1 \in 1..Len(Source(t))
    BY NextByte
  <2>2. Len(wire) \in Nat /\ s \in Seq(Byte) /\ FrameSize \in Nat \ {0}
    BY DEF TypeOK, ComAssumption
  <2> QED BY <2>1, <2>2 DEF Write, Writing
<1> SUFFICES ASSUME NEW m \in 1..Len(s), HoldsAt(s, f, m) PROVE Holds(wire, f)
  BY DEF Safe, Holds
<1>2. Source(t) = s
  <2>1. s # <<>>
    BY <1>1
  <2>2. fg_send_mode = "BUFFERED"
    BY <2>1 DEF Modes, TypeOK
  <2> QED BY <2>2 DEF Modes, Source
<1>3. k <= n /\ \A i \in 1..k : wire[n - k + i] = s[i]
  BY <1>1, <1>2 DEF Written
<1>4. m + FrameSize - 1 \in 1..Len(s) /\ s[m + FrameSize - 1].frame = f
  <2>1. m + FrameSize - 1 \in 1..Len(s)
    BY <1>1 DEF HoldsAt
  <2>2. FrameSize \in 1..FrameSize
    BY <1>1
  <2>3. s[m + FrameSize - 1] = [frame |-> f, part |-> FrameSize]
    BY <2>2 DEF HoldsAt
  <2> QED BY <2>1, <2>3
<1>5. m + FrameSize - 1 <= k
  <2> SUFFICES ASSUME m + FrameSize - 1 > k PROVE FALSE
    BY <1>1
  <2>1. k + 1 \in 1..Len(s) /\ s[k + 1].frame \in Nat /\ f < s[k + 1].frame
    BY <1>1, <1>2, BytesOf
  <2>2. s[k + 1].frame <= f
    <3>1. CASE k + 1 = m + FrameSize - 1
      BY <1>4, <2>1, <3>1
    <3>2. CASE k + 1 < m + FrameSize - 1
      BY <1>4, <2>1, <3>2 DEF Buffered, Sorted
    <3> QED BY <1>1, <3>1, <3>2
  <2> QED BY <2>1, <2>2
<1> HIDE DEF n, k
<1>6. n - k + m \in 1..n /\ (n - k + m) + FrameSize - 1 <= n
  BY <1>1, <1>3, <1>5
<1>7. ASSUME NEW p \in 1..FrameSize
      PROVE  wire[(n - k + m) + p - 1] = [frame |-> f, part |-> p]
  <2>1. m + p - 1 \in 1..k /\ (n - k + m) + p - 1 = n - k + (m + p - 1)
    BY <1>1, <1>5
  <2> QED BY <1>3, <2>1 DEF HoldsAt
<1> QED BY <1>6, <1>7 DEF Holds, HoldsAt, n

\* A frame that was accepted came before whatever was sent later.
LEMMA OrderedStep ==
  ASSUME ComAssumption, TypeOK, Locks, Own, Buffered, Undisturbed, [Next]_vars
  PROVE  Ordered'
<1>1. wire \in Seq(Byte) /\ Len(wire) \in Nat /\ FrameSize \in Nat \ {0}
      /\ accepted \subseteq 1..MaxFrames /\ frames \in Nat
  BY DEF TypeOK, ComAssumption
<1>2. ASSUME NEW t \in Thread, Write(t) PROVE Ordered'
  <2> DEFINE b == Source(t)[job[t].written + 1]
             n == Len(wire)
  <2>1. b \in Byte /\ wire' = Append(wire, b) /\ accepted' = accepted
    BY <1>2, NextByte DEF Write, past
  <2>2. /\ \A f \in Nat : Safe(f) /\ f < b.frame => Holds(wire, f)
        /\ \A f \in accepted : Safe(f)
    BY <1>2, EarlierIsWritten DEF Undisturbed, Whole
  <2> HIDE DEF b
  <2>3. /\ Len(wire') = n + 1 /\ wire'[n + 1] = b /\ wire' \in Seq(Byte)
        /\ \A i \in 1..n : wire'[i] = wire[i]
    BY <1>1, <2>1, Appended
  <2>4. \A f, m : m \in 1..n /\ HoldsAt(wire, f, m) => HoldsAt(wire', f, m)
    <3>1. n <= Len(wire')
      BY <1>1, <2>3
    <3> QED BY <1>1, <2>3, <3>1, Extended
  <2> SUFFICES ASSUME NEW f \in accepted, NEW g \in 1..MaxFrames, NEW i \in 1..(n + 1),
                      f < g, HoldsAt(wire', g, i)
               PROVE  \E j \in 1..(i - 1) : HoldsAt(wire', f, j)
    BY <2>1, <2>3 DEF Ordered
  <2>5. i + FrameSize - 1 <= n + 1
    BY <2>3 DEF HoldsAt
  <2>6. CASE i + FrameSize - 1 <= n
    <3>1. i \in 1..n
      BY <1>1, <2>6
    <3>2. HoldsAt(wire, g, i)
      <4>1. \A p \in 1..FrameSize : i + p - 1 \in 1..n
        BY <1>1, <2>6
      <4> QED BY <2>3, <2>6, <4>1 DEF HoldsAt
    <3>3. PICK j \in 1..(i - 1) : HoldsAt(wire, f, j)
      BY <3>1, <3>2 DEF Undisturbed, Ordered
    <3>4. j \in 1..n
      BY <1>1, <3>1, <3>3
    <3> QED BY <2>4, <3>3, <3>4
  <2>7. CASE i + FrameSize - 1 = n + 1
    <3>1. b.frame = g
      <4>1. FrameSize \in 1..FrameSize
        BY <1>1
      <4>2. wire'[i + FrameSize - 1] = [frame |-> g, part |-> FrameSize]
        BY <4>1 DEF HoldsAt
      <4>3. b = [frame |-> g, part |-> FrameSize]
        BY <2>3, <2>7, <4>2
      <4> QED BY <4>3
    <3>2. f \in Nat
      BY <1>1
    <3>3. PICK j \in 1..n : HoldsAt(wire, f, j)
      BY <2>2, <3>1, <3>2 DEF Holds
    <3>4. j + FrameSize - 1 <= n
      BY <3>3 DEF HoldsAt
    <3>5. j \in 1..(i - 1)
      BY <1>1, <2>7, <3>4
    <3> QED BY <2>4, <3>3, <3>5
  <2> QED BY <1>1, <2>5, <2>6, <2>7
<1>3. CASE NextLink
  BY <1>3, Anew DEF Ordered
<1>4. CASE wire' = wire
  <2> SUFFICES ASSUME NEW f \in accepted', NEW g \in 1..MaxFrames, NEW i \in 1..Len(wire),
                      f < g, HoldsAt(wire, g, i)
               PROVE  \E j \in 1..(i - 1) : HoldsAt(wire, f, j)
    BY <1>4 DEF Ordered
  <2>1. CASE f \in accepted
    BY <2>1 DEF Undisturbed, Ordered
  <2>2. CASE f \notin accepted
    <3>1. f = frames
      BY <2>2, AcceptedIsLast
    <3>2. 1 \in 1..FrameSize /\ i + 1 - 1 = i
      BY <1>1
    <3>3. wire[i] = [frame |-> g, part |-> 1]
      BY <3>2 DEF HoldsAt
    <3>4. wire[i].frame = g /\ wire[i].frame <= frames
      BY <3>3 DEF Own
    <3> QED BY <1>1, <3>1, <3>4
  <2> QED BY <2>1, <2>2
<1> QED BY <1>2, <1>3, <1>4, Effects DEF BufferedWrite, FlushDone

-----------------------------------------------------------------------------
(* The invariant, and what follows from it. *)

\* Every step keeps the types.
LEMMA TypeKept == ASSUME ComAssumption, TypeOK, Locks, [Next]_vars PROVE TypeOK' /\ Locks'
<1>1. ASSUME NEW t \in Thread, Step(t) PROVE TypeOK' /\ Locks'
  BY <1>1, ComAssumption, TypeFinishing, TypeStep, LocksFinishing, LocksStep
     DEF Step, Finishing
<1>2. ASSUME NEW t \in Thread,
             \/ BufferFlush(t) \/ Shutdown(t)
             \/ \E flush_now \in BOOLEAN : SendFrame(t, flush_now)
      PROVE  TypeOK' /\ Locks'
  BY <1>2, TypeStep, LocksStep
<1>3. CASE UNCHANGED vars
  BY <1>3 DEF vars, TypeOK, Locks, Sending, shared, past, still, link, bounds
<1> QED BY <1>1, <1>2, <1>3, TypeLink, LocksLink DEF Next, NextLink

\* Every step keeps the invariant.
LEMMA StepKeeps == ASSUME ComAssumption PROVE Inductive /\ [Next]_vars => Inductive'
<1> SUFFICES ASSUME Inductive, [Next]_vars PROVE Inductive'
  OBVIOUS
<1>1. TypeOK /\ Locks /\ Own /\ Greeting /\ Keeps /\ Buffered
  BY DEF Inductive
<1>2. TypeOK' /\ Locks'
  BY <1>1, ComAssumption, TypeKept
<1>3. Own' /\ Greeting' /\ Keeps' /\ Buffered'
  BY <1>1, ComAssumption, OwnStep, GreetingStep, KeepsStep, BufferedStep
<1>4. ASSUME ~disturbed' PROVE Undisturbed'
  <2>1. CASE ~disturbed /\ ~NextLink
    <3>1. Modes /\ Written /\ Chained(wire) /\ Whole /\ Undisturbed
      BY <2>1 DEF Inductive, Undisturbed
    <3>2. Modes' /\ Written' /\ Chained(wire')
      BY <1>1, <1>4, <2>1, <3>1, ComAssumption, ModesStep, WrittenStep, ChainedStep
    <3>3. Whole' /\ Ordered'
      BY <1>1, <3>1, ComAssumption, WholeStep, OrderedStep
    <3> QED BY <3>2, <3>3 DEF Undisturbed
  <2>2. CASE NextLink
    <3>1. fg_send_mode' = "NORMAL" => fg_send_buffer' = <<>>
      <4>1. CASE Reopen
        BY <1>4, <4>1 DEF Reopen, shared
      <4>2. CASE Opened
        BY <1>1, <4>2 DEF Opened, Greeting, Greeted
      <4> QED BY <2>2, <4>1, <4>2 DEF NextLink
    <3> QED BY <2>2, <3>1, Anew DEF Undisturbed, Modes, Written, Writing, Whole, Ordered, Chained
  <2> QED BY <1>4, <2>1, <2>2, Disturbing
<1> QED BY <1>2, <1>3, <1>4 DEF Inductive

\* In every reachable state the locks are held by whoever sends, what is accepted is kept,
\* and, undisturbed, what is on the wire is whole and in order.
THEOREM Invariance == Spec => []Inductive
<1>1. Init => Inductive
  BY ComAssumption, Initially
<1>2. Inductive /\ [Next]_vars => Inductive'
  BY ComAssumption, StepKeeps
<1> QED BY <1>1, <1>2, PTL DEF Spec

\* The send buffer does not outgrow its array, for every size of it and of the frames
\* (rp_usb_send answers -ENOBUFS before it would), and every variable keeps its type.
THEOREM TypeCorrect == Spec => []TypeOK
<1>1. Inductive => TypeOK
  BY DEF Inductive
<1> QED BY <1>1, Invariance, PTL

\* Every byte of a frame whose send did not fail is on the wire or in the buffer, also if
\* the mode changes meanwhile and flushes fail: flush_buffer_locked empties the buffer
\* only when write_all_fd has written all of it, under fg_send_mutex.
THEOREM NothingAcceptedIsLost == Spec => []AcceptedIsKept
<1>1. Inductive => AcceptedIsKept
  <2> SUFFICES ASSUME Inductive, NEW f \in accepted
               PROVE  ToSet(FrameOf(f)) \subseteq ToSet(wire) \cup ToSet(fg_send_buffer)
    BY DEF AcceptedIsKept
  <2>1. Kept(f)
    BY DEF Inductive, Keeps
  <2>2. \A x \in ToSet(FrameOf(f)) : \E p \in 1..FrameSize : x = [frame |-> f, part |-> p]
    BY DEF ToSet, FrameOf
  <2> QED BY <2>1, <2>2 DEF Kept
<1> QED BY <1>1, Invariance, PTL

\* What the hub gets in a session was sent over this link, also after a close whose flush
\* failed: raspike_prot_shutdown closes the descriptor nevertheless and the static buffer stays,
\* but perform_handshake_once succeeds only if the flush that follows INIT has emptied it.
THEOREM SessionsCarryTheirOwn == Spec => []OwnFramesOnly
<1>1. Inductive => OwnFramesOnly
  <2> SUFFICES ASSUME Inductive, phase # "opening", NEW i \in DOMAIN wire
               PROVE  wire[i].frame > since
    BY DEF OwnFramesOnly
  <2>1. i \in 1..Len(wire)
    BY DEF Inductive, TypeOK
  <2> QED BY <2>1 DEF Inductive, Own
<1> QED BY <1>1, Invariance, PTL

\* If the mode is changed only at rest, what follows the beginning of a frame on the wire
\* is that frame: two sends exclude each other by fgSendMutex, two flushes by
\* fg_send_mutex, and a NORMAL write and a flush by the mode.
THEOREM FramesAreUnmixed == Spec => []FramesUnmixed
<1>1. Inductive => FramesUnmixed
  <2> SUFFICES ASSUME Inductive, ~disturbed, NEW i \in DOMAIN wire, wire[i].part > 1
               PROVE  i > 1 /\ wire[i - 1] = [wire[i] EXCEPT !.part = @ - 1]
    BY DEF FramesUnmixed
  <2>1. i \in 1..Len(wire)
    BY DEF Inductive, TypeOK
  <2> QED BY <2>1 DEF Inductive, Undisturbed, Chained
<1> QED BY <1>1, Invariance, PTL

\* A whole frame on the wire, as the hub sees it.
LEMMA WholeFrames ==
  ASSUME ComAssumption, TypeOK, NEW f, NEW i \in 1..Len(wire)
  PROVE  WholeAt(f, i) <=> HoldsAt(wire, f, i)
<1>1. wire \in Seq(Byte) /\ FrameSize \in Nat \ {0} /\ Len(wire) \in Nat
  BY DEF TypeOK, ComAssumption
<1> SUFFICES ASSUME i + FrameSize - 1 <= Len(wire)
             PROVE  SubSeq(wire, i, i + FrameSize - 1) = FrameOf(f) <=> HoldsAt(wire, f, i)
  BY DEF WholeAt, HoldsAt
<1> DEFINE s == SubSeq(wire, i, i + FrameSize - 1)
<1>2. s = [p \in 1..FrameSize |-> wire[i + p - 1]]
  BY <1>1
<1> HIDE DEF s
<1>3. s = FrameOf(f) <=> \A p \in 1..FrameSize : wire[i + p - 1] = [frame |-> f, part |-> p]
  BY <1>2 DEF FrameOf
<1> QED BY <1>3 DEF HoldsAt, s

\* If the mode is changed only at rest, a priority frame whose send did not fail is whole
\* on the wire when raspike_prot_send_priority returns, whoever flushed the buffer.
THEOREM UrgentIsWritten == Spec => []UrgentIsOnTheWire
<1>1. Inductive => UrgentIsOnTheWire
  <2> SUFFICES ASSUME Inductive, ~disturbed, NEW f \in urgent
               PROVE  \E i \in DOMAIN wire : WholeAt(f, i)
    BY DEF UrgentIsOnTheWire
  <2>1. TypeOK /\ DOMAIN wire = 1..Len(wire)
    BY DEF Inductive, TypeOK
  <2>2. PICK i \in 1..Len(wire) : HoldsAt(wire, f, i)
    BY DEF Inductive, Undisturbed, Whole, Holds
  <2> QED BY <2>1, <2>2, ComAssumption, WholeFrames
<1> QED BY <1>1, Invariance, PTL

\* If the mode is changed only at rest, frames whose send did not fail get to the hub in
\* the order in which they were sent, however often a failed flush is repeated.
THEOREM SentInOrder == Spec => []InOrder
<1>1. Inductive => InOrder
  <2> SUFFICES ASSUME Inductive, ~disturbed, NEW f \in accepted, NEW g \in accepted, f < g,
                      NEW i \in DOMAIN wire, WholeAt(g, i)
               PROVE  \E j \in 1..(i - 1) : WholeAt(f, j)
    BY DEF InOrder
  <2>1. /\ TypeOK /\ DOMAIN wire = 1..Len(wire) /\ Len(wire) \in Nat
        /\ g \in 1..MaxFrames
    BY DEF Inductive, TypeOK
  <2>2. HoldsAt(wire, g, i)
    BY <2>1, ComAssumption, WholeFrames
  <2>3. PICK j \in 1..(i - 1) : HoldsAt(wire, f, j)
    BY <2>1, <2>2 DEF Inductive, Undisturbed, Ordered
  <2>4. j \in 1..Len(wire)
    BY <2>1, <2>3
  <2> QED BY <2>1, <2>3, <2>4, ComAssumption, WholeFrames
<1> QED BY <1>1, Invariance, PTL
=============================================================================

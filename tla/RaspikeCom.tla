------------------------------ MODULE RaspikeCom ------------------------------
(***************************************************************************)
(* Sending over a descriptor (raspike_com.c): a frame is written to        *)
(* the descriptor at once in NORMAL mode, or put in the send buffer in     *)
(* BUFFERED mode, and the buffer is written when a priority frame is sent  *)
(* or the application asks for it.  Frames are sent under fgSendMutex      *)
(* (send_frame); the buffer and the mode have their own fg_send_mutex,     *)
(* which a NORMAL write does not take.  The descriptor takes bytes as it   *)
(* likes, and may stop to: every write ends by its deadline.               *)
(*                                                                         *)
(* The descriptor is closed and another opened by raspike_prot_shutdown    *)
(* and raspike_prot_init; the buffer and the mode are static and stay.     *)
(*                                                                         *)
(* A byte is [frame, part]; frames are numbered in the order in which      *)
(* fgSendMutex is taken.                                                   *)
(***************************************************************************)
EXTENDS Integers, Sequences, SequencesExt

CONSTANTS
  Thread,
  Nobody,
  FrameSize,      \* bytes in a frame
  BufferSize,     \* RP_SEND_BUFFER_SIZE
  MaxFrames,      \* bound: calls of raspike_prot_send and raspike_prot_send_priority
  MaxFlushes,     \* bound: calls of raspike_usb_buffer_flush
  MaxFailures,    \* bound: times the descriptor fails, or stops taking bytes
  MaxLinks        \* bound: links opened, one after the other

ASSUME ComAssumption ==
  /\ Nobody \notin Thread
  /\ FrameSize \in Nat \ {0} /\ BufferSize \in Nat
  /\ MaxFrames \in Nat /\ MaxFlushes \in Nat /\ MaxFailures \in Nat
  /\ MaxLinks \in Nat \ {0}   \* the first link is open at the beginning

VARIABLES
  fg_send_buffer, fg_send_mode, fg_send_mutex,
  fgSendMutex,
  pc, job,        \* where each thread is, and its locals
  phase,          \* is the link open, being closed, or opened again?
  wire,           \* history: the bytes the descriptor took, in a session without INIT
  writable,       \* does the descriptor take bytes?
  accepted,       \* history: frames whose send did not fail, and those of them
  urgent,         \*          that were to be flushed
  disturbed,      \* history: was the mode changed with bytes yet to be written?
  since,          \* history: frames sent before the link was opened
  frames, flushes, failures, links   \* bounds: so far

shared == <<fg_send_buffer, fg_send_mode, fg_send_mutex, fgSendMutex>>
past   == <<accepted, urgent>>
link   == <<phase, since, links>>
still  == <<writable, disturbed, link>>
bounds == <<frames, flushes, failures>>
vars   == <<shared, pc, job, wire, still, past, bounds>>

Byte == [frame : 1..MaxFrames, part : 1..FrameSize]

\* frame 0: raspike_usb_buffer_flush, which sends none.
Job == [frame : 0..MaxFrames, flush : BOOLEAN, written : 0..(BufferSize + FrameSize)]

FrameOf(f) == [i \in 1..FrameSize |-> [frame |-> f, part |-> i]]

Init ==
  /\ fg_send_buffer = <<>> /\ fg_send_mode \in {"NORMAL", "BUFFERED"}
  /\ fg_send_mutex = Nobody /\ fgSendMutex = Nobody
  /\ pc = [t \in Thread |-> "idle"]
  /\ job = [t \in Thread |-> [frame |-> 0, flush |-> FALSE, written |-> 0]]
  /\ wire = <<>> /\ writable = TRUE
  /\ accepted = {} /\ urgent = {} /\ disturbed = FALSE
  /\ phase = "open" /\ since = 0 /\ links = 1
  /\ frames = 0 /\ flushes = 0 /\ failures = 0

Goto(t, label) == pc' = [pc EXCEPT ![t] = label]

-----------------------------------------------------------------------------
(* send_frame and raspike_usb_buffer_flush begin and end. *)

\* While a link is opened, INIT is sent, with its flush, by the thread in raspike_prot_init,
\* and no other sends; between links send_frame returns -ENOTCONN.
MaySend(flush_now) ==
  \/ phase = "open"
  \/ phase = "opening" /\ flush_now /\ \A t \in Thread : pc[t] = "idle"

\* Mutant: without fgSendMutex.
SendFrameUnguarded(t, flush_now) ==
  /\ pc[t] = "idle" /\ frames < MaxFrames
  /\ MaySend(flush_now)
  /\ fgSendMutex' = t
  /\ frames' = frames + 1
  /\ job' = [job EXCEPT ![t] = [frame |-> frames + 1, flush |-> flush_now, written |-> 0]]
  /\ Goto(t, "mode")
  /\ UNCHANGED <<fg_send_buffer, fg_send_mode, fg_send_mutex, wire, still, past,
                 flushes, failures>>

SendFrame(t, flush_now) ==
  /\ pc[t] = "idle" /\ fgSendMutex = Nobody /\ frames < MaxFrames
  /\ MaySend(flush_now)
  /\ fgSendMutex' = t
  /\ frames' = frames + 1
  /\ job' = [job EXCEPT ![t] = [frame |-> frames + 1, flush |-> flush_now, written |-> 0]]
  /\ Goto(t, "mode")
  /\ UNCHANGED <<fg_send_buffer, fg_send_mode, fg_send_mutex, wire, still, past,
                 flushes, failures>>

BufferFlush(t) ==
  /\ phase = "open" /\ pc[t] = "idle" /\ flushes < MaxFlushes
  /\ flushes' = flushes + 1
  /\ job' = [job EXCEPT ![t] = [frame |-> 0, flush |-> TRUE, written |-> 0]]
  /\ Goto(t, "flush")
  /\ UNCHANGED <<shared, wire, still, past, frames, failures>>

\* The call returns; a frame that was sent without an error counts as accepted.
Return(t, success) ==
  /\ Goto(t, "idle")
  /\ IF job[t].frame = 0 THEN UNCHANGED <<fgSendMutex, past>> ELSE
       /\ fgSendMutex' = Nobody
       /\ accepted' = IF success THEN accepted \cup {job[t].frame} ELSE accepted
       /\ urgent' = IF success /\ job[t].flush THEN urgent \cup {job[t].frame} ELSE urgent

\* ret >= 0: flush, if it was asked for.
Sent(t) == IF job[t].flush THEN Goto(t, "flush") /\ UNCHANGED <<fgSendMutex, past>>
                           ELSE Return(t, TRUE)

-----------------------------------------------------------------------------
(* rp_usb_send *)

ReadMode(t) ==
  /\ pc[t] = "mode" /\ fg_send_mutex = Nobody
  /\ Goto(t, IF fg_send_mode = "BUFFERED" THEN "append" ELSE "write")
  /\ UNCHANGED <<shared, job, wire, still, past, bounds>>

HasRoom == Len(fg_send_buffer) + FrameSize <= BufferSize

\* Mutant: the size of the frame is not counted.
BufferedWritePast(t) ==
  /\ pc[t] = "append" /\ fg_send_mutex = Nobody
  /\ Len(fg_send_buffer) <= BufferSize
  /\ fg_send_buffer' = fg_send_buffer \o FrameOf(job[t].frame)
  /\ Sent(t)
  /\ UNCHANGED <<fg_send_mode, fg_send_mutex, job, wire, still, bounds>>

BufferedWrite(t) ==
  /\ pc[t] = "append" /\ fg_send_mutex = Nobody
  /\ HasRoom
  /\ fg_send_buffer' = fg_send_buffer \o FrameOf(job[t].frame)
  /\ Sent(t)
  /\ UNCHANGED <<fg_send_mode, fg_send_mutex, job, wire, still, bounds>>

\* -ENOBUFS: nothing is flushed to make room.
NoBuffers(t) ==
  /\ pc[t] = "append" /\ fg_send_mutex = Nobody
  /\ ~HasRoom
  /\ Return(t, FALSE)
  /\ UNCHANGED <<fg_send_buffer, fg_send_mode, fg_send_mutex, job, wire, still, bounds>>

-----------------------------------------------------------------------------
(* write_all_fd, of the frame itself or of the whole buffer. *)

\* The bytes t is writing.
Source(t) == IF pc[t] = "write" THEN FrameOf(job[t].frame) ELSE fg_send_buffer

\* A write fails at its deadline, if the descriptor takes nothing, or for another reason.
MayFail == ~writable \/ failures < MaxFailures
Failure == IF writable THEN 1 ELSE 0

Write(t) ==
  /\ pc[t] \in {"write", "flushing"} /\ writable
  /\ job[t].written < Len(Source(t))
  /\ wire' = Append(wire, Source(t)[job[t].written + 1])
  /\ job' = [job EXCEPT ![t].written = @ + 1]
  /\ UNCHANGED <<shared, pc, still, past, bounds>>

WriteDone(t) ==
  /\ pc[t] = "write" /\ job[t].written = FrameSize
  /\ job' = [job EXCEPT ![t].written = 0]
  /\ Sent(t)
  /\ UNCHANGED <<fg_send_buffer, fg_send_mode, fg_send_mutex, wire, still, bounds>>

\* Mutant: without a deadline; a write fails only where it could go on.
WriteFailsIfWritable(t) ==
  /\ pc[t] = "write" /\ job[t].written < FrameSize /\ MayFail
  /\ writable
  /\ failures' = failures + Failure
  /\ Return(t, FALSE)
  /\ UNCHANGED <<fg_send_buffer, fg_send_mode, fg_send_mutex, job, wire, still,
                 frames, flushes>>

\* -ETIMEDOUT or an error: part of the frame may have gone.
WriteFails(t) ==
  /\ pc[t] = "write" /\ job[t].written < FrameSize /\ MayFail
  /\ failures' = failures + Failure
  /\ Return(t, FALSE)
  /\ UNCHANGED <<fg_send_buffer, fg_send_mode, fg_send_mutex, job, wire, still,
                 frames, flushes>>

-----------------------------------------------------------------------------
(* flush_buffer_locked *)

\* Mutant: without fg_send_mutex.
FlushUnlocked(t) ==
  /\ pc[t] = "flush" /\ fg_send_buffer # <<>>
  /\ fg_send_mutex' = t
  /\ Goto(t, "flushing")
  /\ UNCHANGED <<fg_send_buffer, fg_send_mode, fgSendMutex, job, wire, still,
                 past, bounds>>

Flush(t) ==
  /\ pc[t] = "flush" /\ fg_send_mutex = Nobody /\ fg_send_buffer # <<>>
  /\ fg_send_mutex' = t
  /\ Goto(t, "flushing")
  /\ UNCHANGED <<fg_send_buffer, fg_send_mode, fgSendMutex, job, wire, still,
                 past, bounds>>

FlushNothing(t) ==
  /\ pc[t] = "flush" /\ fg_send_mutex = Nobody /\ fg_send_buffer = <<>>
  /\ Return(t, TRUE)
  /\ UNCHANGED <<fg_send_buffer, fg_send_mode, fg_send_mutex, job, wire, still, bounds>>

FlushDone(t) ==
  /\ pc[t] = "flushing" /\ job[t].written = Len(fg_send_buffer)
  /\ fg_send_buffer' = <<>> /\ fg_send_mutex' = Nobody
  /\ job' = [job EXCEPT ![t].written = 0]
  /\ Return(t, TRUE)
  /\ UNCHANGED <<fg_send_mode, wire, still, bounds>>

\* Mutant: the buffer is emptied nevertheless.
FlushFailsAndForgets(t) ==
  /\ pc[t] = "flushing" /\ job[t].written < Len(fg_send_buffer) /\ MayFail
  /\ failures' = failures + Failure
  /\ fg_send_buffer' = <<>> /\ fg_send_mutex' = Nobody
  /\ job' = [job EXCEPT ![t].written = 0]
  /\ Return(t, FALSE)
  /\ UNCHANGED <<fg_send_mode, wire, still, frames, flushes>>

\* Mutant: send_frame ignores what the flush returned.
FlushFailsUnnoticed(t) ==
  /\ pc[t] = "flushing" /\ job[t].written < Len(fg_send_buffer) /\ MayFail
  /\ failures' = failures + Failure
  /\ fg_send_mutex' = Nobody
  /\ job' = [job EXCEPT ![t].written = 0]
  /\ Return(t, TRUE)
  /\ UNCHANGED <<fg_send_buffer, fg_send_mode, wire, still, frames, flushes>>

\* The whole buffer is kept, and goes from its start the next time.
FlushFails(t) ==
  /\ pc[t] = "flushing" /\ job[t].written < Len(fg_send_buffer) /\ MayFail
  /\ failures' = failures + Failure
  /\ fg_send_mutex' = Nobody
  /\ job' = [job EXCEPT ![t].written = 0]
  /\ Return(t, FALSE)
  /\ UNCHANGED <<fg_send_buffer, fg_send_mode, wire, still, frames, flushes>>

-----------------------------------------------------------------------------
(* The application's choice of mode, and the descriptor. *)

\* No frame is being sent or flushed, and the buffer is empty.
AtRest == fg_send_buffer = <<>> /\ \A t \in Thread : pc[t] = "idle"

raspike_usb_set_mode(mode) ==
  /\ fg_send_mutex = Nobody
  /\ fg_send_mode' = mode
  /\ disturbed' = (disturbed \/ (mode # fg_send_mode /\ ~AtRest))
  /\ UNCHANGED <<fg_send_buffer, fg_send_mutex, fgSendMutex, pc, job, wire, writable,
                 link, past, bounds>>

Stall ==
  /\ writable /\ failures < MaxFailures
  /\ failures' = failures + 1
  /\ writable' = FALSE
  /\ UNCHANGED <<shared, pc, job, wire, disturbed, link, past, frames, flushes>>

Resume ==
  /\ ~writable
  /\ writable' = TRUE
  /\ UNCHANGED <<shared, pc, job, wire, disturbed, link, past, bounds>>

-----------------------------------------------------------------------------
(* raspike_prot_shutdown and raspike_prot_init *)

\* raspike_prot_shutdown takes fgSendMutex (phase stands for it from here on), and flushes:
\* what the flush returns is ignored, ...
Shutdown(t) ==
  /\ phase = "open" /\ pc[t] = "idle" /\ fgSendMutex = Nobody
  /\ phase' = "closing"
  /\ job' = [job EXCEPT ![t] = [frame |-> 0, flush |-> TRUE, written |-> 0]]
  /\ Goto(t, "flush")
  /\ UNCHANGED <<shared, wire, writable, disturbed, since, links, past, bounds>>

\* The histories begin anew.
Afresh == wire' = <<>> /\ accepted' = {} /\ urgent' = {}

\* ... and the descriptor is closed. The next is opened, also if INIT failed over the last
\* one, with the mode and the buffer as they were left.
Reopen ==
  /\ phase \in {"closing", "opening"} /\ \A t \in Thread : pc[t] = "idle"
  /\ links < MaxLinks
  /\ phase' = "opening" /\ links' = links + 1 /\ since' = frames /\ writable' = TRUE
  /\ Afresh
  /\ disturbed' = (fg_send_mode = "NORMAL" /\ fg_send_buffer # <<>>)
  /\ UNCHANGED <<shared, pc, job, bounds>>

\* Mutant: perform_handshake_once ignores what its send and its flush returned.
GreetedUnsent == frames > since

\* The last INIT was sent and flushed without an error, so that the hub could answer.
Greeted == frames \in urgent

\* perform_handshake has returned, and raspike_prot_init sets the mode: the session begins.
Opened ==
  /\ phase = "opening" /\ Greeted /\ \A t \in Thread : pc[t] = "idle"
  /\ phase' = "open"
  /\ fg_send_mode' = "NORMAL" /\ disturbed' = FALSE
  /\ Afresh
  /\ UNCHANGED <<fg_send_buffer, fg_send_mutex, fgSendMutex, pc, job, writable, since, links,
                 bounds>>

Step(t) ==
  \/ ReadMode(t) \/ BufferedWrite(t) \/ NoBuffers(t)
  \/ Write(t) \/ WriteDone(t) \/ WriteFails(t)
  \/ Flush(t) \/ FlushNothing(t) \/ FlushDone(t) \/ FlushFails(t)

Next ==
  \/ \E t \in Thread : (\E flush_now \in BOOLEAN : SendFrame(t, flush_now))
                       \/ BufferFlush(t) \/ Shutdown(t) \/ Step(t)
  \/ \E mode \in {"NORMAL", "BUFFERED"} : raspike_usb_set_mode(mode)
  \/ Stall \/ Resume \/ Reopen \/ Opened

Spec == Init /\ [][Next]_vars

\* A thread in a call goes on: poll returns by its deadline, a mutex that is let go
\* is taken. Nothing is assumed of the descriptor.
Fairness == \A t \in Thread : WF_vars(Step(t))

FairSpec == Spec /\ Fairness

-----------------------------------------------------------------------------
(* Properties. *)

\* Every variable has its type; the buffer does not outgrow its array. (A frame that
\* does not fit gets -ENOBUFS.)
TypeOK ==
  /\ fg_send_buffer \in Seq(Byte) /\ Len(fg_send_buffer) <= BufferSize
  /\ fg_send_mode \in {"NORMAL", "BUFFERED"}
  /\ fg_send_mutex \in Thread \cup {Nobody} /\ fgSendMutex \in Thread \cup {Nobody}
  /\ pc \in [Thread -> {"idle", "mode", "append", "write", "flush", "flushing"}]
  /\ job \in [Thread -> Job]
  /\ wire \in Seq(Byte) /\ writable \in BOOLEAN
  /\ disturbed \in BOOLEAN /\ accepted \subseteq 1..MaxFrames /\ urgent \subseteq accepted
  /\ frames \in 0..MaxFrames /\ flushes \in 0..MaxFlushes /\ failures \in 0..MaxFailures
  /\ phase \in {"open", "closing", "opening"} /\ since \in 0..frames /\ links \in 1..MaxLinks

WholeAt(f, i) ==
  i + FrameSize - 1 <= Len(wire) /\ SubSeq(wire, i, i + FrameSize - 1) = FrameOf(f)

\* What the hub finds after the first byte of a frame is that frame, up to where a write
\* failed: it is never the middle of another. (Two flushes exclude each other by
\* fg_send_mutex, two sends by fgSendMutex; nothing but the mode keeps a flush from a
\* NORMAL write, so this is for a mode that is changed only at rest.)
FramesUnmixed == ~disturbed => \A i \in DOMAIN wire : wire[i].part > 1 =>
  i > 1 /\ wire[i - 1] = [wire[i] EXCEPT !.part = @ - 1]

\* A priority frame whose send did not fail is on the wire, whole. (raspike_request
\* starts to wait for the answer then; the buffer is flushed, whoever flushes it. A mode
\* changed under way may put another frame in the middle of it.)
UrgentIsOnTheWire == ~disturbed => \A f \in urgent : \E i \in DOMAIN wire : WholeAt(f, i)

\* Frames whose send did not fail get to the hub in the order in which they were sent,
\* however often a failed flush is repeated. (Again for a mode that is changed only at
\* rest: raspike_usb_set_mode does not flush what the buffer holds.)
InOrder == ~disturbed => \A f, g \in accepted : f < g =>
  \A i \in DOMAIN wire : WholeAt(g, i) => \E j \in 1..(i - 1) : WholeAt(f, j)

\* Every byte of a frame whose send did not fail is on the wire or in the buffer, also
\* when the mode changes and when flushes fail. (The buffer is emptied only when all of
\* it has been written.)
AcceptedIsKept == \A f \in accepted :
  ToSet(FrameOf(f)) \subseteq ToSet(wire) \cup ToSet(fg_send_buffer)

\* What the hub gets in a session was sent over this link, although the buffer outlives a
\* close whose flush failed: frames left in it go out with the handshake, or there is none.
\* (The flush of INIT writes them; the handshake fails if it does, and init with it.)
OwnFramesOnly == phase # "opening" => \A i \in DOMAIN wire : wire[i].frame > since

\* A call that has begun returns, also if the descriptor takes no more bytes. (Each
\* write has a deadline, and no mutex is kept past it.)
CallsReturn == \A t \in Thread : pc[t] # "idle" ~> pc[t] = "idle"
=============================================================================

--------------------------- MODULE RaspikeRequest ---------------------------
(***************************************************************************)
(* The acknowledged request of the RasPike link, protocol version 2:       *)
(* raspike_request() as run by any number of application threads, the      *)
(* ACK and HELLO handlers of the one receiver thread, and the sessions     *)
(* they belong to.  raspike_prot_init() refuses a link that is not         *)
(* version 2, so fgUseProtocolV2 is 1 throughout this module; the link     *)
(* stays open (opening and closing it is RaspikeLifecycle's subject).      *)
(*                                                                         *)
(* One action is one critical section of the code, or one access to a      *)
(* shared variable outside every section.  The hub is not part of the      *)
(* repository: it executes a frame of its own session and acknowledges it, *)
(* drops any other, restarts with a fresh session, and announces its       *)
(* session as often as it likes.  Both directions of the link are FIFO and *)
(* may lose a frame (a CRC mismatch discards it).                          *)
(***************************************************************************)
EXTENDS Integers, Sequences

CONSTANTS
  Caller,       \* application threads
  Port,         \* entries of gPortDevices
  Cmd,          \* command bytes that are sent as requests (0 is not one)
  AckData,      \* values the hub answers with
  NoCaller,     \* "the mutex is free"
  SeqLimit,     \* 2^32 in the code: fgNextSequence is a uint32_t
  MaxCalls,     \* bound: calls of raspike_request in a behaviour
  MaxSession,   \* bound: sessions of the hub in a behaviour
  LinkCapacity  \* bound: frames from the hub that are in flight

\* errno values the code returns negated, and the mark of a cancelled request.
EIO       == 5
ETIMEDOUT == 110
ESTALE    == 116
Canceled  == -1

\* What raspike_com_send and raspike_com_flush return when the link misbehaves.
SendErrors == {-ETIMEDOUT, -EIO}
Errors     == SendErrors \cup {-ESTALE}

\* max_attempts, under protocol version 2.
MaxAttempts == 2

ASSUME RequestAssumption ==
  /\ NoCaller \notin Caller
  /\ Cmd \subseteq Nat \ {0}
  /\ AckData \subseteq Int \ Errors
  /\ SeqLimit \in Nat /\ SeqLimit > 2
  /\ MaxCalls \in Nat /\ MaxSession \in Nat /\ LinkCapacity \in Nat

VARIABLES
  fgNextSequence, \* next sequence number
  fgSessionId,    \* the session the host is in
  dev,            \* the ACK mailbox of each port
  request_mutex,  \* who is inside raspike_request() on each port
  pc,             \* where each caller is
  call,           \* the locals of its current (or last) call
  resetTodo,      \* ports the HELLO handler has still to reset
  toHub, toHost,  \* frames in flight
  hubSession,     \* the hub's session
  executed,       \* history: the answers the hub ever gave
  calls           \* bound: calls begun so far

callerVars == <<fgNextSequence, request_mutex, pc, call, calls>>
hubVars    == <<hubSession, executed>>
vars == <<fgNextSequence, fgSessionId, dev, request_mutex, pc, call, resetTodo,
          toHub, toHost, hubSession, executed, calls>>

Requests == [port : Port, cmd : Cmd, sequence : Nat, session : Nat]
Answers  == [port : Port, cmd : Cmd, sequence : Nat, session : Nat, data : AckData]
Frames   == [type : {"ack"}, answer : Answers] \cup [type : {"hello"}, session : Nat]

Mailboxes ==
  [pending : BOOLEAN, pending_sequence : Nat, ack_sequence : Nat,
   ack_session : Nat, ack_cmd : Cmd \cup {0, Canceled}, ack_data : Int]

\* The locals of raspike_request.  Two fields are history: session is the one
\* stamped on the last frame sent (0: none yet), and born is the session the
\* call was entered in the mailbox under (0: while a HELLO was being applied).
Locals ==
  [port : Port, cmd : Cmd, sequence : Nat, attempt : 0..MaxAttempts,
   completed : BOOLEAN, result : Int, session : Nat, born : Nat]

Labels  == {"idle", "lock", "sequence", "mark", "attempt", "send", "wait", "finish"}
Inside  == Labels \ {"idle", "lock"}    \* holding request_mutex
Entered == Inside \ {"sequence", "mark"} \* the mailbox is set up for the call

EmptyMailbox ==
  [pending |-> FALSE, pending_sequence |-> 0, ack_sequence |-> 0,
   ack_session |-> 0, ack_cmd |-> 0, ack_data |-> 0]

NewCall(p, k) ==
  [port |-> p, cmd |-> k, sequence |-> 0, attempt |-> 0, completed |-> FALSE,
   result |-> 0, session |-> 0, born |-> 0]

Mailbox(c) == dev[call[c].port]

Goto(c, label) == pc' = [pc EXCEPT ![c] = label]

Init ==
  /\ fgNextSequence = 1
  /\ fgSessionId = 1
  /\ dev = [p \in Port |-> EmptyMailbox]
  /\ request_mutex = [p \in Port |-> NoCaller]
  /\ pc = [c \in Caller |-> "idle"]
  /\ \E p \in Port, k \in Cmd : call = [c \in Caller |-> NewCall(p, k)]
  /\ resetTodo = {}
  /\ toHub = <<>> /\ toHost = <<>>
  /\ hubSession = 1
  /\ executed = {}
  /\ calls = 0

-----------------------------------------------------------------------------
(* raspike_request, step by step. *)

Call(c, p, k) ==
  /\ pc[c] = "idle"
  /\ calls < MaxCalls
  /\ calls' = calls + 1
  /\ call' = [call EXCEPT ![c] = NewCall(p, k)]
  /\ Goto(c, "lock")
  /\ UNCHANGED <<fgNextSequence, fgSessionId, dev, request_mutex, resetTodo,
                 toHub, toHost, hubVars>>

\* Mutant: the request mutex is not taken.
LockRequestUnguarded(c) ==
  /\ pc[c] = "lock"
  /\ request_mutex' = [request_mutex EXCEPT ![call[c].port] = c]
  /\ Goto(c, "sequence")
  /\ UNCHANGED <<fgNextSequence, fgSessionId, dev, call, resetTodo,
                 toHub, toHost, hubVars, calls>>

LockRequest(c) ==
  /\ pc[c] = "lock"
  /\ request_mutex[call[c].port] = NoCaller
  /\ request_mutex' = [request_mutex EXCEPT ![call[c].port] = c]
  /\ Goto(c, "sequence")
  /\ UNCHANGED <<fgNextSequence, fgSessionId, dev, call, resetTodo,
                 toHub, toHost, hubVars, calls>>

\* Mutant: the counter wraps onto 0.
NextSequenceOntoZero(n) == (n + 1) % SeqLimit

\* next_sequence(): the counter wraps, and 0 is never handed out.
NextSequence(n) == IF (n + 1) % SeqLimit = 0 THEN 1 ELSE (n + 1) % SeqLimit

TakeSequence(c) ==
  /\ pc[c] = "sequence"
  /\ call' = [call EXCEPT ![c].sequence = fgNextSequence]
  /\ fgNextSequence' = NextSequence(fgNextSequence)
  /\ Goto(c, "mark")
  /\ UNCHANGED <<fgSessionId, dev, request_mutex, resetTodo, toHub, toHost,
                 hubVars, calls>>

MarkPending(c) ==
  /\ pc[c] = "mark"
  /\ dev' = [dev EXCEPT ![call[c].port] =
               [EmptyMailbox EXCEPT !.pending = TRUE,
                                    !.pending_sequence = call[c].sequence]]
  /\ call' = [call EXCEPT ![c].result = -ETIMEDOUT,
                          ![c].born = IF call[c].port \in resetTodo
                                      THEN 0 ELSE fgSessionId]
  /\ Goto(c, "attempt")
  /\ UNCHANGED <<fgNextSequence, fgSessionId, request_mutex, resetTodo,
                 toHub, toHost, hubVars, calls>>

\* Top of the attempt loop: a request that was settled in the meantime is not sent.
BeginAttempt(c) ==
  /\ pc[c] = "attempt"
  /\ \/ Mailbox(c).pending /\ Goto(c, "send") /\ UNCHANGED call
     \/ /\ ~Mailbox(c).pending
        /\ call' = [call EXCEPT ![c].completed = TRUE]
        /\ Goto(c, "finish")
  /\ UNCHANGED <<fgNextSequence, fgSessionId, dev, request_mutex, resetTodo,
                 toHub, toHost, hubVars, calls>>

\* The frame send_v2_frame builds: the session is the one at the time of sending.
Frame(c) == [port |-> call[c].port, cmd |-> call[c].cmd,
             sequence |-> call[c].sequence, session |-> fgSessionId]

Send(c) ==
  /\ pc[c] = "send"
  /\ toHub' = Append(toHub, Frame(c))
  /\ call' = [call EXCEPT ![c].session = fgSessionId]
  /\ Goto(c, "wait")
  /\ UNCHANGED <<fgNextSequence, fgSessionId, dev, request_mutex, resetTodo,
                 toHost, hubVars, calls>>

\* The write or the flush failed; a frame that stays buffered still goes out.
SendFails(c) ==
  /\ pc[c] = "send"
  /\ \E error \in SendErrors : call' = [call EXCEPT ![c].result = error]
  /\ toHub' \in {toHub, Append(toHub, Frame(c))}
  /\ Goto(c, "finish")
  /\ UNCHANGED <<fgNextSequence, fgSessionId, dev, request_mutex, resetTodo,
                 toHost, hubVars, calls>>

WaitDone(c) ==
  /\ pc[c] = "wait"
  /\ ~Mailbox(c).pending
  /\ call' = [call EXCEPT ![c].completed = TRUE]
  /\ Goto(c, "finish")
  /\ UNCHANGED <<fgNextSequence, fgSessionId, dev, request_mutex, resetTodo,
                 toHub, toHost, hubVars, calls>>

\* Mutant: each attempt takes a number of its own.
WaitExpiresAnew(c) ==
  /\ pc[c] = "wait" /\ Mailbox(c).pending
  /\ call' = [call EXCEPT ![c].attempt = @ + 1]
  /\ Goto(c, IF call[c].attempt + 1 < MaxAttempts THEN "sequence" ELSE "finish")
  /\ UNCHANGED <<fgNextSequence, fgSessionId, dev, request_mutex, resetTodo,
                 toHub, toHost, hubVars, calls>>

\* The deadline passed; there is a second attempt, not a third.
WaitExpires(c) ==
  /\ pc[c] = "wait"
  /\ Mailbox(c).pending
  /\ call' = [call EXCEPT ![c].attempt = @ + 1]
  /\ Goto(c, IF call[c].attempt + 1 < MaxAttempts THEN "attempt" ELSE "finish")
  /\ UNCHANGED <<fgNextSequence, fgSessionId, dev, request_mutex, resetTodo,
                 toHub, toHost, hubVars, calls>>

\* Mutant: the session of the answer is not compared again.
AnsweredInAnySession(c) ==
  /\ Mailbox(c).ack_cmd = call[c].cmd
  /\ Mailbox(c).ack_sequence = call[c].sequence

\* The mailbox holds the hub's answer to this very request, of this session.
Answered(c) ==
  /\ Mailbox(c).ack_cmd = call[c].cmd
  /\ Mailbox(c).ack_sequence = call[c].sequence
  /\ Mailbox(c).ack_session = fgSessionId

ResultOf(c) ==
  IF call[c].completed /\ (Mailbox(c).ack_cmd = Canceled \/ Answered(c))
  THEN Mailbox(c).ack_data ELSE call[c].result

\* The locals die with the call; only the result survives.
Finish(c) ==
  /\ pc[c] = "finish"
  /\ call' = [call EXCEPT ![c] =
                [NewCall(call[c].port, call[c].cmd) EXCEPT !.result = ResultOf(c)]]
  /\ dev' = [dev EXCEPT ![call[c].port].pending = FALSE]
  /\ request_mutex' = [request_mutex EXCEPT ![call[c].port] = NoCaller]
  /\ Goto(c, "idle")
  /\ UNCHANGED <<fgNextSequence, fgSessionId, resetTodo, toHub, toHost,
                 hubVars, calls>>

\* What a caller does once it has asked for the mutex and got it.
Proceed(c) ==
  \/ TakeSequence(c) \/ MarkPending(c) \/ BeginAttempt(c)
  \/ Send(c) \/ SendFails(c) \/ WaitDone(c) \/ WaitExpires(c) \/ Finish(c)

-----------------------------------------------------------------------------
(* The receiver thread.  It handles the next frame only when it is done with *)
(* the last, so nothing is received while ports are being reset.             *)

Receiving(type) == resetTodo = {} /\ toHost # <<>> /\ Head(toHost).type = type

\* Mutant: any acknowledgement of the session settles the port.
MatchesAnySequence(a) == dev[a.port].pending /\ a.session = fgSessionId

\* Is the acknowledgement the one the port is waiting for?
Matches(a) ==
  /\ dev[a.port].pending
  /\ a.sequence = dev[a.port].pending_sequence
  /\ a.session = fgSessionId

\* process_command: the session is checked first, then the mailbox; an
\* acknowledgement nobody waits for is counted and dropped.
ReceiveAck ==
  /\ Receiving("ack")
  /\ LET a == Head(toHost).answer IN
       dev' = IF a.session = fgSessionId /\ Matches(a)
              THEN [dev EXCEPT ![a.port] =
                     [@ EXCEPT !.ack_cmd = a.cmd, !.ack_data = a.data,
                               !.ack_sequence = a.sequence,
                               !.ack_session = a.session, !.pending = FALSE]]
              ELSE dev
  /\ toHost' = Tail(toHost)
  /\ UNCHANGED <<fgSessionId, resetTodo, toHub, hubVars, callerVars>>

\* Mutant: the ports are left as they are.
ReceiveHelloWithoutReset ==
  /\ Receiving("hello")
  /\ fgSessionId' = Head(toHost).session
  /\ toHost' = Tail(toHost)
  /\ UNCHANGED <<dev, resetTodo, toHub, hubVars, callerVars>>

\* process_hello_payload: the new session is visible before any port is reset.
ReceiveHello ==
  /\ Receiving("hello")
  /\ LET s == Head(toHost).session IN
       IF s \in {0, fgSessionId} THEN UNCHANGED <<fgSessionId, resetTodo>>
       ELSE fgSessionId' = s /\ resetTodo' = Port
  /\ toHost' = Tail(toHost)
  /\ UNCHANGED <<dev, toHub, hubVars, callerVars>>

\* One turn of the loop of reset_port_state(-ESTALE, 0).
ResetPort(p) ==
  /\ p \in resetTodo
  /\ dev' = [dev EXCEPT ![p] =
       IF @.pending
       THEN [@ EXCEPT !.ack_data = -ESTALE, !.ack_cmd = Canceled,
                      !.ack_sequence = dev[p].pending_sequence,
                      !.ack_session = fgSessionId, !.pending = FALSE]
       ELSE EmptyMailbox]
  /\ resetTodo' = resetTodo \ {p}
  /\ UNCHANGED <<fgSessionId, toHub, toHost, hubVars, callerVars>>

\* A frame that fails its CRC is discarded.
LoseFrame ==
  /\ resetTodo = {} /\ toHost # <<>>
  /\ toHost' = Tail(toHost)
  /\ UNCHANGED <<fgSessionId, dev, resetTodo, toHub, hubVars, callerVars>>

Receive == ReceiveAck \/ ReceiveHello \/ \E p \in Port : ResetPort(p)

-----------------------------------------------------------------------------
(* The hub. *)

HubExecute(data) ==
  /\ toHub # <<>> /\ Head(toHub).session = hubSession
  /\ Len(toHost) < LinkCapacity
  /\ LET r == Head(toHub)
         a == [port |-> r.port, cmd |-> r.cmd, sequence |-> r.sequence,
               session |-> r.session, data |-> data]
     IN /\ executed' = executed \cup {a}
        /\ toHost' = Append(toHost, [type |-> "ack", answer |-> a])
  /\ toHub' = Tail(toHub)
  /\ UNCHANGED <<fgSessionId, dev, resetTodo, hubSession, callerVars>>

\* The frame was lost, or belongs to another session.
HubDrop ==
  /\ toHub # <<>>
  /\ toHub' = Tail(toHub)
  /\ UNCHANGED <<fgSessionId, dev, resetTodo, toHost, hubVars, callerVars>>

HubRestart ==
  /\ hubSession < MaxSession
  /\ hubSession' = hubSession + 1
  /\ UNCHANGED <<fgSessionId, dev, resetTodo, toHub, toHost, executed, callerVars>>

HubHello ==
  /\ Len(toHost) < LinkCapacity
  /\ toHost' = Append(toHost, [type |-> "hello", session |-> hubSession])
  /\ UNCHANGED <<fgSessionId, dev, resetTodo, toHub, hubVars, callerVars>>

Hub == (\E data \in AckData : HubExecute(data)) \/ HubDrop \/ HubRestart \/ HubHello

Next ==
  \/ \E c \in Caller, p \in Port, k \in Cmd : Call(c, p, k)
  \/ \E c \in Caller : LockRequest(c) \/ Proceed(c)
  \/ Receive \/ LoseFrame
  \/ Hub

Spec == Init /\ [][Next]_vars

-----------------------------------------------------------------------------
(* What must hold. *)

\* Every variable keeps its type; in particular next_sequence never hands out 0.
TypeOK ==
  /\ fgNextSequence \in 1..(SeqLimit - 1)
  /\ fgSessionId \in Nat \ {0} /\ hubSession \in Nat \ {0}
  /\ dev \in [Port -> Mailboxes]
  /\ request_mutex \in [Port -> Caller \cup {NoCaller}]
  /\ pc \in [Caller -> Labels]
  /\ call \in [Caller -> Locals]
  /\ resetTodo \subseteq Port
  /\ toHub \in Seq(Requests) /\ toHost \in Seq(Frames)
  /\ executed \subseteq Answers
  /\ calls \in Nat

\* A mailbox waits only on behalf of the call that holds the port's
\* request_mutex and under that call's sequence number: no call ever waits in,
\* or abandons, another's mailbox, whatever thread entered, timed out or was
\* cancelled before it.
PendingIsOwned ==
  \A p \in Port : dev[p].pending =>
    \E c \in Caller :
      /\ request_mutex[p] = c /\ call[c].port = p /\ pc[c] \in Entered
      /\ dev[p].pending_sequence = call[c].sequence

\* No request is orphaned by a change of session: a call that is left waiting
\* after process_hello_payload is done with its port has sent its frame in
\* the current session, so the hub can still answer it.  This rests on the
\* session being published before the ports are reset.
NoOrphanedRequest ==
  \A c \in Caller :
    /\ pc[c] = "wait" /\ Mailbox(c).pending
    /\ call[c].port \notin resetTodo
    => call[c].session = fgSessionId

Returns(c) == pc[c] = "finish" /\ pc'[c] = "idle"

\* raspike_request returns a value of the hub only if the hub gave it for this
\* port, command and sequence number, in the session the host is in when the
\* call returns: never another call's answer, a late one, or one from before a
\* restart.
AnswerIsOurs ==
  [][\A c \in Caller : Returns(c) /\ call'[c].result \in AckData =>
       [port |-> call[c].port, cmd |-> call[c].cmd, session |-> fgSessionId,
        sequence |-> call[c].sequence, data |-> call'[c].result] \in executed]_vars

\* A call that was woken reports a timeout only when the session changed under
\* it: an acknowledgement that the receiver accepted is not lost on the way to
\* the caller.
HonestTimeout ==
  [][\A c \in Caller :
       Returns(c) /\ call[c].completed /\ call'[c].result = -ETIMEDOUT
       => call[c].born # fgSessionId]_vars

-----------------------------------------------------------------------------
(* The abstract service, and how this state stands for one of its states. *)

Stage(label) == IF label = "idle" THEN "idle"
                ELSE IF label = "lock" THEN "asked" ELSE "served"

AskedIn(l) == [port |-> l.port, cmd |-> l.cmd, ticket |-> l.sequence, entered |-> l.born]

stage    == [c \in Caller |-> Stage(pc[c])]
asked    == [c \in Caller |-> AskedIn(call[c])]
returned == [c \in Caller |-> IF pc[c] = "idle" THEN call[c].result ELSE 0]

Service == INSTANCE RequestService WITH
  Ticket  <- 1..(SeqLimit - 1), Values <- AckData,
  Stale   <- -ESTALE, Others <- SendErrors,
  session <- fgSessionId, given <- executed

\* The mutex, the mailbox, the retries, the session check and the cancellation
\* implement the service: one call at a time on a port, each returned exactly
\* once, with this call's answer or with an error that is true.
ImplementsService == Service!Spec
=============================================================================

------------------------ MODULE RaspikeRequestProofs ------------------------
(***************************************************************************)
(* Proofs about RaspikeRequest, for any callers, ports, commands, answers  *)
(* and bounds.  Inductive is the conjunction of the named parts below;     *)
(* TypeOK, PendingIsOwned and NoOrphanedRequest are conjuncts of it, and   *)
(* AnswerIsOurs follows from it for every step.                            *)
(* The second half proves that RaspikeRequest implements RequestService:   *)
(* every step of the protocol is a step of the service or leaves its state *)
(* alone.  On top of Inductive this needs Honest: what a call is told of a *)
(* change of session is true.  The last part proves, on top of both, that  *)
(* a timeout is honest (HonestTimeout).                                    *)
(***************************************************************************)
EXTENDS RaspikeRequest, FiniteSetTheorems, TLAPS

\* A call that has still to send or to wait has an attempt left.
AttemptsLeft ==
  \A c \in Caller : pc[c] \notin {"idle", "finish"} => call[c].attempt < MaxAttempts

\* A call past the lock holds the request_mutex of its port.
HoldsMutex ==
  \A c \in Caller : pc[c] \in Inside => request_mutex[call[c].port] = c

\* Until it finishes, a call's result is what the sending side left in it.
ResultIsPrivate ==
  \A c \in Caller : pc[c] \in Entered => call[c].result \in SendErrors

\* Acknowledgements in flight, and those in a mailbox, were given by the hub;
\* a cancelled mailbox holds the error of the reset.
FramesAreGenuine ==
  \A i \in 1..Len(toHost) : toHost[i].type = "ack" => toHost[i].answer \in executed

Stored(p) == [port |-> p, cmd |-> dev[p].ack_cmd, sequence |-> dev[p].ack_sequence,
              session |-> dev[p].ack_session, data |-> dev[p].ack_data]

MailboxesAreGenuine ==
  \A p \in Port : /\ dev[p].ack_cmd \in Cmd => Stored(p) \in executed
                  /\ dev[p].ack_cmd = Canceled => dev[p].ack_data = -ESTALE

Typed == TypeOK /\ AttemptsLeft

Inductive ==
  /\ Typed
  /\ HoldsMutex /\ PendingIsOwned /\ NoOrphanedRequest
  /\ ResultIsPrivate /\ FramesAreGenuine /\ MailboxesAreGenuine

-----------------------------------------------------------------------------
(* Types. *)

\* The next sequence number is a positive one below the limit: next_sequence skips 0.
LEMMA NextSequenceType ==
  ASSUME NEW n \in 1..(SeqLimit - 1)
  PROVE  NextSequence(n) \in 1..(SeqLimit - 1)
BY RequestAssumption DEF NextSequence

\* A link that has just been opened has the right types.
LEMMA InitTyped == Init => Typed
BY RequestAssumption
   DEF Init, Typed, TypeOK, AttemptsLeft, EmptyMailbox, Mailboxes, NewCall, Locals,
       Labels, MaxAttempts, Canceled, Requests, Frames

\* What each field of a call may be set to.
LEMMA LocalsUpdate ==
  ASSUME NEW l \in Locals
  PROVE  /\ l.port \in Port /\ l.cmd \in Cmd /\ l.sequence \in Nat
         /\ l.attempt \in 0..2 /\ l.result \in Int
         /\ \A n \in Nat : [l EXCEPT !.sequence = n] \in Locals
         /\ [l EXCEPT !.completed = TRUE] \in Locals
         /\ \A n \in Nat : [l EXCEPT !.session = n] \in Locals
         /\ \A r \in Int : [l EXCEPT !.result = r] \in Locals
         /\ \A r \in Int, n \in Nat : [l EXCEPT !.result = r, !.born = n] \in Locals
         /\ l.attempt < 2 => [l EXCEPT !.attempt = l.attempt + 1] \in Locals
<1>1. /\ l.port \in Port /\ l.cmd \in Cmd /\ l.sequence \in Nat
      /\ l.attempt \in 0..2 /\ l.result \in Int
  BY DEF Locals, MaxAttempts
<1>2. ASSUME NEW n \in Nat PROVE [l EXCEPT !.sequence = n] \in Locals
  BY DEF Locals
<1>3. [l EXCEPT !.completed = TRUE] \in Locals
  BY DEF Locals
<1>4. ASSUME NEW n \in Nat PROVE [l EXCEPT !.session = n] \in Locals
  BY DEF Locals
<1>5. ASSUME NEW r \in Int PROVE [l EXCEPT !.result = r] \in Locals
  BY DEF Locals
<1>6. ASSUME NEW r \in Int, NEW n \in Nat PROVE [l EXCEPT !.result = r, !.born = n] \in Locals
  BY DEF Locals
<1>7. ASSUME l.attempt < 2 PROVE [l EXCEPT !.attempt = l.attempt + 1] \in Locals
  <2>1. l.attempt + 1 \in 0..MaxAttempts
    BY <1>1, <1>7 DEF MaxAttempts
  <2> QED
    BY <2>1 DEF Locals
<1> QED
  BY <1>1, <1>2, <1>3, <1>4, <1>5, <1>6, <1>7

\* A call of raspike_request begins with locals of the right type.
LEMMA NewCallType ==
  ASSUME NEW p \in Port, NEW k \in Cmd, NEW r \in Int
  PROVE  NewCall(p, k) \in Locals /\ [NewCall(p, k) EXCEPT !.result = r] \in Locals
<1>1. 0 \in Nat /\ 0 \in Int /\ 0 \in 0..MaxAttempts /\ FALSE \in BOOLEAN
  BY DEF MaxAttempts
<1> QED
  BY <1>1 DEF NewCall, Locals

\* What a mailbox may be set to, by the caller and by the receiver.
LEMMA MailboxUpdate ==
  ASSUME NEW m \in Mailboxes, NEW n \in Nat, NEW s \in Nat
  PROVE  /\ m.ack_data \in Int /\ m.pending_sequence \in Nat
         /\ EmptyMailbox \in Mailboxes
         /\ [EmptyMailbox EXCEPT !.pending = TRUE, !.pending_sequence = n] \in Mailboxes
         /\ [m EXCEPT !.pending = FALSE] \in Mailboxes
         /\ \A k \in Cmd \cup {Canceled}, d \in Int :
              [m EXCEPT !.ack_cmd = k, !.ack_data = d, !.ack_sequence = n,
                        !.ack_session = s, !.pending = FALSE] \in Mailboxes
         /\ \A d \in Int :
              [m EXCEPT !.ack_data = d, !.ack_cmd = Canceled, !.ack_sequence = n,
                        !.ack_session = s, !.pending = FALSE] \in Mailboxes
<1>1. m.ack_data \in Int /\ m.pending_sequence \in Nat
  BY DEF Mailboxes
<1>2. EmptyMailbox \in Mailboxes
  BY DEF EmptyMailbox, Mailboxes
<1>3. [EmptyMailbox EXCEPT !.pending = TRUE, !.pending_sequence = n] \in Mailboxes
  BY <1>2 DEF Mailboxes
<1>4. [m EXCEPT !.pending = FALSE] \in Mailboxes
  BY DEF Mailboxes
<1>5. ASSUME NEW k \in Cmd \cup {Canceled}, NEW d \in Int
      PROVE  [m EXCEPT !.ack_cmd = k, !.ack_data = d, !.ack_sequence = n,
                       !.ack_session = s, !.pending = FALSE] \in Mailboxes
  BY DEF Mailboxes
<1>6. ASSUME NEW d \in Int
      PROVE  [m EXCEPT !.ack_data = d, !.ack_cmd = Canceled, !.ack_sequence = n,
                       !.ack_session = s, !.pending = FALSE] \in Mailboxes
  BY DEF Mailboxes
<1> QED
  BY <1>1, <1>2, <1>3, <1>4, <1>5, <1>6

\* Every step of callers, receiver, link and hub keeps the types.
LEMMA StepTyped == Typed /\ [Next]_vars => Typed'
<1> SUFFICES ASSUME Typed, [Next]_vars PROVE Typed'
  OBVIOUS
<1> USE RequestAssumption
<1> USE DEF Typed, TypeOK, AttemptsLeft, MaxAttempts, Goto, hubVars, callerVars
<1>0. \A c \in Caller : call[c] \in Locals
  OBVIOUS
<1>1. ASSUME NEW c \in Caller, NEW p \in Port, NEW k \in Cmd, Call(c, p, k) PROVE Typed'
  <2>1. call' \in [Caller -> Locals]
    BY <1>1, NewCallType DEF Call, NewCall
  <2>2. pc' \in [Caller -> Labels] /\ AttemptsLeft'
    BY <1>1 DEF Call, Labels, NewCall
  <2> QED
    BY <1>1, <2>1, <2>2 DEF Call
<1>2. ASSUME NEW c \in Caller, LockRequest(c) PROVE Typed'
  <2>1. pc' \in [Caller -> Labels] /\ AttemptsLeft'
    BY <1>2 DEF LockRequest, Labels
  <2> QED
    BY <1>0, <1>2, <2>1 DEF LockRequest
<1>3. ASSUME NEW c \in Caller, TakeSequence(c) PROVE Typed'
  <2>1. fgNextSequence \in Nat /\ fgNextSequence' \in 1..(SeqLimit - 1)
    BY <1>3, NextSequenceType DEF TakeSequence
  <2>2. call' \in [Caller -> Locals]
    BY <1>0, <1>3, <2>1, LocalsUpdate DEF TakeSequence
  <2>3. pc' \in [Caller -> Labels] /\ AttemptsLeft'
    BY <1>3 DEF TakeSequence, Labels
  <2> QED
    BY <1>3, <2>1, <2>2, <2>3 DEF TakeSequence
<1>4. ASSUME NEW c \in Caller, MarkPending(c) PROVE Typed'
  <2>1. call' \in [Caller -> Locals]
    <3> DEFINE b == IF call[c].port \in resetTodo THEN 0 ELSE fgSessionId
    <3>1. b \in Nat /\ -ETIMEDOUT \in Int
      BY DEF ETIMEDOUT
    <3>2. [call[c] EXCEPT !.result = -ETIMEDOUT, !.born = b] \in Locals
      BY <1>0, <3>1, LocalsUpdate
    <3> QED
      BY <1>4, <3>2 DEF MarkPending
  <2>2. dev' \in [Port -> Mailboxes]
    BY <1>0, <1>4, LocalsUpdate, MailboxUpdate DEF MarkPending
  <2>3. pc' \in [Caller -> Labels]
    BY <1>4 DEF MarkPending, Labels
  <2>4. AttemptsLeft'
    BY <1>0, <1>4 DEF MarkPending, Locals
  <2> QED
    BY <1>4, <2>1, <2>2, <2>3, <2>4 DEF MarkPending
<1>5. ASSUME NEW c \in Caller, BeginAttempt(c) PROVE Typed'
  <2>1. call' \in [Caller -> Locals]
    <3>1. [call[c] EXCEPT !.completed = TRUE] \in Locals
      BY <1>0, LocalsUpdate
    <3> QED
      BY <1>5, <3>1 DEF BeginAttempt
  <2>2. pc' \in [Caller -> Labels] /\ AttemptsLeft'
    BY <1>5 DEF BeginAttempt, Labels
  <2> QED
    BY <1>5, <2>1, <2>2 DEF BeginAttempt
<1>6. ASSUME NEW c \in Caller, Send(c) PROVE Typed'
  <2>1. Frame(c) \in Requests
    BY <1>0, LocalsUpdate DEF Frame, Requests
  <2>2. toHub' \in Seq(Requests)
    BY <1>6, <2>1 DEF Send
  <2>3. call' \in [Caller -> Locals]
    BY <1>0, <1>6, LocalsUpdate DEF Send
  <2>4. pc' \in [Caller -> Labels] /\ AttemptsLeft'
    BY <1>0, <1>6 DEF Send, Labels, Locals
  <2> QED
    BY <1>6, <2>2, <2>3, <2>4 DEF Send
<1>7. ASSUME NEW c \in Caller, SendFails(c) PROVE Typed'
  <2>1. PICK error \in SendErrors : call' = [call EXCEPT ![c].result = error]
    BY <1>7 DEF SendFails
  <2>2. call' \in [Caller -> Locals]
    <3>1. error \in Int
      BY DEF SendErrors, ETIMEDOUT, EIO
    <3> QED
      BY <1>0, <2>1, <3>1, LocalsUpdate
  <2>3. Frame(c) \in Requests
    BY <1>0, LocalsUpdate DEF Frame, Requests
  <2>4. toHub' \in Seq(Requests)
    <3>1. Append(toHub, Frame(c)) \in Seq(Requests)
      BY <2>3
    <3> QED
      BY <1>7, <3>1 DEF SendFails
  <2>5. pc' \in [Caller -> Labels] /\ AttemptsLeft'
    BY <1>7, <2>1 DEF SendFails, Labels
  <2> QED
    BY <1>7, <2>2, <2>4, <2>5 DEF SendFails
<1>8. ASSUME NEW c \in Caller, WaitDone(c) PROVE Typed'
  <2>1. call' \in [Caller -> Locals]
    BY <1>0, <1>8, LocalsUpdate DEF WaitDone
  <2>2. pc' \in [Caller -> Labels] /\ AttemptsLeft'
    BY <1>8 DEF WaitDone, Labels
  <2> QED
    BY <1>8, <2>1, <2>2 DEF WaitDone
<1>9. ASSUME NEW c \in Caller, WaitExpires(c) PROVE Typed'
  <2>1. call' = [call EXCEPT ![c].attempt = call[c].attempt + 1] /\ call[c].attempt < 2
    BY <1>9 DEF WaitExpires
  <2>2. call' \in [Caller -> Locals]
    BY <1>0, <2>1, LocalsUpdate
  <2>3. pc' \in [Caller -> Labels]
    BY <1>9 DEF WaitExpires, Labels
  <2>4. AttemptsLeft'
    <3>1. \A d \in Caller \ {c} : pc'[d] = pc[d] /\ call'[d] = call[d]
      BY <1>9, <2>1 DEF WaitExpires
    <3>2. call[c].attempt \in 0..2 /\ call'[c].attempt = call[c].attempt + 1
      BY <1>0, <2>1 DEF Locals
    <3>3. call[c].attempt + 1 < 2 \/ pc'[c] = "finish"
      BY <1>9 DEF WaitExpires
    <3> QED
      BY <3>1, <3>2, <3>3
  <2> QED
    BY <1>9, <2>2, <2>3, <2>4 DEF WaitExpires
<1>10. ASSUME NEW c \in Caller, Finish(c) PROVE Typed'
  <2>1. ResultOf(c) \in Int /\ call[c].port \in Port /\ call[c].cmd \in Cmd
    BY <1>0, LocalsUpdate, MailboxUpdate DEF ResultOf, Mailbox
  <2>2. call' \in [Caller -> Locals]
    BY <1>10, <2>1, NewCallType DEF Finish
  <2>3. dev' \in [Port -> Mailboxes]
    BY <1>10, <2>1, MailboxUpdate DEF Finish
  <2>4. pc' \in [Caller -> Labels] /\ AttemptsLeft'
    BY <1>10 DEF Finish, Labels
  <2> QED
    BY <1>10, <2>1, <2>2, <2>3, <2>4 DEF Finish
<1>11. CASE ReceiveAck
  <2> DEFINE a == Head(toHost).answer
  <2>1. Head(toHost) \in Frames /\ Head(toHost).type = "ack" /\ toHost' \in Seq(Frames)
    BY <1>11 DEF ReceiveAck, Receiving
  <2>2. a \in Answers
    BY <2>1 DEF Frames
  <2>3. /\ a.port \in Port /\ a.cmd \in Cmd /\ a.data \in Int
        /\ a.sequence \in Nat /\ a.session \in Nat
    BY <2>2 DEF Answers
  <2>4. dev' \in [Port -> Mailboxes]
    <3>1. [dev[a.port] EXCEPT !.ack_cmd = a.cmd, !.ack_data = a.data,
                              !.ack_sequence = a.sequence, !.ack_session = a.session,
                              !.pending = FALSE] \in Mailboxes
      BY <2>3, MailboxUpdate
    <3> QED
      BY <1>11, <2>3, <3>1 DEF ReceiveAck
  <2> QED
    BY <1>11, <2>1, <2>4 DEF ReceiveAck
<1>12. CASE ReceiveHello
  <2>1. Head(toHost) \in Frames /\ Head(toHost).type = "hello" /\ toHost' \in Seq(Frames)
    BY <1>12 DEF ReceiveHello, Receiving
  <2>2. Head(toHost).session \in Nat
    BY <2>1 DEF Frames
  <2> QED
    BY <1>12, <2>1, <2>2 DEF ReceiveHello
<1>13. ASSUME NEW p \in Port, ResetPort(p) PROVE Typed'
  <2>1. dev[p] \in Mailboxes
    OBVIOUS
  <2>2. dev[p].pending_sequence \in Nat
    BY <2>1 DEF Mailboxes
  <2>3. dev' \in [Port -> Mailboxes]
    <3>1. -ESTALE \in Int
      BY DEF ESTALE
    <3>2. [dev[p] EXCEPT !.ack_data = -ESTALE, !.ack_cmd = Canceled,
                         !.ack_sequence = dev[p].pending_sequence,
                         !.ack_session = fgSessionId, !.pending = FALSE] \in Mailboxes
      BY <2>1, <2>2, <3>1, MailboxUpdate
    <3>3. EmptyMailbox \in Mailboxes
      BY DEF EmptyMailbox, Mailboxes
    <3> QED
      BY <1>13, <3>2, <3>3 DEF ResetPort
  <2> QED
    BY <1>13, <2>3 DEF ResetPort
<1>14. CASE LoseFrame
  BY <1>14 DEF LoseFrame
<1>15. ASSUME NEW data \in AckData, HubExecute(data) PROVE Typed'
  <2> DEFINE r == Head(toHub)
             a == [port |-> r.port, cmd |-> r.cmd, sequence |-> r.sequence,
                   session |-> r.session, data |-> data]
  <2>1. r \in Requests /\ toHub' \in Seq(Requests)
    BY <1>15 DEF HubExecute
  <2>2. a \in Answers
    BY <2>1 DEF Requests, Answers
  <2>3. [type |-> "ack", answer |-> a] \in Frames
    BY <2>2 DEF Frames
  <2>4. executed' \subseteq Answers /\ toHost' \in Seq(Frames)
    BY <1>15, <2>2, <2>3 DEF HubExecute
  <2> QED
    BY <1>15, <2>1, <2>4 DEF HubExecute
<1>16. CASE HubDrop
  BY <1>16 DEF HubDrop
<1>17. CASE HubRestart
  BY <1>17 DEF HubRestart
<1>18. CASE HubHello
  <2>1. [type |-> "hello", session |-> hubSession] \in Frames
    BY DEF Frames
  <2> QED
    BY <1>18, <2>1 DEF HubHello
<1>19. CASE UNCHANGED vars
  BY <1>19 DEF vars
<1> QED
  BY <1>1, <1>2, <1>3, <1>4, <1>5, <1>6, <1>7, <1>8, <1>9, <1>10, <1>11, <1>12,
     <1>13, <1>14, <1>15, <1>16, <1>17, <1>18, <1>19
  DEF Next, Proceed, Receive, Hub

-----------------------------------------------------------------------------
(* Who holds a port and waits in its mailbox. *)

\* A step of one call leaves the other calls, and its own port and command, alone.
LEMMA OneCallerMoves ==
  ASSUME Typed, NEW c \in Caller, LockRequest(c) \/ Proceed(c)
  PROVE  /\ \A d \in Caller \ {c} : pc'[d] = pc[d] /\ call'[d] = call[d]
         /\ call'[c].port = call[c].port /\ call'[c].cmd = call[c].cmd
<1>1. call[c] \in Locals /\ call \in [Caller -> Locals] /\ pc \in [Caller -> Labels]
  BY DEF Typed, TypeOK
<1> USE DEF Goto
<1>2. CASE LockRequest(c) \/ TakeSequence(c) \/ MarkPending(c)
  BY <1>1, <1>2 DEF LockRequest, TakeSequence, MarkPending, Locals
<1>3. CASE BeginAttempt(c)
  BY <1>1, <1>3 DEF BeginAttempt, Locals
<1>4. CASE Send(c) \/ WaitDone(c)
  BY <1>1, <1>4 DEF Send, WaitDone, Locals
<1>5. CASE SendFails(c)
  <2>1. PICK error \in SendErrors : call' = [call EXCEPT ![c].result = error]
    BY <1>5 DEF SendFails
  <2> QED
    BY <1>1, <1>5, <2>1 DEF SendFails, Locals
<1>6. CASE WaitExpires(c)
  <2>1. call' = [call EXCEPT ![c].attempt = call[c].attempt + 1]
    BY <1>6 DEF WaitExpires
  <2>2. call'[c].port = call[c].port /\ call'[c].cmd = call[c].cmd
    BY <1>1, <2>1 DEF Locals
  <2> QED
    BY <1>1, <1>6, <2>1, <2>2 DEF WaitExpires
<1>7. CASE Finish(c)
  BY <1>1, <1>7 DEF Finish, NewCall
<1> QED
  BY <1>2, <1>3, <1>4, <1>5, <1>6, <1>7 DEF Proceed

\* What the actions of the receiver, the link and the hub leave to the callers.
LEMMA OutsideSteps ==
  ASSUME Receive \/ LoseFrame \/ Hub \/ UNCHANGED vars
  PROVE  UNCHANGED callerVars
BY DEF Receive, ReceiveAck, ReceiveHello, ResetPort, LoseFrame, Hub, HubExecute,
       HubDrop, HubRestart, HubHello, callerVars, vars

\* Every step keeps request_mutex with the caller that is inside raspike_request.
LEMMA StepMutex == Typed /\ HoldsMutex /\ [Next]_vars => HoldsMutex'
<1> SUFFICES ASSUME Typed, HoldsMutex, [Next]_vars PROVE HoldsMutex'
  OBVIOUS
<1> USE RequestAssumption
<1>0. /\ pc \in [Caller -> Labels] /\ call \in [Caller -> Locals]
      /\ request_mutex \in [Port -> Caller \cup {NoCaller}]
      /\ \A c \in Caller : call[c].port \in Port
  BY DEF Typed, TypeOK, Locals
<1> USE DEF HoldsMutex, Inside, Labels, Goto
<1>1. ASSUME NEW c \in Caller, NEW p \in Port, NEW k \in Cmd, Call(c, p, k)
      PROVE  HoldsMutex'
  BY <1>0, <1>1 DEF Call
<1>2. ASSUME NEW c \in Caller, LockRequest(c) PROVE HoldsMutex'
  BY <1>0, <1>2, OneCallerMoves DEF LockRequest
<1>3. ASSUME NEW c \in Caller, Finish(c) PROVE HoldsMutex'
  BY <1>0, <1>3, OneCallerMoves DEF Finish, Proceed
<1>4. ASSUME NEW c \in Caller, Proceed(c), ~Finish(c) PROVE HoldsMutex'
  <2>1. request_mutex' = request_mutex /\ pc[c] \in Inside
    BY <1>4 DEF Proceed, TakeSequence, MarkPending, BeginAttempt, Send, SendFails,
       WaitDone, WaitExpires
  <2> QED
    BY <1>0, <1>4, <2>1, OneCallerMoves
<1>5. CASE Receive \/ LoseFrame \/ Hub \/ UNCHANGED vars
  BY <1>5, OutsideSteps DEF callerVars
<1> QED
  BY <1>1, <1>2, <1>3, <1>4, <1>5 DEF Next

\* The receiver and the link only ever end a wait: they start none, and the
\* number a mailbox waits for stays what it was.
LEMMA OutsideNeverWaits ==
  ASSUME Typed, Receive \/ LoseFrame \/ Hub \/ UNCHANGED vars, NEW p \in Port
  PROVE  dev'[p].pending => /\ dev[p].pending
                            /\ dev'[p].pending_sequence = dev[p].pending_sequence
<1>0. dev \in [Port -> Mailboxes]
  BY DEF Typed, TypeOK
<1>1. CASE ReceiveAck
  BY <1>0, <1>1 DEF ReceiveAck, Mailboxes
<1>2. ASSUME NEW q \in Port, ResetPort(q) PROVE dev'[p].pending => dev'[p] = dev[p]
  BY <1>0, <1>2 DEF ResetPort, Mailboxes, EmptyMailbox
<1>3. CASE ReceiveHello \/ LoseFrame \/ Hub \/ UNCHANGED vars
  BY <1>3 DEF ReceiveHello, LoseFrame, Hub, HubExecute, HubDrop, HubRestart, HubHello, vars
<1> QED
  BY <1>1, <1>2, <1>3 DEF Receive

\* No step makes a mailbox wait for anything but the call inside: only mark sets pending.
LEMMA StepPending ==
  Typed /\ HoldsMutex /\ PendingIsOwned /\ [Next]_vars => PendingIsOwned'
<1> SUFFICES ASSUME Typed, HoldsMutex, PendingIsOwned, [Next]_vars,
                    NEW p \in Port, dev'[p].pending
             PROVE  \E c \in Caller :
                      /\ request_mutex'[p] = c /\ call'[c].port = p /\ pc'[c] \in Entered
                      /\ dev'[p].pending_sequence = call'[c].sequence
  BY DEF PendingIsOwned
<1> USE RequestAssumption
<1>0. /\ pc \in [Caller -> Labels] /\ call \in [Caller -> Locals]
      /\ dev \in [Port -> Mailboxes]
      /\ request_mutex \in [Port -> Caller \cup {NoCaller}]
      /\ \A c \in Caller : call[c].port \in Port /\ call[c] \in Locals
  BY DEF Typed, TypeOK, Locals
<1> DEFINE Owns(c) == /\ request_mutex[p] = c /\ call[c].port = p /\ pc[c] \in Entered
                      /\ dev[p].pending_sequence = call[c].sequence
<1>a. dev[p].pending => \E c \in Caller : Owns(c)
  BY DEF PendingIsOwned
<1> USE DEF Entered, Inside, Labels, Goto
<1>1. ASSUME NEW c \in Caller, NEW q \in Port, NEW k \in Cmd, Call(c, q, k)
      PROVE  \E d \in Caller : Owns(d)'
  <2>1. PICK d \in Caller : Owns(d)
    BY <1>1, <1>a DEF Call
  <2> QED
    BY <1>0, <1>1, <2>1 DEF Call
<1>2. ASSUME NEW c \in Caller, LockRequest(c) PROVE \E d \in Caller : Owns(d)'
  <2>1. PICK d \in Caller : Owns(d)
    BY <1>2, <1>a DEF LockRequest
  <2> QED
    BY <1>0, <1>2, <2>1 DEF LockRequest
<1>3. ASSUME NEW c \in Caller, TakeSequence(c) PROVE \E d \in Caller : Owns(d)'
  <2>1. PICK d \in Caller : Owns(d)
    BY <1>3, <1>a DEF TakeSequence
  <2> QED
    BY <1>0, <1>3, <2>1 DEF TakeSequence
<1>4. ASSUME NEW c \in Caller, MarkPending(c) PROVE \E d \in Caller : Owns(d)'
  <2>1. CASE call[c].port = p
    <3>1. dev'[p].pending_sequence = call[c].sequence
      BY <1>0, <1>4, <2>1 DEF MarkPending, EmptyMailbox
    <3>2. call'[c].sequence = call[c].sequence
      BY <1>0, <1>4 DEF MarkPending, Locals
    <3>3. /\ pc[c] = "mark" /\ pc' = [pc EXCEPT ![c] = "attempt"]
          /\ request_mutex' = request_mutex
      BY <1>4 DEF MarkPending
    <3>4. pc'[c] \in Entered
      BY <1>0, <3>3
    <3>5. request_mutex'[p] = c
      BY <2>1, <3>3 DEF HoldsMutex
    <3>6. call'[c].port = call[c].port
      <4>1. PICK b \in Nat \cup {0, fgSessionId} :
              call' = [call EXCEPT ![c].result = -ETIMEDOUT, ![c].born = b]
        BY <1>4 DEF MarkPending
      <4> QED
        BY <1>0, <4>1 DEF Locals
    <3>7. Owns(c)'
      BY <2>1, <3>1, <3>2, <3>4, <3>5, <3>6
    <3> QED
      BY <3>7
  <2>2. CASE call[c].port # p
    <3>1. PICK d \in Caller : Owns(d)
      BY <1>0, <1>4, <1>a, <2>2 DEF MarkPending
    <3> QED
      BY <1>0, <1>4, <2>2, <3>1 DEF MarkPending
  <2> QED
    BY <2>1, <2>2
<1>5. ASSUME NEW c \in Caller, Finish(c) PROVE \E d \in Caller : Owns(d)'
  <2>1. p # call[c].port
    BY <1>0, <1>5 DEF Finish, Mailboxes
  <2>2. PICK d \in Caller : Owns(d)
    BY <1>0, <1>5, <1>a, <2>1 DEF Finish
  <2> QED
    BY <1>0, <1>5, <2>1, <2>2 DEF Finish
<1>6. ASSUME NEW c \in Caller, BeginAttempt(c) \/ Send(c) \/ SendFails(c)
                                \/ WaitDone(c) \/ WaitExpires(c)
      PROVE  \E d \in Caller : Owns(d)'
  <2>1. call'[c].sequence = call[c].sequence
    <3>1. CASE SendFails(c)
      <4>1. PICK error \in SendErrors : call' = [call EXCEPT ![c].result = error]
        BY <3>1 DEF SendFails
      <4> QED
        BY <1>0, <4>1 DEF Locals
    <3>2. CASE WaitExpires(c)
      <4>1. call' = [call EXCEPT ![c].attempt = call[c].attempt + 1]
        BY <3>2 DEF WaitExpires
      <4> QED
        BY <1>0, <4>1 DEF Locals
    <3> QED
      BY <1>0, <1>6, <3>1, <3>2 DEF BeginAttempt, Send, WaitDone, Locals
  <2>2. /\ request_mutex' = request_mutex /\ dev' = dev
        /\ pc[c] \in Entered /\ pc'[c] \in Entered
    BY <1>0, <1>6 DEF BeginAttempt, Send, SendFails, WaitDone, WaitExpires
  <2>3. PICK d \in Caller : Owns(d)
    BY <1>a, <2>2
  <2> QED
    BY <1>6, <2>1, <2>2, <2>3, OneCallerMoves DEF Proceed
<1>7. CASE Receive \/ LoseFrame \/ Hub \/ UNCHANGED vars
  <2>1. dev[p].pending /\ dev'[p].pending_sequence = dev[p].pending_sequence
    BY <1>7, OutsideNeverWaits
  <2> QED
    BY <1>7, <1>a, <2>1, OutsideSteps DEF callerVars
<1> QED
  BY <1>1, <1>2, <1>3, <1>4, <1>5, <1>6, <1>7 DEF Next, Proceed

\* No step leaves a request of an old session waiting: reset_port_state cancels it.
LEMMA StepOrphan ==
  Typed /\ HoldsMutex /\ NoOrphanedRequest /\ [Next]_vars => NoOrphanedRequest'
<1> SUFFICES ASSUME Typed, HoldsMutex, NoOrphanedRequest, [Next]_vars, NEW d \in Caller,
                    pc'[d] = "wait", dev'[call'[d].port].pending,
                    call'[d].port \notin resetTodo'
             PROVE  call'[d].session = fgSessionId'
  BY DEF NoOrphanedRequest, Mailbox
<1> USE RequestAssumption
<1>0. /\ pc \in [Caller -> Labels] /\ call \in [Caller -> Locals]
      /\ dev \in [Port -> Mailboxes]
      /\ \A c \in Caller : call[c].port \in Port /\ call[c] \in Locals
  BY DEF Typed, TypeOK, Locals
<1> DEFINE p == call[d].port
<1>a. pc[d] = "wait" /\ dev[p].pending /\ p \notin resetTodo => call[d].session = fgSessionId
  BY DEF NoOrphanedRequest, Mailbox
<1> USE DEF Inside, Labels, Goto
<1>1. ASSUME NEW c \in Caller, NEW q \in Port, NEW k \in Cmd, Call(c, q, k)
      PROVE  call'[d].session = fgSessionId'
  BY <1>0, <1>1, <1>a DEF Call
<1>2. ASSUME NEW c \in Caller, LockRequest(c) \/ TakeSequence(c) \/ BeginAttempt(c)
                                \/ WaitDone(c) \/ WaitExpires(c) \/ SendFails(c)
      PROVE  call'[d].session = fgSessionId'
  <2>1. /\ pc'[c] # "wait"
        /\ UNCHANGED <<dev, resetTodo, fgSessionId>>
    BY <1>0, <1>2 DEF LockRequest, TakeSequence, BeginAttempt, WaitDone, WaitExpires, SendFails
  <2> QED
    BY <1>0, <1>2, <1>a, <2>1, OneCallerMoves DEF Proceed
<1>3. ASSUME NEW c \in Caller, MarkPending(c) PROVE call'[d].session = fgSessionId'
  <2>1. c # d /\ pc[d] = "wait" /\ call'[d] = call[d]
    BY <1>0, <1>3, OneCallerMoves DEF MarkPending, Proceed
  <2>2. call[c].port # p
    BY <1>0, <1>3, <2>1 DEF MarkPending, HoldsMutex
  <2> QED
    BY <1>0, <1>3, <1>a, <2>1, <2>2 DEF MarkPending
<1>4. ASSUME NEW c \in Caller, Send(c) PROVE call'[d].session = fgSessionId'
  BY <1>0, <1>4, <1>a DEF Send, Locals
<1>5. ASSUME NEW c \in Caller, Finish(c) PROVE call'[d].session = fgSessionId'
  <2>1. c # d /\ pc[d] = "wait" /\ call'[d] = call[d]
    BY <1>0, <1>5, OneCallerMoves DEF Finish, Proceed
  <2>2. call[c].port # p
    BY <1>0, <1>5, <2>1 DEF Finish, HoldsMutex
  <2> QED
    BY <1>0, <1>5, <1>a, <2>1, <2>2 DEF Finish
<1>6. CASE ReceiveHello
  \* Either the session is unchanged, or every port is now to be reset.
  BY <1>0, <1>6, <1>a DEF ReceiveHello, callerVars
<1>7. ASSUME NEW q \in Port, ResetPort(q) PROVE call'[d].session = fgSessionId'
  <2>1. ~dev'[q].pending
    BY <1>0, <1>7 DEF ResetPort, Mailboxes, EmptyMailbox
  <2> QED
    BY <1>0, <1>7, <1>a, <2>1, OutsideNeverWaits DEF ResetPort, callerVars
<1>8. CASE ReceiveAck
  BY <1>0, <1>8, <1>a, OutsideNeverWaits DEF ReceiveAck, Receive, callerVars
<1>9. CASE LoseFrame \/ Hub \/ UNCHANGED vars
  BY <1>a, <1>9 DEF LoseFrame, Hub, HubExecute, HubDrop, HubRestart, HubHello,
     callerVars, vars
<1> QED
  BY <1>1, <1>2, <1>3, <1>4, <1>5, <1>6, <1>7, <1>8, <1>9 DEF Next, Proceed, Receive

-----------------------------------------------------------------------------
(* Where a result comes from. *)

\* Every step keeps the result of an unfinished call to itself: only errors are in it.
LEMMA StepPrivate ==
  Typed /\ ResultIsPrivate /\ [Next]_vars => ResultIsPrivate'
<1> SUFFICES ASSUME Typed, ResultIsPrivate, [Next]_vars PROVE ResultIsPrivate'
  OBVIOUS
<1>0. /\ pc \in [Caller -> Labels] /\ call \in [Caller -> Locals]
      /\ \A c \in Caller : call[c] \in Locals
  BY DEF Typed, TypeOK
<1> USE DEF ResultIsPrivate, Entered, Inside, Labels, Goto
<1>1. ASSUME NEW c \in Caller, NEW p \in Port, NEW k \in Cmd, Call(c, p, k)
      PROVE  ResultIsPrivate'
  BY <1>0, <1>1 DEF Call
<1>2. ASSUME NEW c \in Caller, LockRequest(c) \/ TakeSequence(c) \/ Finish(c)
      PROVE  ResultIsPrivate'
  BY <1>0, <1>2, OneCallerMoves DEF LockRequest, TakeSequence, Finish, Proceed
<1>3. ASSUME NEW c \in Caller, MarkPending(c) PROVE ResultIsPrivate'
  <2>1. call'[c].result = -ETIMEDOUT
    BY <1>0, <1>3 DEF MarkPending, Locals
  <2> QED
    BY <1>0, <1>3, <2>1, OneCallerMoves DEF Proceed, SendErrors
<1>4. ASSUME NEW c \in Caller, SendFails(c) PROVE ResultIsPrivate'
  <2>1. PICK error \in SendErrors : call' = [call EXCEPT ![c].result = error]
    BY <1>4 DEF SendFails
  <2>2. call'[c].result \in SendErrors
    BY <1>0, <2>1 DEF Locals
  <2> QED
    BY <1>0, <1>4, <2>2, OneCallerMoves DEF Proceed
<1>5. ASSUME NEW c \in Caller, BeginAttempt(c) \/ Send(c) \/ WaitDone(c) \/ WaitExpires(c)
      PROVE  ResultIsPrivate'
  <2>1. call'[c].result = call[c].result /\ pc[c] \in Entered
    <3>1. CASE WaitExpires(c)
      <4>1. call' = [call EXCEPT ![c].attempt = call[c].attempt + 1]
        BY <3>1 DEF WaitExpires
      <4> QED
        BY <1>0, <3>1, <4>1 DEF WaitExpires, Locals
    <3> QED
      BY <1>0, <1>5, <3>1 DEF BeginAttempt, Send, WaitDone, Locals
  <2> QED
    BY <1>0, <1>5, <2>1, OneCallerMoves DEF Proceed
<1>6. CASE Receive \/ LoseFrame \/ Hub \/ UNCHANGED vars
  BY <1>6, OutsideSteps DEF callerVars
<1> QED
  BY <1>1, <1>2, <1>3, <1>4, <1>5, <1>6 DEF Next, Proceed

\* Every step puts only answers on the way that the hub gave.
LEMMA StepFrames ==
  Typed /\ FramesAreGenuine /\ [Next]_vars => FramesAreGenuine'
<1> SUFFICES ASSUME Typed, FramesAreGenuine, [Next]_vars PROVE FramesAreGenuine'
  OBVIOUS
<1>0. toHost \in Seq(Frames) /\ toHub \in Seq(Requests)
  BY DEF Typed, TypeOK
<1> USE DEF FramesAreGenuine
<1>1. CASE UNCHANGED <<toHost, executed>>
  BY <1>1
<1>2. ASSUME toHost # <<>>, toHost' = Tail(toHost), executed' = executed
      PROVE  FramesAreGenuine'
  <2>1. \A i \in 1..Len(toHost') : i + 1 \in 1..Len(toHost) /\ toHost'[i] = toHost[i + 1]
    BY <1>0, <1>2
  <2> QED
    BY <1>2, <2>1
<1>3. ASSUME NEW f, f.type = "ack" => f.answer \in executed',
             toHost' = Append(toHost, f), executed \subseteq executed'
      PROVE  FramesAreGenuine'
  <2>1. ASSUME NEW i \in 1..Len(toHost')
        PROVE  toHost'[i] = f \/ (i \in 1..Len(toHost) /\ toHost'[i] = toHost[i])
    BY <1>0, <1>3
  <2> QED
    BY <1>3, <2>1
<1>4. ASSUME NEW data \in AckData, HubExecute(data) PROVE FramesAreGenuine'
  <2> DEFINE r == Head(toHub)
             a == [port |-> r.port, cmd |-> r.cmd, sequence |-> r.sequence,
                   session |-> r.session, data |-> data]
             f == [type |-> "ack", answer |-> a]
  <2>1. executed' = executed \cup {a} /\ toHost' = Append(toHost, f)
    BY <1>4 DEF HubExecute
  <2>2. f.answer = a
    OBVIOUS
  <2> QED
    BY <1>3, <2>1, <2>2
<1>5. CASE HubHello
  <2> DEFINE f == [type |-> "hello", session |-> hubSession]
  <2>1. toHost' = Append(toHost, f) /\ executed' = executed
    BY <1>5 DEF HubHello, hubVars
  <2>2. f.type # "ack"
    OBVIOUS
  <2> QED
    BY <1>3, <2>1, <2>2
<1>6. CASE ReceiveAck \/ ReceiveHello \/ LoseFrame
  BY <1>2, <1>6 DEF ReceiveAck, ReceiveHello, LoseFrame, Receiving, hubVars
<1>7. CASE HubDrop \/ HubRestart \/ (\E p \in Port : ResetPort(p)) \/ UNCHANGED vars
  BY <1>1, <1>7 DEF HubDrop, HubRestart, ResetPort, hubVars, vars
<1>8. ASSUME NEW c \in Caller, LockRequest(c) \/ Proceed(c) PROVE FramesAreGenuine'
  BY <1>1, <1>8 DEF LockRequest, Proceed, TakeSequence, MarkPending, BeginAttempt, Send,
     SendFails, WaitDone, WaitExpires, Finish, hubVars
<1>9. ASSUME NEW c \in Caller, NEW p \in Port, NEW k \in Cmd, Call(c, p, k)
      PROVE  FramesAreGenuine'
  BY <1>1, <1>9 DEF Call, hubVars
<1> QED
  BY <1>4, <1>5, <1>6, <1>7, <1>8, <1>9 DEF Next, Receive, Hub

\* Every step puts only answers in a mailbox that the hub gave, and those under their port.
LEMMA StepMailboxes ==
  Typed /\ FramesAreGenuine /\ MailboxesAreGenuine /\ [Next]_vars => MailboxesAreGenuine'
<1> SUFFICES ASSUME Typed, FramesAreGenuine, MailboxesAreGenuine, [Next]_vars
             PROVE  MailboxesAreGenuine'
  OBVIOUS
<1> USE RequestAssumption
<1>0. /\ dev \in [Port -> Mailboxes] /\ toHost \in Seq(Frames)
      /\ \A c \in Caller : call[c].port \in Port
  BY DEF Typed, TypeOK, Locals
<1> DEFINE Genuine(p) == /\ dev[p].ack_cmd \in Cmd => Stored(p) \in executed
                         /\ dev[p].ack_cmd = Canceled => dev[p].ack_data = -ESTALE
<1>a. \A p \in Port : Genuine(p)
  BY DEF MailboxesAreGenuine
<1>1. ASSUME NEW p \in Port, executed \subseteq executed',
             dev'[p].ack_cmd = dev[p].ack_cmd, dev'[p].ack_data = dev[p].ack_data,
             dev'[p].ack_sequence = dev[p].ack_sequence,
             dev'[p].ack_session = dev[p].ack_session
      PROVE  Genuine(p)'
  BY <1>a, <1>1 DEF Stored
<1>2. ASSUME NEW p \in Port, dev'[p].ack_cmd = 0 PROVE Genuine(p)'
  BY <1>2 DEF Canceled
<1>3. ASSUME NEW c \in Caller, MarkPending(c) PROVE MailboxesAreGenuine'
  <2>1. ASSUME NEW p \in Port PROVE Genuine(p)'
    <3>1. CASE p = call[c].port
      BY <1>0, <1>2, <1>3, <3>1 DEF MarkPending, EmptyMailbox
    <3>2. CASE p # call[c].port
      BY <1>0, <1>1, <1>3, <3>2 DEF MarkPending, hubVars
    <3> QED
      BY <3>1, <3>2
  <2> QED
    BY <2>1 DEF MailboxesAreGenuine
<1>4. ASSUME NEW c \in Caller, Finish(c) PROVE MailboxesAreGenuine'
  <2>1. ASSUME NEW p \in Port PROVE Genuine(p)'
    <3>1. executed' = executed /\ dev' = [dev EXCEPT ![call[c].port].pending = FALSE]
      BY <1>4 DEF Finish, hubVars
    <3>2. /\ dev'[p].ack_cmd = dev[p].ack_cmd /\ dev'[p].ack_data = dev[p].ack_data
          /\ dev'[p].ack_sequence = dev[p].ack_sequence
          /\ dev'[p].ack_session = dev[p].ack_session
      BY <1>0, <3>1 DEF Mailboxes
    <3> QED
      BY <1>1, <3>1, <3>2
  <2> QED
    BY <2>1 DEF MailboxesAreGenuine
<1>5. CASE ReceiveAck
  <2> DEFINE a == Head(toHost).answer
  <2>1. Head(toHost) = toHost[1] /\ 1 \in 1..Len(toHost) /\ Head(toHost).type = "ack"
    BY <1>0, <1>5 DEF ReceiveAck, Receiving
  <2>2. a \in executed /\ a \in Answers
    BY <1>0, <2>1 DEF FramesAreGenuine, Typed, TypeOK
  <2>3. a = [port |-> a.port, cmd |-> a.cmd, sequence |-> a.sequence,
             session |-> a.session, data |-> a.data] /\ a.cmd \in Cmd /\ a.port \in Port
    BY <2>2 DEF Answers
  <2>4. executed' = executed
    BY <1>5 DEF ReceiveAck, hubVars
  <2>5. ASSUME NEW p \in Port PROVE Genuine(p)'
    <3>1. CASE dev'[p] = dev[p]
      BY <1>1, <2>4, <3>1
    <3>2. CASE dev'[p] # dev[p]
      <4>1. p = a.port /\ dev' = [dev EXCEPT ![a.port] =
                     [@ EXCEPT !.ack_cmd = a.cmd, !.ack_data = a.data,
                               !.ack_sequence = a.sequence,
                               !.ack_session = a.session, !.pending = FALSE]]
        BY <1>0, <1>5, <2>3, <3>2 DEF ReceiveAck
      <4>2. /\ dev'[p].ack_cmd = a.cmd /\ dev'[p].ack_data = a.data
            /\ dev'[p].ack_sequence = a.sequence /\ dev'[p].ack_session = a.session
        BY <1>0, <4>1 DEF Mailboxes
      <4>3. Stored(p)' = a
        BY <2>3, <4>1, <4>2 DEF Stored
      <4>4. a.cmd # Canceled
        BY <2>3 DEF Canceled
      <4> QED
        BY <2>2, <2>4, <4>2, <4>3, <4>4
    <3> QED
      BY <3>1, <3>2
  <2> QED
    BY <2>5 DEF MailboxesAreGenuine
<1>6. ASSUME NEW q \in Port, ResetPort(q) PROVE MailboxesAreGenuine'
  <2>1. executed' = executed
    BY <1>6 DEF ResetPort, hubVars
  <2>2. ASSUME NEW p \in Port PROVE Genuine(p)'
    <3>1. CASE dev'[p] = dev[p]
      BY <1>1, <2>1, <3>1
    <3>2. CASE dev[p].pending /\ p = q
      <4>1. dev'[p].ack_cmd = Canceled /\ dev'[p].ack_data = -ESTALE
        BY <1>0, <1>6, <3>2 DEF ResetPort, Mailboxes
      <4> QED
        BY <4>1 DEF Canceled
    <3>3. CASE ~dev[p].pending /\ p = q
      BY <1>0, <1>2, <1>6, <3>3 DEF ResetPort, EmptyMailbox
    <3> QED
      BY <1>0, <1>6, <3>1, <3>2, <3>3 DEF ResetPort
  <2> QED
    BY <2>2 DEF MailboxesAreGenuine
<1>7. ASSUME dev' = dev, executed \subseteq executed' PROVE MailboxesAreGenuine'
  BY <1>1, <1>7 DEF MailboxesAreGenuine
<1>8. ASSUME NEW c \in Caller, LockRequest(c) \/ TakeSequence(c) \/ BeginAttempt(c)
               \/ Send(c) \/ SendFails(c) \/ WaitDone(c) \/ WaitExpires(c)
      PROVE  MailboxesAreGenuine'
  BY <1>7, <1>8 DEF LockRequest, TakeSequence, BeginAttempt, Send, SendFails, WaitDone,
     WaitExpires, hubVars
<1>9. ASSUME NEW c \in Caller, NEW p \in Port, NEW k \in Cmd, Call(c, p, k)
      PROVE  MailboxesAreGenuine'
  BY <1>7, <1>9 DEF Call, hubVars
<1>10. CASE ReceiveHello \/ LoseFrame \/ Hub \/ UNCHANGED vars
  BY <1>7, <1>10 DEF ReceiveHello, LoseFrame, Hub, HubExecute, HubDrop, HubRestart,
     HubHello, hubVars, vars
<1> QED
  BY <1>3, <1>4, <1>5, <1>6, <1>8, <1>9, <1>10 DEF Next, Proceed, Receive

-----------------------------------------------------------------------------
(* The theorems. *)

\* The inductive invariant holds of a link that has just been opened.
LEMMA InitInductive == Init => Inductive
<1> SUFFICES ASSUME Init PROVE Inductive
  OBVIOUS
<1>1. Typed
  BY InitTyped
<1>2. HoldsMutex /\ NoOrphanedRequest /\ ResultIsPrivate
  BY DEF Init, HoldsMutex, NoOrphanedRequest, ResultIsPrivate, Entered, Inside
<1>3. PendingIsOwned /\ FramesAreGenuine /\ MailboxesAreGenuine
  BY RequestAssumption DEF Init, PendingIsOwned, FramesAreGenuine, MailboxesAreGenuine,
     EmptyMailbox, Canceled
<1> QED
  BY <1>1, <1>2, <1>3 DEF Inductive

\* Every step of the request protocol keeps the inductive invariant.
LEMMA StepInductive == Inductive /\ [Next]_vars => Inductive'
BY StepTyped, StepMutex, StepPending, StepOrphan, StepPrivate, StepFrames, StepMailboxes
   DEF Inductive

\* The inductive invariant of raspike_request and its receiver holds throughout.
THEOREM Invariance == Spec => []Inductive
BY InitInductive, StepInductive, PTL DEF Spec

\* Every variable keeps its type, and next_sequence never hands out 0, whatever
\* the width of the counter.
THEOREM TypeCorrect == Spec => []TypeOK
BY Invariance, PTL DEF Inductive, Typed

\* A mailbox only ever waits for the call that holds its port's request_mutex.
THEOREM PendingOwned == Spec => []PendingIsOwned
BY Invariance, PTL DEF Inductive

\* A change of session leaves no request waiting for the session before it.
THEOREM NoneOrphaned == Spec => []NoOrphanedRequest
BY Invariance, PTL DEF Inductive

\* raspike_request returns in the step that unlocks request_mutex, and in no other.
LEMMA ReturnIsFinish ==
  ASSUME Typed, [Next]_vars, NEW c \in Caller, Returns(c)
  PROVE  Finish(c)
<1>0. pc \in [Caller -> Labels]
  BY DEF Typed, TypeOK
<1>1. \A d \in Caller \ {c} : LockRequest(d) \/ Proceed(d) => pc'[c] = pc[c]
  BY OneCallerMoves
<1>2. Receive \/ LoseFrame \/ Hub \/ UNCHANGED vars => pc' = pc
  BY OutsideSteps DEF callerVars
<1>3. \A d \in Caller, p \in Port, k \in Cmd : Call(d, p, k) => pc'[c] # "idle" \/ pc'[c] = pc[c]
  BY <1>0 DEF Call, Goto
<1>4. LockRequest(c) \/ (Proceed(c) /\ ~Finish(c)) => pc'[c] # "idle"
  BY <1>0 DEF LockRequest, Proceed, TakeSequence, MarkPending, BeginAttempt, Send,
     SendFails, WaitDone, WaitExpires, Goto
<1> QED
  BY <1>1, <1>2, <1>3, <1>4 DEF Next, Returns

\* The step in which raspike_request returns an answer returns the hub's answer to it.
LEMMA ReturnedAnswerIsOurs ==
  ASSUME Inductive, [Next]_vars, NEW c \in Caller, Returns(c), call'[c].result \in AckData
  PROVE  [port |-> call[c].port, cmd |-> call[c].cmd, session |-> fgSessionId,
          sequence |-> call[c].sequence, data |-> call'[c].result] \in executed
<1>0. /\ pc \in [Caller -> Labels] /\ call \in [Caller -> Locals]
      /\ call[c] \in Locals /\ call[c].port \in Port /\ call[c].cmd \in Cmd
      /\ dev \in [Port -> Mailboxes]
  BY DEF Inductive, Typed, TypeOK, Locals
<1>1. Finish(c)
  BY ReturnIsFinish DEF Inductive
<1>2. call'[c].result = ResultOf(c)
  <2>1. ResultOf(c) \in Int
    BY <1>0, LocalsUpdate, MailboxUpdate DEF ResultOf, Mailbox
  <2> QED
    BY <1>0, <1>1, <2>1 DEF Finish, NewCall
<1>3. AckData \cap Errors = {} /\ call[c].result \in Errors /\ -ESTALE \in Errors
  BY <1>1, RequestAssumption DEF Finish, Inductive, ResultIsPrivate, Entered, Inside,
     Labels, Errors
<1>4. ResultOf(c) = Mailbox(c).ack_data /\ Answered(c)
  BY <1>0, <1>2, <1>3 DEF ResultOf, Mailbox, Inductive, MailboxesAreGenuine
<1>5. Stored(call[c].port) \in executed
  BY <1>0, <1>4 DEF Answered, Mailbox, Inductive, MailboxesAreGenuine
<1> QED
  BY <1>2, <1>4, <1>5 DEF Stored, Answered, Mailbox

\* A call returns a value of the hub only if the hub gave it for this very
\* request, in the session the host is in when the call returns.
THEOREM AnswersAreOurs == Spec => AnswerIsOurs
<1>1. Inductive /\ [Next]_vars =>
        [\A c \in Caller : Returns(c) /\ call'[c].result \in AckData =>
           [port |-> call[c].port, cmd |-> call[c].cmd, session |-> fgSessionId,
            sequence |-> call[c].sequence, data |-> call'[c].result] \in executed]_vars
  BY ReturnedAnswerIsOurs
<1> QED
  BY <1>1, Invariance, PTL DEF Spec, AnswerIsOurs

-----------------------------------------------------------------------------
\* A call has no sequence number before it takes one, and then it has.
Ticketed == \A c \in Caller :
  /\ pc[c] \in {"lock", "sequence"} => call[c].sequence = 0
  /\ pc[c] = "mark" => call[c].sequence # 0

\* Sessions only grow: those on their way are not older than the host's, and come in
\* their order.
SessionsGrow ==
  /\ fgSessionId <= hubSession
  /\ \A i \in 1..Len(toHost) : toHost[i].type = "hello" =>
       fgSessionId <= toHost[i].session /\ toHost[i].session <= hubSession
  /\ \A i, j \in 1..Len(toHost) :
       i < j /\ toHost[i].type = "hello" /\ toHost[j].type = "hello" =>
         toHost[i].session <= toHost[j].session

\* No call was entered in a session that is still to come.
NoneFromLater == \A c \in Caller : call[c].born <= fgSessionId

\* A call whose mailbox is cancelled, or about to be, was entered in another session.
StaleIsTrue == \A c \in Caller :
  pc[c] \in Entered /\ (call[c].port \in resetTodo \/ Mailbox(c).ack_cmd = Canceled) =>
    call[c].born # fgSessionId

Honest == Ticketed /\ SessionsGrow /\ NoneFromLater /\ StaleIsTrue

\* A step of a call keeps the session it was entered in, except that mark enters it and
\* finish forgets it.
LEMMA BornOf ==
  ASSUME Typed, NEW c \in Caller, LockRequest(c) \/ Proceed(c)
  PROVE  \/ /\ ~MarkPending(c) /\ ~Finish(c) /\ call'[c].born = call[c].born
         \/ /\ MarkPending(c)
            /\ call'[c].born = IF call[c].port \in resetTodo THEN 0 ELSE fgSessionId
         \/ Finish(c) /\ call'[c].born = 0
<1>1. call[c] \in Locals /\ call \in [Caller -> Locals]
  BY DEF Typed, TypeOK
<1>2. CASE LockRequest(c) \/ TakeSequence(c) \/ BeginAttempt(c) \/ Send(c) \/ WaitDone(c)
  <2>1. call'[c].born = call[c].born
    BY <1>1, <1>2 DEF LockRequest, TakeSequence, BeginAttempt, Send, WaitDone, Locals
  <2> QED
    BY <1>2, <2>1 DEF LockRequest, TakeSequence, BeginAttempt, Send, WaitDone, MarkPending,
       Finish
<1>3. CASE MarkPending(c)
  BY <1>1, <1>3 DEF MarkPending, Locals
<1>4. CASE SendFails(c)
  <2>1. PICK error \in SendErrors : call' = [call EXCEPT ![c].result = error]
    BY <1>4 DEF SendFails
  <2>2. call'[c].born = call[c].born
    BY <1>1, <2>1 DEF Locals
  <2> QED
    BY <1>4, <2>2 DEF SendFails, MarkPending, Finish
<1>5. CASE WaitExpires(c)
  <2>1. call' = [call EXCEPT ![c].attempt = call[c].attempt + 1]
    BY <1>5 DEF WaitExpires
  <2>2. call'[c].born = call[c].born
    BY <1>1, <2>1 DEF Locals
  <2> QED
    BY <1>5, <2>2 DEF WaitExpires, MarkPending, Finish
<1>6. CASE Finish(c)
  BY <1>1, <1>6 DEF Finish, NewCall
<1> QED
  BY <1>2, <1>3, <1>4, <1>5, <1>6 DEF Proceed

\* A link that has just been opened has no call, no frame and the first session.
LEMMA InitHonest == Init => Honest
BY DEF Init, Honest, Ticketed, SessionsGrow, NoneFromLater, StaleIsTrue, NewCall,
       Entered, Inside

\* Every step leaves the callers between lock and mark with the number they have to have.
LEMMA StepTicketed == Typed /\ Ticketed /\ [Next]_vars => Ticketed'
<1> SUFFICES ASSUME Typed, Ticketed, [Next]_vars PROVE Ticketed'
  OBVIOUS
<1>0. /\ pc \in [Caller -> Labels] /\ call \in [Caller -> Locals]
      /\ \A c \in Caller : call[c] \in Locals
      /\ fgNextSequence # 0
  BY RequestAssumption DEF Typed, TypeOK
<1> USE DEF Ticketed, Goto
<1>1. ASSUME NEW c \in Caller, NEW p \in Port, NEW k \in Cmd, Call(c, p, k)
      PROVE  Ticketed'
  BY <1>0, <1>1 DEF Call, NewCall
<1>2. ASSUME NEW c \in Caller, LockRequest(c) PROVE Ticketed'
  BY <1>0, <1>2 DEF LockRequest
<1>3. ASSUME NEW c \in Caller, TakeSequence(c) PROVE Ticketed'
  <2>1. call'[c].sequence = fgNextSequence
    BY <1>0, <1>3 DEF TakeSequence, Locals
  <2> QED
    BY <1>0, <1>3, <2>1, OneCallerMoves DEF TakeSequence, Proceed
<1>4. ASSUME NEW c \in Caller, Proceed(c), ~TakeSequence(c) PROVE Ticketed'
  <2>1. pc'[c] \notin {"lock", "sequence", "mark"}
    BY <1>0, <1>4 DEF Proceed, MarkPending, BeginAttempt, Send, SendFails, WaitDone,
       WaitExpires, Finish
  <2> QED
    BY <1>4, <2>1, OneCallerMoves
<1>5. CASE Receive \/ LoseFrame \/ Hub \/ UNCHANGED vars
  BY <1>5, OutsideSteps DEF callerVars
<1> QED
  BY <1>1, <1>2, <1>3, <1>4, <1>5 DEF Next

\* Every step of the hub, the link and the receiver keeps the sessions in their order.
LEMMA StepGrow == Typed /\ SessionsGrow /\ [Next]_vars => SessionsGrow'
<1> SUFFICES ASSUME Typed, SessionsGrow, [Next]_vars PROVE SessionsGrow'
  OBVIOUS
<1>0. toHost \in Seq(Frames) /\ fgSessionId \in Nat /\ hubSession \in Nat
  BY DEF Typed, TypeOK
<1> USE DEF SessionsGrow
<1>1. CASE UNCHANGED <<toHost, fgSessionId, hubSession>>
  BY <1>1
<1>2. ASSUME toHost # <<>>, toHost' = Tail(toHost), hubSession' = hubSession,
             \/ fgSessionId' = fgSessionId
             \/ Head(toHost).type = "hello" /\ fgSessionId' = Head(toHost).session
      PROVE  SessionsGrow'
  <2>1. /\ Head(toHost) = toHost[1] /\ 1 \in 1..Len(toHost)
        /\ \A i \in 1..Len(toHost') :
             /\ i + 1 \in 1..Len(toHost) /\ toHost'[i] = toHost[i + 1] /\ 1 < i + 1
    BY <1>0, <1>2
  <2>2. /\ fgSessionId' <= hubSession
        /\ \A i \in 1..Len(toHost') : toHost'[i].type = "hello" =>
             fgSessionId' <= toHost'[i].session /\ toHost'[i].session <= hubSession
    BY <1>2, <2>1
  <2>3. ASSUME NEW i \in 1..Len(toHost'), NEW j \in 1..Len(toHost'), i < j,
               toHost'[i].type = "hello", toHost'[j].type = "hello"
        PROVE  toHost'[i].session <= toHost'[j].session
    <3>1. i + 1 < j + 1
      BY <2>3
    <3> QED
      BY <2>1, <2>3, <3>1
  <2> QED
    BY <1>2, <2>2, <2>3
<1>3. ASSUME NEW f, f.type = "hello" => f.session = hubSession,
             toHost' = Append(toHost, f), UNCHANGED <<fgSessionId, hubSession>>
      PROVE  SessionsGrow'
  <2>1. ASSUME NEW i \in 1..Len(toHost')
        PROVE  \/ toHost'[i] = f /\ i = Len(toHost) + 1
               \/ i \in 1..Len(toHost) /\ toHost'[i] = toHost[i]
    BY <1>0, <1>3
  <2>2. \A i \in 1..Len(toHost') : toHost'[i].type = "hello" =>
             fgSessionId <= toHost'[i].session /\ toHost'[i].session <= hubSession
    BY <1>0, <1>3, <2>1
  <2>3. ASSUME NEW i \in 1..Len(toHost'), NEW j \in 1..Len(toHost'), i < j,
               toHost'[i].type = "hello", toHost'[j].type = "hello"
        PROVE  toHost'[i].session <= toHost'[j].session
    <3>1. i \in 1..Len(toHost) /\ toHost'[i] = toHost[i]
      BY <1>0, <1>3, <2>3, <2>1
    <3>2. CASE toHost'[j] = f
      BY <1>3, <2>3, <3>1, <3>2
    <3>3. CASE j \in 1..Len(toHost) /\ toHost'[j] = toHost[j]
      BY <2>3, <3>1, <3>3
    <3> QED
      BY <2>1, <3>2, <3>3
  <2> QED
    BY <1>3, <2>2, <2>3
<1>4. ASSUME NEW data \in AckData, HubExecute(data) PROVE SessionsGrow'
  <2> DEFINE r == Head(toHub)
             a == [port |-> r.port, cmd |-> r.cmd, sequence |-> r.sequence,
                   session |-> r.session, data |-> data]
             f == [type |-> "ack", answer |-> a]
  <2>1. toHost' = Append(toHost, f) /\ UNCHANGED <<fgSessionId, hubSession>>
    BY <1>4 DEF HubExecute
  <2>2. f.type # "hello"
    OBVIOUS
  <2> QED
    BY <1>3, <2>1, <2>2
<1>5. CASE HubHello
  <2> DEFINE f == [type |-> "hello", session |-> hubSession]
  <2>1. toHost' = Append(toHost, f) /\ UNCHANGED <<fgSessionId, hubSession>>
    BY <1>5 DEF HubHello, hubVars
  <2>2. f.session = hubSession
    OBVIOUS
  <2> QED
    BY <1>3, <2>1, <2>2
<1>6. CASE HubRestart
  <2>1. ASSUME NEW i \in 1..Len(toHost), toHost[i].type = "hello"
        PROVE  toHost[i].session \in Nat
    <3>1. toHost[i] \in Frames
      BY <1>0
    <3> QED
      BY <2>1, <3>1 DEF Frames
  <2> QED
    BY <1>0, <1>6, <2>1 DEF HubRestart
<1>7. CASE ReceiveHello
  BY <1>2, <1>7 DEF ReceiveHello, Receiving, hubVars
<1>8. CASE ReceiveAck \/ LoseFrame
  BY <1>2, <1>8 DEF ReceiveAck, LoseFrame, Receiving, hubVars
<1>9. CASE HubDrop \/ (\E p \in Port : ResetPort(p)) \/ UNCHANGED vars
  BY <1>1, <1>9 DEF HubDrop, ResetPort, hubVars, vars
<1>10. ASSUME NEW c \in Caller, LockRequest(c) \/ Proceed(c) PROVE SessionsGrow'
  BY <1>1, <1>10 DEF LockRequest, Proceed, TakeSequence, MarkPending, BeginAttempt, Send,
     SendFails, WaitDone, WaitExpires, Finish, hubVars
<1>11. ASSUME NEW c \in Caller, NEW p \in Port, NEW k \in Cmd, Call(c, p, k)
       PROVE  SessionsGrow'
  BY <1>1, <1>11 DEF Call, hubVars
<1> QED
  BY <1>4, <1>5, <1>6, <1>7, <1>8, <1>9, <1>10, <1>11 DEF Next, Receive, Hub

\* Every step of a call leaves the session it was entered in behind, or takes the host's.
LEMMA StepNoneFromLater ==
  Typed /\ SessionsGrow /\ NoneFromLater /\ [Next]_vars => NoneFromLater'
<1> SUFFICES ASSUME Typed, SessionsGrow, NoneFromLater, [Next]_vars PROVE NoneFromLater'
  OBVIOUS
<1>0. /\ call \in [Caller -> Locals] /\ fgSessionId \in Nat
      /\ toHost \in Seq(Frames)
      /\ \A c \in Caller : call[c] \in Locals /\ call[c].born \in Nat
  BY DEF Typed, TypeOK, Locals
<1> USE DEF NoneFromLater
<1>1. ASSUME NEW c \in Caller, NEW p \in Port, NEW k \in Cmd, Call(c, p, k)
      PROVE  NoneFromLater'
  BY <1>0, <1>1 DEF Call, NewCall
<1>2. ASSUME NEW c \in Caller, LockRequest(c) \/ Proceed(c) PROVE NoneFromLater'
  <2>1. fgSessionId' = fgSessionId
    BY <1>2 DEF LockRequest, Proceed, TakeSequence, MarkPending, BeginAttempt, Send,
       SendFails, WaitDone, WaitExpires, Finish
  <2>2. call'[c].born <= fgSessionId
    BY <1>0, <1>2, BornOf
  <2> QED
    BY <1>2, <2>1, <2>2, OneCallerMoves
<1>3. CASE ReceiveHello
  <2>1. fgSessionId' = fgSessionId \/ (fgSessionId' = toHost[1].session /\ 1 \in 1..Len(toHost) /\ toHost[1].type = "hello")
    BY <1>0, <1>3 DEF ReceiveHello, Receiving
  <2>2. fgSessionId <= fgSessionId' /\ fgSessionId' \in Nat
    <3>1. CASE fgSessionId' = fgSessionId
      BY <1>0, <3>1
    <3>2. CASE fgSessionId' # fgSessionId
      <4>1. toHost[1] \in Frames
        BY <1>0, <2>1, <3>2
      <4> QED
        BY <2>1, <3>2, <4>1 DEF SessionsGrow, Frames
    <3> QED
      BY <3>1, <3>2
  <2>3. call' = call
    BY <1>3 DEF ReceiveHello, callerVars
  <2> QED
    BY <1>0, <2>2, <2>3
<1>4. CASE ReceiveAck \/ (\E p \in Port : ResetPort(p)) \/ LoseFrame \/ Hub \/ UNCHANGED vars
  BY <1>4 DEF ReceiveAck, ResetPort, LoseFrame, Hub, HubExecute, HubDrop, HubRestart,
     HubHello, callerVars, vars
<1> QED
  BY <1>1, <1>2, <1>3, <1>4 DEF Next, Receive

\* Every step leaves only calls with a cancelled mailbox that were entered in a session
\* process_hello_payload has replaced.
LEMMA StepStale ==
  Typed /\ SessionsGrow /\ NoneFromLater /\ StaleIsTrue /\ [Next]_vars => StaleIsTrue'
<1> SUFFICES ASSUME Typed, SessionsGrow, NoneFromLater, StaleIsTrue, [Next]_vars,
                    NEW d \in Caller, pc'[d] \in Entered,
                    \/ call'[d].port \in resetTodo'
                    \/ dev'[call'[d].port].ack_cmd = Canceled
             PROVE  call'[d].born # fgSessionId'
  BY DEF StaleIsTrue, Mailbox
<1> USE RequestAssumption
<1>0. /\ pc \in [Caller -> Labels] /\ call \in [Caller -> Locals]
      /\ dev \in [Port -> Mailboxes] /\ fgSessionId \in Nat \ {0}
      /\ toHost \in Seq(Frames)
      /\ \A c \in Caller : call[c] \in Locals /\ call[c].port \in Port
  BY DEF Typed, TypeOK, Locals
<1> DEFINE Cancelled(c) == /\ pc[c] \in Entered
                           /\ call[c].port \in resetTodo \/ dev[call[c].port].ack_cmd = Canceled
<1>a. Cancelled(d) => call[d].born # fgSessionId
  BY DEF StaleIsTrue, Mailbox
<1> USE DEF Entered, Inside, Labels, Goto
<1>1. ASSUME NEW c \in Caller, NEW p \in Port, NEW k \in Cmd, Call(c, p, k)
      PROVE  call'[d].born # fgSessionId'
  BY <1>0, <1>1, <1>a DEF Call
<1>2. ASSUME NEW c \in Caller, LockRequest(c) \/ Proceed(c), ~MarkPending(c)
      PROVE  call'[d].born # fgSessionId'
  <2>1. /\ UNCHANGED <<fgSessionId, resetTodo>>
        /\ \A p \in Port : dev'[p].ack_cmd = dev[p].ack_cmd
    <3>1. CASE Finish(c)
      <4>1. dev' = [dev EXCEPT ![call[c].port].pending = FALSE]
        BY <3>1 DEF Finish
      <4>2. \A p \in Port : dev'[p].ack_cmd = dev[p].ack_cmd
        BY <1>0, <4>1 DEF Mailboxes
      <4> QED
        BY <3>1, <4>2 DEF Finish
    <3> QED
      BY <1>2, <3>1 DEF LockRequest, Proceed, TakeSequence, BeginAttempt, Send, SendFails,
         WaitDone, WaitExpires
  <2>2. d # c => Cancelled(d) /\ call'[d] = call[d]
    BY <1>0, <1>2, <2>1, OneCallerMoves
  <2>3. d = c => pc[c] \in Entered
    BY <1>0, <1>2 DEF LockRequest, Proceed, TakeSequence, BeginAttempt, Send, SendFails,
       WaitDone, WaitExpires, Finish
  <2>4. d = c => call'[d].born = call[d].born /\ Cancelled(d)
    <3>1. ASSUME d = c PROVE ~Finish(c) /\ call'[c].born = call[c].born
      BY <1>0, <1>2, <2>3, <3>1, BornOf DEF Finish
    <3> QED
      BY <1>0, <1>2, <2>1, <2>3, <3>1, OneCallerMoves
  <2> QED
    BY <1>a, <2>1, <2>2, <2>4
<1>3. ASSUME NEW c \in Caller, MarkPending(c) PROVE call'[d].born # fgSessionId'
  <2>1. /\ UNCHANGED <<fgSessionId, resetTodo>>
        /\ dev'[call[c].port].ack_cmd = 0
        /\ \A p \in Port \ {call[c].port} : dev'[p] = dev[p]
    BY <1>0, <1>3 DEF MarkPending, EmptyMailbox
  <2>2. CASE d = c
    <3>1. call'[c].port = call[c].port
      BY <1>3, OneCallerMoves DEF Proceed
    <3>2. call[c].port \in resetTodo
      BY <2>1, <2>2, <3>1 DEF Canceled
    <3> QED
      BY <1>0, <1>3, <2>1, <2>2, <3>2, BornOf DEF Proceed
  <2>3. CASE d # c
    <3>1. call'[d] = call[d] /\ pc'[d] = pc[d]
      BY <1>3, <2>3, OneCallerMoves DEF Proceed
    <3> QED
      BY <1>0, <1>a, <2>1, <3>1 DEF Canceled
  <2> QED
    BY <2>2, <2>3
<1>4. CASE Receive \/ LoseFrame \/ Hub \/ UNCHANGED vars
  <2>0. UNCHANGED <<pc, call>>
    BY <1>4, OutsideSteps DEF callerVars
  <2>1. CASE ReceiveAck
    <3> DEFINE a == Head(toHost).answer
    <3>1. Head(toHost) \in Frames /\ Head(toHost).type = "ack"
      BY <1>0, <2>1 DEF ReceiveAck, Receiving
    <3>2. a.cmd \in Cmd
      BY <3>1 DEF Frames, Answers
    <3>3. \A p \in Port : dev'[p].ack_cmd \in {dev[p].ack_cmd, a.cmd}
      BY <1>0, <2>1 DEF ReceiveAck, Mailboxes
    <3> QED
      BY <1>0, <1>a, <2>0, <2>1, <3>2, <3>3 DEF ReceiveAck, Canceled
  <2>2. CASE ReceiveHello
    <3> DEFINE s == Head(toHost).session
    <3>0. /\ dev' = dev /\ s = toHost[1].session
          /\ 1 \in 1..Len(toHost) /\ toHost[1].type = "hello"
      BY <1>0, <2>2 DEF ReceiveHello, Receiving
    <3>1. \/ fgSessionId' = fgSessionId /\ resetTodo' = resetTodo
          \/ fgSessionId' # fgSessionId /\ fgSessionId' = s
      <4>1. CASE s \in {0, fgSessionId}
        BY <2>2, <4>1 DEF ReceiveHello
      <4>2. CASE s \notin {0, fgSessionId}
        BY <2>2, <4>2 DEF ReceiveHello
      <4> QED
        BY <4>1, <4>2
    <3>2. CASE fgSessionId' # fgSessionId
      <4>1. toHost[1] \in Frames /\ call[d].born \in Nat
        BY <1>0, <3>0 DEF Locals
      <4>2. fgSessionId' \in Nat /\ fgSessionId < fgSessionId'
        BY <1>0, <3>0, <3>1, <3>2, <4>1 DEF SessionsGrow, Frames
      <4> QED
        BY <1>0, <2>0, <4>1, <4>2 DEF NoneFromLater
    <3> QED
      BY <1>a, <2>0, <3>0, <3>1, <3>2
  <2>3. ASSUME NEW q \in Port, ResetPort(q) PROVE call'[d].born # fgSessionId'
    <3>1. /\ fgSessionId' = fgSessionId /\ resetTodo' \subseteq resetTodo
          /\ q \in resetTodo /\ \A p \in Port \ {q} : dev'[p] = dev[p]
      BY <1>0, <2>3 DEF ResetPort
    <3> QED
      BY <1>0, <1>a, <2>0, <3>1
  <2>4. CASE LoseFrame \/ Hub \/ UNCHANGED vars
    BY <1>a, <2>0, <2>4 DEF LoseFrame, Hub, HubExecute, HubDrop, HubRestart, HubHello, vars
  <2> QED
    BY <1>4, <2>1, <2>2, <2>3, <2>4 DEF Receive
<1> QED
  BY <1>1, <1>2, <1>3, <1>4 DEF Next

-----------------------------------------------------------------------------
(* Every step is a step of the service, or none. *)

\* Every step of the protocol keeps what a caller is told about its session true.
LEMMA StepHonest == Inductive /\ Honest /\ [Next]_vars => Honest'
BY StepTicketed, StepGrow, StepNoneFromLater, StepStale DEF Inductive, Honest

\* A step that moves one call is seen by the service as a change of that call alone.
LEMMA OneIsSeen ==
  ASSUME NEW c \in Caller,
         \A d \in Caller \ {c} : pc'[d] = pc[d] /\ call'[d] = call[d]
  PROVE  /\ stage' = [stage EXCEPT ![c] = Stage(pc'[c])]
         /\ asked' = [asked EXCEPT ![c] = AskedIn(call'[c])]
         /\ returned' = [returned EXCEPT ![c] = IF pc'[c] = "idle" THEN call'[c].result ELSE 0]
         /\ stage[c] = Stage(pc[c]) /\ asked[c] = AskedIn(call[c])
         /\ pc[c] # "idle" => returned[c] = 0
BY DEF stage, asked, returned

\* A step that the service cannot see changes neither the place a call is at nor what it asked.
LEMMA NoneIsSeen ==
  ASSUME NEW c \in Caller,
         \A d \in Caller \ {c} : pc'[d] = pc[d] /\ call'[d] = call[d],
         Stage(pc'[c]) = Stage(pc[c]), AskedIn(call'[c]) = AskedIn(call[c]),
         pc[c] # "idle", pc'[c] # "idle"
  PROVE  UNCHANGED <<stage, asked, returned>>
BY DEF stage, asked, returned

\* A call is begun: what was returned before is forgotten.
LEMMA CallAsks ==
  ASSUME Typed, NEW c \in Caller, NEW p \in Port, NEW k \in Cmd, Call(c, p, k)
  PROVE  Service!Ask(c, p, k)
<1>0. pc \in [Caller -> Labels] /\ call \in [Caller -> Locals]
  BY DEF Typed, TypeOK
<1>1. /\ pc[c] = "idle" /\ UNCHANGED <<fgSessionId, executed>>
      /\ pc'[c] = "lock" /\ call'[c] = NewCall(p, k)
      /\ \A d \in Caller \ {c} : pc'[d] = pc[d] /\ call'[d] = call[d]
  BY <1>0 DEF Call, Goto, hubVars
<1>2. AskedIn(NewCall(p, k)) = Service!Asking(p, k)
  BY DEF AskedIn, NewCall, Service!Asking
<1>3. Stage("idle") = "idle" /\ Stage("lock") = "asked"
  BY DEF Stage
<1> QED
  BY <1>1, <1>2, <1>3, OneIsSeen DEF Service!Ask

\* The mutex admits one call to a port: nobody else who is being served is there.
LEMMA LockAdmits ==
  ASSUME Typed, HoldsMutex, NEW c \in Caller, LockRequest(c)
  PROVE  Service!Admit(c)
<1>0. pc \in [Caller -> Labels] /\ call \in [Caller -> Locals]
  BY DEF Typed, TypeOK
<1>1. /\ pc[c] = "lock" /\ pc'[c] = "sequence" /\ call' = call
      /\ \A d \in Caller \ {c} : pc'[d] = pc[d] /\ call'[d] = call[d]
      /\ UNCHANGED <<fgSessionId, executed>>
  BY <1>0 DEF LockRequest, Goto, hubVars
<1>2. ASSUME NEW d \in Caller, stage[d] = "served" PROVE asked[d].port # asked[c].port
  <2>1. pc[d] \in Inside
    BY <1>0, <1>2 DEF stage, Stage, Inside, Labels
  <2>2. request_mutex[call[d].port] = d /\ request_mutex[call[c].port] = NoCaller
    BY <2>1 DEF HoldsMutex, LockRequest
  <2> QED
    BY <2>2, RequestAssumption DEF asked, AskedIn
<1>3. Stage("lock") = "asked" /\ Stage("sequence") = "served"
  BY DEF Stage
<1>4. asked' = asked /\ returned' = returned
  BY <1>1 DEF asked, returned
<1> QED
  BY <1>1, <1>2, <1>3, <1>4, OneIsSeen DEF Service!Admit

\* next_sequence gives the call its ticket.
LEMMA SequenceIsTicket ==
  ASSUME Typed, Ticketed, NEW c \in Caller, TakeSequence(c)
  PROVE  Service!TakeTicket(c)
<1>0. pc \in [Caller -> Labels] /\ call \in [Caller -> Locals] /\ call[c] \in Locals
      /\ fgNextSequence \in 1..(SeqLimit - 1)
  BY DEF Typed, TypeOK
<1>1. /\ pc[c] = "sequence" /\ pc'[c] = "mark"
      /\ call'[c] = [call[c] EXCEPT !.sequence = fgNextSequence]
      /\ UNCHANGED <<fgSessionId, executed>>
  BY <1>0 DEF TakeSequence, Goto, hubVars
<1>2. \A d \in Caller \ {c} : pc'[d] = pc[d] /\ call'[d] = call[d]
  BY OneCallerMoves DEF Proceed
<1>3. Stage("sequence") = "served" /\ Stage("mark") = "served"
  BY DEF Stage
<1>4. call[c].sequence = 0
  BY <1>1 DEF Ticketed
<1>5. AskedIn(call'[c]) = [AskedIn(call[c]) EXCEPT !.ticket = fgNextSequence]
  BY <1>0, <1>1 DEF AskedIn, Locals
<1>6. stage' = stage /\ returned' = returned
  BY <1>1, <1>2, <1>3 DEF stage, returned
<1>7. asked' = [asked EXCEPT ![c].ticket = fgNextSequence]
  BY <1>2, <1>5, OneIsSeen
<1>8. stage[c] = "served" /\ asked[c].ticket = 0
  BY <1>1, <1>3, <1>4 DEF stage, asked, AskedIn
<1> QED
  BY <1>0, <1>1, <1>6, <1>7, <1>8 DEF Service!TakeTicket

\* With its mailbox set up, the call is entered in the session of the moment.
LEMMA MarkEnters ==
  ASSUME Typed, Ticketed, NEW c \in Caller, MarkPending(c)
  PROVE  Service!Enter(c)
<1>0. pc \in [Caller -> Labels] /\ call \in [Caller -> Locals] /\ call[c] \in Locals
  BY DEF Typed, TypeOK
<1> DEFINE s == IF call[c].port \in resetTodo THEN 0 ELSE fgSessionId
<1>1. /\ pc[c] = "mark" /\ pc'[c] = "attempt"
      /\ call'[c] = [call[c] EXCEPT !.result = -ETIMEDOUT, !.born = s]
      /\ UNCHANGED <<fgSessionId, executed>>
  BY <1>0 DEF MarkPending, Goto, hubVars
<1>2. \A d \in Caller \ {c} : pc'[d] = pc[d] /\ call'[d] = call[d]
  BY OneCallerMoves DEF Proceed
<1>3. Stage("mark") = "served" /\ Stage("attempt") = "served"
  BY DEF Stage
<1>4. call[c].sequence # 0 /\ s \in {0, fgSessionId}
  BY <1>1 DEF Ticketed
<1>5. AskedIn(call'[c]) = [AskedIn(call[c]) EXCEPT !.entered = s]
  <2> HIDE DEF s
  <2> QED
    BY <1>0, <1>1 DEF AskedIn, Locals
<1>6. stage' = stage /\ returned' = returned
  BY <1>1, <1>2, <1>3 DEF stage, returned
<1>7. asked' = [asked EXCEPT ![c].entered = s]
  BY <1>2, <1>5, OneIsSeen
<1>8. stage[c] = "served" /\ asked[c].ticket # 0
  BY <1>1, <1>3, <1>4 DEF stage, asked, AskedIn
<1> HIDE DEF s
<1> QED
  BY <1>1, <1>4, <1>6, <1>7, <1>8 DEF Service!Enter

\* The attempts, failures and waits of a call are its own business.
LEMMA AttemptsAreUnseen ==
  ASSUME Typed, NEW c \in Caller,
         BeginAttempt(c) \/ Send(c) \/ SendFails(c) \/ WaitDone(c) \/ WaitExpires(c)
  PROVE  UNCHANGED Service!vars
<1>0. pc \in [Caller -> Labels] /\ call \in [Caller -> Locals] /\ call[c] \in Locals
  BY DEF Typed, TypeOK
<1>1. /\ pc[c] \in {"attempt", "send", "wait"}
      /\ pc'[c] \in {"attempt", "send", "wait", "finish"}
      /\ UNCHANGED <<fgSessionId, executed>>
  BY <1>0 DEF BeginAttempt, Send, SendFails, WaitDone, WaitExpires, Goto, hubVars
<1>2. \A d \in Caller \ {c} : pc'[d] = pc[d] /\ call'[d] = call[d]
  BY OneCallerMoves DEF Proceed
<1>3. /\ call'[c].port = call[c].port /\ call'[c].cmd = call[c].cmd
      /\ call'[c].sequence = call[c].sequence /\ call'[c].born = call[c].born
  <2>1. CASE BeginAttempt(c) \/ Send(c) \/ WaitDone(c)
    BY <1>0, <2>1 DEF BeginAttempt, Send, WaitDone, Locals
  <2>2. CASE SendFails(c)
    <3>1. PICK error \in SendErrors : call' = [call EXCEPT ![c].result = error]
      BY <2>2 DEF SendFails
    <3> QED
      BY <1>0, <3>1 DEF Locals
  <2>3. CASE WaitExpires(c)
    <3>1. call' = [call EXCEPT ![c].attempt = call[c].attempt + 1]
      BY <2>3 DEF WaitExpires
    <3> QED
      BY <1>0, <3>1 DEF Locals
  <2> QED
    BY <2>1, <2>2, <2>3
<1>4. AskedIn(call'[c]) = AskedIn(call[c])
  BY <1>3 DEF AskedIn
<1>5. Stage(pc[c]) = "served" /\ Stage(pc'[c]) = "served"
  BY <1>1 DEF Stage
<1> QED
  BY <1>1, <1>2, <1>4, <1>5, NoneIsSeen DEF Service!vars

\* finish returns this call's answer, or an error that is true.
LEMMA FinishReturns ==
  ASSUME Inductive, Honest, NEW c \in Caller, Finish(c)
  PROVE  Service!Return(c)
<1>0. /\ pc \in [Caller -> Labels] /\ call \in [Caller -> Locals] /\ call[c] \in Locals
      /\ dev \in [Port -> Mailboxes] /\ call[c].port \in Port /\ call[c].cmd \in Cmd
      /\ executed \subseteq Answers
  BY DEF Inductive, Typed, TypeOK, Locals
<1> DEFINE r == ResultOf(c)
           l == [NewCall(call[c].port, call[c].cmd) EXCEPT !.result = r]
<1>1. /\ pc[c] = "finish" /\ pc'[c] = "idle" /\ call'[c] = l
      /\ UNCHANGED <<fgSessionId, executed>>
  BY <1>0 DEF Finish, Goto, hubVars
<1>2. \A d \in Caller \ {c} : pc'[d] = pc[d] /\ call'[d] = call[d]
  BY OneCallerMoves DEF Proceed, Inductive
<1>3. l.result = r /\ AskedIn(l) = Service!Asking(call[c].port, call[c].cmd)
  <2> HIDE DEF r
  <2> QED
    BY DEF NewCall, AskedIn, Service!Asking
<1>4. /\ asked[c].port = call[c].port /\ asked[c].cmd = call[c].cmd
      /\ asked[c].ticket = call[c].sequence /\ asked[c].entered = call[c].born
  BY DEF asked, AskedIn
<1>5. r \in AckData \cup SendErrors \cup {-ESTALE} /\ Service!Honest(c, r)
  <2>1. CASE call[c].completed /\ Mailbox(c).ack_cmd = Canceled
    <3>1. r = -ESTALE
      BY <1>0, <2>1 DEF ResultOf, Mailbox, Inductive, MailboxesAreGenuine
    <3>2. call[c].born # fgSessionId
      BY <1>1, <2>1 DEF Honest, StaleIsTrue, Entered, Inside, Labels
    <3> QED
      BY <1>4, <3>1, <3>2 DEF Service!Honest
  <2>2. CASE call[c].completed /\ Mailbox(c).ack_cmd # Canceled /\ Answered(c)
    <3>1. r = Mailbox(c).ack_data
      BY <2>2 DEF ResultOf
    <3>2. Stored(call[c].port) \in executed
      BY <1>0, <2>2 DEF Answered, Mailbox, Inductive, MailboxesAreGenuine
    <3>3. Stored(call[c].port) =
            [port |-> call[c].port, cmd |-> call[c].cmd, sequence |-> call[c].sequence,
             session |-> fgSessionId, data |-> r]
      BY <2>2, <3>1 DEF Answered, Mailbox, Stored
    <3>4. r \in AckData
      <4> HIDE DEF r
      <4> QED
        BY <1>0, <3>2, <3>3 DEF Answers
    <3> QED
      BY <1>4, <3>2, <3>3, <3>4 DEF Service!Honest
  <2>3. CASE ~(call[c].completed /\ (Mailbox(c).ack_cmd = Canceled \/ Answered(c)))
    <3>1. r \in SendErrors
      BY <1>1, <2>3 DEF ResultOf, Inductive, ResultIsPrivate, Entered, Inside, Labels
    <3> QED
      BY <3>1 DEF Service!Honest
  <2> QED
    BY <2>1, <2>2, <2>3
<1> HIDE DEF r, l
<1>6. Stage("finish") = "served" /\ Stage("idle") = "idle"
  BY DEF Stage
<1> QED
  BY <1>1, <1>2, <1>3, <1>4, <1>5, <1>6, OneIsSeen DEF Service!Return

\* What the receiver, the link and the hub do is the world of the service.
LEMMA OutsideIsWorld ==
  ASSUME Receive \/ LoseFrame \/ Hub \/ UNCHANGED vars
  PROVE  Service!World
<1>1. UNCHANGED <<pc, call>>
  BY OutsideSteps DEF callerVars
<1>2. executed \subseteq executed'
  BY DEF Receive, ReceiveAck, ReceiveHello, ResetPort, LoseFrame, Hub, HubExecute,
     HubDrop, HubRestart, HubHello, hubVars, vars
<1> QED
  BY <1>1, <1>2 DEF Service!World, stage, asked, returned

\* Every step of the protocol is a step of the service or leaves its state alone.
LEMMA StepIsServed ==
  ASSUME Inductive, Honest, [Next]_vars
  PROVE  [Service!Next]_(Service!vars)
<1> USE DEF Inductive, Honest
<1>1. ASSUME NEW c \in Caller, NEW p \in Port, NEW k \in Cmd, Call(c, p, k)
      PROVE  Service!Next
  BY <1>1, CallAsks DEF Service!Next
<1>2. ASSUME NEW c \in Caller, LockRequest(c) PROVE Service!Next
  BY <1>2, LockAdmits DEF Service!Next
<1>3. ASSUME NEW c \in Caller, TakeSequence(c) PROVE Service!Next
  BY <1>3, SequenceIsTicket DEF Service!Next
<1>4. ASSUME NEW c \in Caller, MarkPending(c) PROVE Service!Next
  BY <1>4, MarkEnters DEF Service!Next
<1>5. ASSUME NEW c \in Caller,
             BeginAttempt(c) \/ Send(c) \/ SendFails(c) \/ WaitDone(c) \/ WaitExpires(c)
      PROVE  UNCHANGED Service!vars
  BY <1>5, AttemptsAreUnseen
<1>6. ASSUME NEW c \in Caller, Finish(c) PROVE Service!Next
  BY <1>6, FinishReturns DEF Service!Next
<1>7. Receive \/ LoseFrame \/ Hub \/ UNCHANGED vars => Service!Next
  BY OutsideIsWorld DEF Service!Next
<1> QED
  BY <1>1, <1>2, <1>3, <1>4, <1>5, <1>6, <1>7 DEF Next, Proceed

\* A link that has just been opened is a service nobody has asked anything.
LEMMA InitIsServed == Init => Service!Init
<1> SUFFICES ASSUME Init PROVE Service!Init
  OBVIOUS
<1>1. PICK p \in Port, k \in Cmd : call = [c \in Caller |-> NewCall(p, k)]
  BY DEF Init
<1>2. stage = [c \in Caller |-> "idle"] /\ returned = [c \in Caller |-> 0]
  BY <1>1 DEF Init, stage, Stage, returned, NewCall
<1>3. asked = [c \in Caller |-> Service!Asking(p, k)]
  BY <1>1 DEF asked, AskedIn, NewCall, Service!Asking
<1> QED
  BY <1>2, <1>3 DEF Init, Service!Init

\* raspike_request, its receiver and any hub implement the service: one call at a time
\* on a port, each returned with this call's answer or with an error that is true.
THEOREM RequestIsServed == Spec => ImplementsService
<1>1. Init => Inductive /\ Honest
  BY InitInductive, InitHonest
<1>2. (Inductive /\ Honest) /\ [Next]_vars => (Inductive /\ Honest)'
  BY StepInductive, StepHonest
<1>3. (Inductive /\ Honest) /\ [Next]_vars => [Service!Next]_(Service!vars)
  BY StepIsServed
<1> QED
  BY <1>1, <1>2, <1>3, InitIsServed, PTL DEF Spec, ImplementsService, Service!Spec

-----------------------------------------------------------------------------
(* A timeout is honest.  As long as next_sequence has not come round, that is, *)
(* for fewer calls than there are numbers, a number stands for one command, so *)
(* that an acknowledgement with a call's number is an answer to its command.   *)

\* Calls that have still to take a number, and how many numbers have been taken.
Unnumbered == {c \in Caller : pc[c] \in {"lock", "sequence"}}
Taken == calls - Cardinality(Unnumbered)

\* The number next_sequence hands out is the one after those taken.
NumbersInTurn ==
  /\ IsFiniteSet(Unnumbered) /\ Cardinality(Unnumbered) <= calls /\ calls <= MaxCalls
  /\ fgNextSequence = IF Taken = SeqLimit - 1 THEN 1 ELSE Taken + 1

\* A call, a frame to the hub or an acknowledgement on its way has this number and command.
Uses(n, k) ==
  \/ \E c \in Caller : /\ pc[c] \in Inside \ {"sequence"}
                       /\ call[c].sequence = n /\ call[c].cmd = k
  \/ \E i \in 1..Len(toHub) : toHub[i].sequence = n /\ toHub[i].cmd = k
  \/ \E i \in 1..Len(toHost) : /\ toHost[i].type = "ack"
                               /\ toHost[i].answer.sequence = n /\ toHost[i].answer.cmd = k

\* No number has been given to two commands.
OneCommandPerNumber ==
  /\ \A n \in Nat, k \in Cmd : Uses(n, k) => n \in 1..Taken
  /\ \A n \in Nat, k \in Cmd, l \in Cmd : Uses(n, k) /\ Uses(n, l) => k = l

\* A call whose mailbox has been settled in the session it was entered in has its answer there.
Settled == \A c \in Caller :
  pc[c] \in Entered /\ call[c].born = fgSessionId /\ ~Mailbox(c).pending => Answered(c)

\* A call that found its mailbox settled is about to return, and nobody waits in it again.
Woken == \A c \in Caller : call[c].completed => pc[c] = "finish" /\ ~Mailbox(c).pending

Timely == NumbersInTurn /\ OneCommandPerNumber /\ Settled /\ Woken

\* A link that has just been opened has no call, no frame and no number taken.
LEMMA InitTimely == Init => Timely
<1> SUFFICES ASSUME Init PROVE Timely
  OBVIOUS
<1>1. Unnumbered = {} /\ calls = 0 /\ fgNextSequence = 1
  BY DEF Init, Unnumbered
<1>2. IsFiniteSet(Unnumbered) /\ Cardinality(Unnumbered) = 0
  BY <1>1, FS_EmptySet
<1>3. NumbersInTurn
  BY <1>1, <1>2, RequestAssumption DEF NumbersInTurn, Taken
<1>4. \A n, k : ~Uses(n, k)
  BY DEF Init, Uses, Inside, Labels
<1>5. OneCommandPerNumber
  BY <1>4 DEF OneCommandPerNumber
<1>6. PICK p \in Port, k \in Cmd : call = [c \in Caller |-> NewCall(p, k)]
  BY DEF Init
<1>7. Settled /\ Woken
  BY <1>6 DEF Init, Settled, Woken, Entered, Inside, NewCall
<1> QED
  BY <1>3, <1>5, <1>7 DEF Timely

\* next_sequence gives its number to a call that had none.
LEMMA TakeNumbers ==
  ASSUME Typed, NEW c \in Caller, TakeSequence(c)
  PROVE  c \in Unnumbered /\ Unnumbered' = Unnumbered \ {c} /\ calls' = calls
<1>1. pc \in [Caller -> Labels]
  BY DEF Typed, TypeOK
<1> QED
  BY <1>1 DEF Unnumbered, TakeSequence, Goto

\* Which calls have no number yet: a call that begins has none, take gives it one, and
\* the other steps change nothing.
LEMMA UnnumberedOf ==
  ASSUME Typed, [Next]_vars
  PROVE  \/ \E c \in Caller : /\ c \notin Unnumbered /\ Unnumbered' = Unnumbered \cup {c}
                              /\ calls < MaxCalls /\ calls' = calls + 1
                              /\ fgNextSequence' = fgNextSequence
         \/ \E c \in Caller : /\ c \in Unnumbered /\ Unnumbered' = Unnumbered \ {c}
                              /\ calls' = calls /\ TakeSequence(c)
         \/ /\ Unnumbered' = Unnumbered /\ calls' = calls /\ fgNextSequence' = fgNextSequence
            /\ \A c \in Caller : ~TakeSequence(c)
<1>0. pc \in [Caller -> Labels]
  BY DEF Typed, TypeOK
<1> USE DEF Unnumbered, Goto
<1>1. ASSUME NEW c \in Caller, NEW p \in Port, NEW k \in Cmd, Call(c, p, k)
      PROVE  /\ c \notin Unnumbered /\ Unnumbered' = Unnumbered \cup {c}
             /\ calls < MaxCalls /\ calls' = calls + 1
             /\ fgNextSequence' = fgNextSequence
  BY <1>0, <1>1 DEF Call
<1>2. ASSUME NEW c \in Caller, TakeSequence(c)
      PROVE  /\ c \in Unnumbered /\ Unnumbered' = Unnumbered \ {c} /\ calls' = calls
  BY <1>2, TakeNumbers
<1>3. ASSUME NEW c \in Caller, LockRequest(c) \/ Proceed(c), ~TakeSequence(c)
      PROVE  /\ Unnumbered' = Unnumbered /\ calls' = calls /\ fgNextSequence' = fgNextSequence
             /\ \A d \in Caller : ~TakeSequence(d)
  <2>1. /\ calls' = calls /\ fgNextSequence' = fgNextSequence
        /\ pc[c] \in {"lock", "sequence"} <=> pc'[c] \in {"lock", "sequence"}
    BY <1>0, <1>3 DEF LockRequest, Proceed, MarkPending, BeginAttempt, Send, SendFails,
       WaitDone, WaitExpires, Finish
  <2>2. pc'[c] # "mark" \/ pc[c] = "mark"
    BY <1>0, <1>3 DEF LockRequest, Proceed, MarkPending, BeginAttempt, Send, SendFails,
       WaitDone, WaitExpires, Finish
  <2>3. ASSUME NEW d \in Caller, TakeSequence(d) PROVE FALSE
    <3>1. pc[d] = "sequence" /\ pc'[d] = "mark"
      BY <1>0, <2>3 DEF TakeSequence
    <3> QED
      BY <1>3, <2>2, <3>1, OneCallerMoves
  <2> QED
    BY <1>3, <2>1, <2>3, OneCallerMoves
<1>4. ASSUME Receive \/ LoseFrame \/ Hub \/ UNCHANGED vars
      PROVE  /\ Unnumbered' = Unnumbered /\ calls' = calls /\ fgNextSequence' = fgNextSequence
             /\ \A c \in Caller : ~TakeSequence(c)
  <2>1. UNCHANGED callerVars
    BY <1>4, OutsideSteps
  <2>2. ASSUME NEW c \in Caller, TakeSequence(c) PROVE FALSE
    <3>1. pc[c] = "sequence" /\ pc'[c] = "mark"
      BY <1>0, <2>2 DEF TakeSequence
    <3> QED
      BY <2>1, <3>1 DEF callerVars
  <2> QED
    BY <2>1, <2>2 DEF callerVars
<1> QED
  BY <1>1, <1>2, <1>3, <1>4, Zenon DEF Next

\* Numbers are taken in turn, one by each call; until they come round the next is a new one.
LEMMA StepInTurn ==
  ASSUME MaxCalls < SeqLimit, Typed, NumbersInTurn, [Next]_vars
  PROVE  /\ NumbersInTurn'
         /\ Taken \in Nat /\ Taken <= Taken'
         /\ \A c \in Caller : TakeSequence(c) =>
              fgNextSequence = Taken + 1 /\ Taken' = Taken + 1
<1> USE RequestAssumption DEF NumbersInTurn, Taken
<1>1. /\ calls \in Nat /\ Cardinality(Unnumbered) \in Nat
  BY FS_CardinalityType DEF Typed, TypeOK
<1>2. ASSUME NEW c \in Caller, c \notin Unnumbered, Unnumbered' = Unnumbered \cup {c},
             calls < MaxCalls, calls' = calls + 1, fgNextSequence' = fgNextSequence
      PROVE  NumbersInTurn' /\ Taken' = Taken
  <2>1. IsFiniteSet(Unnumbered') /\ Cardinality(Unnumbered') = Cardinality(Unnumbered) + 1
    BY <1>2, FS_AddElement
  <2>2. Taken' = Taken
    BY <1>1, <1>2, <2>1
  <2> QED
    BY <1>1, <1>2, <2>1, <2>2
<1>3. ASSUME NEW c \in Caller, c \in Unnumbered, Unnumbered' = Unnumbered \ {c},
             calls' = calls, TakeSequence(c)
      PROVE  NumbersInTurn' /\ fgNextSequence = Taken + 1 /\ Taken' = Taken + 1
  <2>1. IsFiniteSet(Unnumbered') /\ Cardinality(Unnumbered') = Cardinality(Unnumbered) - 1
    BY <1>3, FS_RemoveElement
  <2>2. Cardinality(Unnumbered') \in Nat
    BY <2>1, FS_CardinalityType
  <2>3. Taken' = Taken + 1 /\ Taken < calls /\ Taken \in Nat
    BY <1>1, <1>3, <2>1, <2>2
  <2>4. fgNextSequence = Taken + 1
    BY <1>1, <2>3
  <2>5. fgNextSequence' = NextSequence(fgNextSequence)
    BY <1>3 DEF TakeSequence
  <2>6. (Taken + 2) % SeqLimit = IF Taken + 2 = SeqLimit THEN 0 ELSE Taken + 2
    <3>1. Taken + 2 <= SeqLimit
      BY <1>1, <2>3
    <3>2. CASE Taken + 2 = SeqLimit
      BY <2>3, <3>2
    <3>3. CASE Taken + 2 < SeqLimit
      BY <2>3, <3>3
    <3> QED
      BY <2>3, <3>1, <3>2, <3>3
  <2>7. fgNextSequence + 1 = Taken + 2
    BY <2>3, <2>4
  <2>8. fgNextSequence' = IF Taken + 2 = SeqLimit THEN 1 ELSE Taken + 2
    BY <2>3, <2>5, <2>6, <2>7 DEF NextSequence
  <2> HIDE DEF Taken
  <2>9. fgNextSequence' = IF Taken' = SeqLimit - 1 THEN 1 ELSE Taken' + 1
    BY <2>3, <2>8
  <2> QED
    BY <1>1, <1>3, <2>1, <2>2, <2>3, <2>4, <2>9
<1>4. ASSUME Unnumbered' = Unnumbered, calls' = calls, fgNextSequence' = fgNextSequence
      PROVE  NumbersInTurn' /\ Taken' = Taken
  <2>1. MaxCalls' = MaxCalls
    OBVIOUS
  <2> QED
    BY <1>4
<1>5. Taken \in Nat
  BY <1>1
<1> HIDE DEF NumbersInTurn, Taken
<1>6. ASSUME NEW d \in Caller, TakeSequence(d)
      PROVE  fgNextSequence = Taken + 1 /\ Taken' = Taken + 1
  BY <1>3, <1>6, TakeNumbers
<1> QED
  BY <1>2, <1>3, <1>4, <1>5, <1>6, UnnumberedOf

\* A step of a call keeps its number, except that take gives it one and finish drops it; and
\* it is numbered before and after, or it ends here.
LEMMA NumberOf ==
  ASSUME Typed, NEW c \in Caller, LockRequest(c) \/ Proceed(c), ~TakeSequence(c), ~Finish(c)
  PROVE  /\ call'[c].sequence = call[c].sequence
         /\ pc'[c] \in Inside \ {"sequence"} <=> pc[c] \in Inside \ {"sequence"}
<1>1. call[c] \in Locals /\ call \in [Caller -> Locals] /\ pc \in [Caller -> Labels]
  BY DEF Typed, TypeOK
<1>2. pc'[c] \in Inside \ {"sequence"} <=> pc[c] \in Inside \ {"sequence"}
  BY <1>1 DEF LockRequest, Proceed, MarkPending, BeginAttempt, Send, SendFails,
     WaitDone, WaitExpires, Inside, Labels, Goto
<1> SUFFICES call'[c].sequence = call[c].sequence
  BY <1>2
<1>3. CASE LockRequest(c) \/ MarkPending(c)
  BY <1>1, <1>3 DEF LockRequest, MarkPending, Locals
<1>4. CASE BeginAttempt(c) \/ Send(c) \/ WaitDone(c)
  BY <1>1, <1>4 DEF BeginAttempt, Send, WaitDone, Locals
<1>5. CASE SendFails(c)
  <2>1. PICK error \in SendErrors : call' = [call EXCEPT ![c].result = error]
    BY <1>5 DEF SendFails
  <2> QED
    BY <1>1, <2>1 DEF Locals
<1>6. CASE WaitExpires(c)
  <2>1. call' = [call EXCEPT ![c].attempt = call[c].attempt + 1]
    BY <1>6 DEF WaitExpires
  <2> QED
    BY <1>1, <2>1 DEF Locals
<1> QED
  BY <1>2, <1>3, <1>4, <1>5, <1>6 DEF Proceed

\* A number in use was in use before with the same command, or a call has just taken it:
\* by a call,
LEMMA CallUsesOf ==
  ASSUME Typed, [Next]_vars, NEW d \in Caller, pc'[d] \in Inside \ {"sequence"}
  PROVE  \/ Uses(call'[d].sequence, call'[d].cmd)
         \/ /\ TakeSequence(d) /\ call'[d].sequence = fgNextSequence
            /\ call'[d].cmd = call[d].cmd
<1>0. /\ pc \in [Caller -> Labels] /\ call \in [Caller -> Locals]
  BY DEF Typed, TypeOK
<1>a. ASSUME pc[d] \in Inside \ {"sequence"},
             call'[d].sequence = call[d].sequence, call'[d].cmd = call[d].cmd
      PROVE  Uses(call'[d].sequence, call'[d].cmd)
  BY <1>a DEF Uses
<1>1. ASSUME NEW c \in Caller, NEW p \in Port, NEW k \in Cmd, Call(c, p, k)
      PROVE  pc[d] \in Inside \ {"sequence"} /\ call'[d] = call[d]
  BY <1>0, <1>1 DEF Call, Goto, Inside, Labels
<1>2. ASSUME TakeSequence(d)
      PROVE  call'[d].sequence = fgNextSequence /\ call'[d].cmd = call[d].cmd
  BY <1>0, <1>2 DEF TakeSequence, Locals
<1>3. ASSUME NEW c \in Caller, LockRequest(c) \/ Proceed(c), c # d
      PROVE  pc[d] \in Inside \ {"sequence"} /\ call'[d] = call[d]
  BY <1>3, OneCallerMoves
<1>4. ASSUME LockRequest(d) \/ Proceed(d), ~TakeSequence(d)
      PROVE  /\ pc[d] \in Inside \ {"sequence"}
             /\ call'[d].sequence = call[d].sequence /\ call'[d].cmd = call[d].cmd
  <2>1. ~Finish(d)
    BY <1>0 DEF Finish, Goto, Inside
  <2> QED
    BY <1>4, <2>1, NumberOf, OneCallerMoves
<1>5. ASSUME Receive \/ LoseFrame \/ Hub \/ UNCHANGED vars
      PROVE  pc[d] \in Inside \ {"sequence"} /\ call'[d] = call[d]
  BY <1>5, OutsideSteps DEF callerVars
<1>6. ASSUME pc[d] \in Inside \ {"sequence"}, call'[d] = call[d]
      PROVE  Uses(call'[d].sequence, call'[d].cmd)
  BY <1>6, <1>a
<1> QED
  BY <1>a, <1>1, <1>2, <1>3, <1>4, <1>5, <1>6 DEF Next

\* by a frame to the hub,
LEMMA HubUsesOf ==
  ASSUME Typed, [Next]_vars, NEW i \in 1..Len(toHub')
  PROVE  Uses(toHub'[i].sequence, toHub'[i].cmd)
<1>0. toHub \in Seq(Requests) /\ pc \in [Caller -> Labels]
  BY DEF Typed, TypeOK
<1>1. CASE toHub' = toHub
  BY <1>1 DEF Uses
<1>2. CASE toHub # <<>> /\ toHub' = Tail(toHub)
  <2>1. i + 1 \in 1..Len(toHub) /\ toHub'[i] = toHub[i + 1]
    BY <1>0, <1>2
  <2> QED
    BY <2>1 DEF Uses
<1>3. ASSUME NEW c \in Caller, pc[c] = "send", toHub' = Append(toHub, Frame(c))
      PROVE  Uses(toHub'[i].sequence, toHub'[i].cmd)
  <2> DEFINE f == Frame(c)
  <2>1. /\ f.sequence = call[c].sequence /\ f.cmd = call[c].cmd
        /\ toHub' = Append(toHub, f)
    BY <1>3 DEF Frame
  <2>2. toHub'[i] = f \/ (i \in 1..Len(toHub) /\ toHub'[i] = toHub[i])
    <3> HIDE DEF f
    <3> QED
      BY <1>0, <2>1
  <2>3. pc[c] \in Inside \ {"sequence"}
    BY <1>3 DEF Inside, Labels
  <2> HIDE DEF f
  <2> QED
    BY <2>1, <2>2, <2>3 DEF Uses
<1>4. ASSUME NEW c \in Caller, Send(c) \/ SendFails(c)
      PROVE  toHub' = toHub \/ (pc[c] = "send" /\ toHub' = Append(toHub, Frame(c)))
  BY <1>4 DEF Send, SendFails
<1>5. ASSUME NEW c \in Caller, LockRequest(c) \/ Proceed(c), ~Send(c), ~SendFails(c)
      PROVE  toHub' = toHub
  BY <1>5 DEF LockRequest, Proceed, TakeSequence, MarkPending, BeginAttempt, WaitDone,
     WaitExpires, Finish
<1>6. ASSUME NEW c \in Caller, NEW p \in Port, NEW k \in Cmd, Call(c, p, k)
      PROVE  toHub' = toHub
  BY <1>6 DEF Call
<1>7. CASE Receive \/ LoseFrame \/ HubRestart \/ HubHello \/ UNCHANGED vars
  BY <1>1, <1>7 DEF Receive, ReceiveAck, ReceiveHello, ResetPort, LoseFrame, HubRestart,
     HubHello, vars
<1>8. CASE HubDrop \/ \E data \in AckData : HubExecute(data)
  BY <1>2, <1>8 DEF HubDrop, HubExecute
<1> QED
  BY <1>1, <1>3, <1>4, <1>5, <1>6, <1>7, <1>8 DEF Next, Proceed, Hub

\* by an acknowledgement, which the hub gives the number of the frame it executes.
LEMMA HostUsesOf ==
  ASSUME Typed, [Next]_vars, NEW i \in 1..Len(toHost'), toHost'[i].type = "ack"
  PROVE  Uses(toHost'[i].answer.sequence, toHost'[i].answer.cmd)
<1>0. toHost \in Seq(Frames) /\ toHub \in Seq(Requests)
  BY DEF Typed, TypeOK
<1>1. CASE toHost' = toHost
  BY <1>1 DEF Uses
<1>2. CASE toHost # <<>> /\ toHost' = Tail(toHost)
  <2>1. i + 1 \in 1..Len(toHost) /\ toHost'[i] = toHost[i + 1]
    BY <1>0, <1>2
  <2> QED
    BY <2>1 DEF Uses
<1>3. ASSUME NEW data \in AckData, HubExecute(data)
      PROVE  Uses(toHost'[i].answer.sequence, toHost'[i].answer.cmd)
  <2> DEFINE r == Head(toHub)
             a == [port |-> r.port, cmd |-> r.cmd, sequence |-> r.sequence,
                   session |-> r.session, data |-> data]
             f == [type |-> "ack", answer |-> a]
  <2>1. toHost' = Append(toHost, f) /\ r = toHub[1] /\ 1 \in 1..Len(toHub)
    BY <1>0, <1>3 DEF HubExecute
  <2>2. f.answer.sequence = toHub[1].sequence /\ f.answer.cmd = toHub[1].cmd
    BY <2>1
  <2> HIDE DEF f
  <2>3. toHost'[i] = f \/ (i \in 1..Len(toHost) /\ toHost'[i] = toHost[i])
    BY <1>0, <2>1
  <2> QED
    BY <2>1, <2>2, <2>3 DEF Uses
<1>4. CASE HubHello
  <2> DEFINE f == [type |-> "hello", session |-> hubSession]
  <2>1. toHost' = Append(toHost, f) /\ f.type # "ack"
    BY <1>4 DEF HubHello
  <2> HIDE DEF f
  <2>2. toHost'[i] = f \/ (i \in 1..Len(toHost) /\ toHost'[i] = toHost[i])
    BY <1>0, <2>1
  <2> QED
    BY <2>1, <2>2 DEF Uses
<1>5. ASSUME NEW c \in Caller, LockRequest(c) \/ Proceed(c) PROVE toHost' = toHost
  BY <1>5 DEF LockRequest, Proceed, TakeSequence, MarkPending, BeginAttempt, Send, SendFails,
     WaitDone, WaitExpires, Finish
<1>6. ASSUME NEW c \in Caller, NEW p \in Port, NEW k \in Cmd, Call(c, p, k)
      PROVE  toHost' = toHost
  BY <1>6 DEF Call
<1>7. CASE HubDrop \/ HubRestart \/ (\E p \in Port : ResetPort(p)) \/ UNCHANGED vars
  BY <1>1, <1>7 DEF HubDrop, HubRestart, ResetPort, vars
<1>8. CASE ReceiveAck \/ ReceiveHello \/ LoseFrame
  BY <1>2, <1>8 DEF ReceiveAck, ReceiveHello, LoseFrame, Receiving
<1> QED
  BY <1>1, <1>3, <1>4, <1>5, <1>6, <1>7, <1>8 DEF Next, Receive, Hub

\* All three together.
LEMMA UsesOf ==
  ASSUME Typed, [Next]_vars, NEW n, NEW k, Uses(n, k)'
  PROVE  \/ Uses(n, k)
         \/ \E c \in Caller : TakeSequence(c) /\ n = fgNextSequence /\ k = call[c].cmd
<1>1. ASSUME NEW d \in Caller, pc'[d] \in Inside \ {"sequence"},
             call'[d].sequence = n, call'[d].cmd = k
      PROVE  \/ Uses(n, k)
             \/ TakeSequence(d) /\ n = fgNextSequence /\ k = call[d].cmd
  BY <1>1, CallUsesOf
<1>2. ASSUME NEW i \in 1..Len(toHub'), toHub'[i].sequence = n, toHub'[i].cmd = k
      PROVE  Uses(n, k)
  BY <1>2, HubUsesOf
<1>3. ASSUME NEW i \in 1..Len(toHost'), toHost'[i].type = "ack",
             toHost'[i].answer.sequence = n, toHost'[i].answer.cmd = k
      PROVE  Uses(n, k)
  BY <1>3, HostUsesOf
<1>4. \/ \E d \in Caller : /\ pc'[d] \in Inside \ {"sequence"}
                           /\ call'[d].sequence = n /\ call'[d].cmd = k
      \/ \E i \in 1..Len(toHub') : toHub'[i].sequence = n /\ toHub'[i].cmd = k
      \/ \E i \in 1..Len(toHost') : /\ toHost'[i].type = "ack"
                                    /\ toHost'[i].answer.sequence = n
                                    /\ toHost'[i].answer.cmd = k
  BY DEF Uses
<1> QED
  BY <1>1, <1>2, <1>3, <1>4

\* next_sequence gives no number to a second command.
LEMMA StepNumbers ==
  ASSUME MaxCalls < SeqLimit, Typed, NumbersInTurn, OneCommandPerNumber, [Next]_vars
  PROVE  OneCommandPerNumber'
<1>1. /\ NumbersInTurn' /\ Taken \in Nat /\ Taken <= Taken'
      /\ \A c \in Caller : TakeSequence(c) =>
           fgNextSequence = Taken + 1 /\ Taken' = Taken + 1
  BY StepInTurn
<1>2. Taken' \in Nat
  <2>1. calls' \in Nat
    BY StepTyped DEF Typed, TypeOK
  <2>2. Cardinality(Unnumbered') \in Nat /\ Cardinality(Unnumbered') <= calls'
    BY <1>1, FS_CardinalityType DEF NumbersInTurn
  <2> QED
    BY <2>1, <2>2 DEF Taken
<1>3. ASSUME NEW n \in Nat, NEW k \in Cmd, Uses(n, k)'
      PROVE  \/ Uses(n, k) /\ n \in 1..Taken
             \/ \E c \in Caller : TakeSequence(c) /\ n = Taken + 1 /\ k = call[c].cmd
  BY <1>1, <1>3, UsesOf DEF OneCommandPerNumber
<1>4. \A c, d \in Caller : TakeSequence(c) /\ TakeSequence(d) => c = d
  <2>1. ASSUME NEW c \in Caller, NEW d \in Caller, TakeSequence(c), TakeSequence(d), c # d
        PROVE  FALSE
    <3>1. pc[d] = "sequence" /\ pc'[d] = "mark"
      BY <2>1 DEF TakeSequence, Goto, Typed, TypeOK
    <3>2. pc'[d] = pc[d]
      BY <2>1, OneCallerMoves DEF Proceed
    <3> QED
      BY <3>1, <3>2
  <2> QED
    BY <2>1
<1>5. ASSUME NEW n \in Nat, NEW k \in Cmd, Uses(n, k)' PROVE n \in 1..Taken'
  BY <1>1, <1>2, <1>3, <1>5
<1>6. ASSUME NEW n \in Nat, NEW k \in Cmd, NEW l \in Cmd, Uses(n, k)', Uses(n, l)'
      PROVE  k = l
  <2>1. CASE n \in 1..Taken
    BY <1>1, <1>3, <1>6, <2>1 DEF OneCommandPerNumber
  <2>2. CASE n \notin 1..Taken
    BY <1>3, <1>4, <1>6, <2>2
  <2> QED
    BY <2>1, <2>2
<1>7. (\A n \in Nat, k \in Cmd : Uses(n, k) => n \in 1..Taken)'
  BY <1>5
<1>8. (\A n \in Nat, k \in Cmd, l \in Cmd : Uses(n, k) /\ Uses(n, l) => k = l)'
  BY <1>6
<1> QED
  BY <1>7, <1>8 DEF OneCommandPerNumber

\* A step that leaves a caller with its mailbox set up found it so, unless it was mark.
LEMMA EnteredOf ==
  ASSUME Typed, [Next]_vars, NEW d \in Caller, pc'[d] \in Entered, ~MarkPending(d)
  PROVE  /\ pc[d] \in Entered
         /\ call'[d].port = call[d].port /\ call'[d].cmd = call[d].cmd
         /\ call'[d].sequence = call[d].sequence /\ call'[d].born = call[d].born
<1>0. pc \in [Caller -> Labels] /\ call \in [Caller -> Locals]
  BY DEF Typed, TypeOK
<1> USE DEF Entered, Inside, Labels, Goto
<1>1. ASSUME NEW c \in Caller, NEW p \in Port, NEW k \in Cmd, Call(c, p, k)
      PROVE  pc[d] \in Entered /\ call'[d] = call[d]
  BY <1>0, <1>1 DEF Call
<1>2. ASSUME NEW c \in Caller, LockRequest(c) \/ Proceed(c), c # d
      PROVE  pc[d] \in Entered /\ call'[d] = call[d]
  BY <1>2, OneCallerMoves
<1>3. CASE LockRequest(d) \/ Proceed(d)
  <2>1. ~Finish(d) /\ ~TakeSequence(d) /\ pc[d] \in Entered
    BY <1>0, <1>3 DEF LockRequest, Proceed, TakeSequence, BeginAttempt, Send, SendFails,
       WaitDone, WaitExpires, Finish
  <2> QED
    BY <1>3, <2>1, OneCallerMoves, NumberOf, BornOf
<1>4. ASSUME Receive \/ LoseFrame \/ Hub \/ UNCHANGED vars
      PROVE  pc[d] \in Entered /\ call'[d] = call[d]
  BY <1>4, OutsideSteps DEF callerVars
<1> QED
  BY <1>1, <1>2, <1>3, <1>4 DEF Next

\* Two callers inside raspike_request are on two ports.
LEMMA OnePerPort ==
  ASSUME HoldsMutex, NEW c \in Caller, NEW d \in Caller, pc[c] \in Inside, pc[d] \in Inside,
         call[c].port = call[d].port
  PROVE  c = d
BY DEF HoldsMutex

\* Nobody waits again in the mailbox of a call that is about to return.
LEMMA StepWoken == Inductive /\ Woken /\ [Next]_vars => Woken'
<1> SUFFICES ASSUME Inductive, Woken, [Next]_vars, NEW d \in Caller, call'[d].completed
             PROVE  pc'[d] = "finish" /\ ~dev'[call'[d].port].pending
  BY DEF Woken, Mailbox
<1>0. /\ Typed /\ HoldsMutex
      /\ pc \in [Caller -> Labels] /\ call \in [Caller -> Locals] /\ dev \in [Port -> Mailboxes]
      /\ \A c \in Caller : call[c] \in Locals /\ call[c].port \in Port
  BY DEF Inductive, Typed, TypeOK, Locals
<1> DEFINE About(c) == pc[c] = "finish" /\ ~dev[call[c].port].pending
<1>a. call[d].completed => About(d)
  BY DEF Woken, Mailbox
<1>1. ASSUME NEW c \in Caller, NEW p \in Port, NEW k \in Cmd, Call(c, p, k)
      PROVE  pc'[d] = "finish" /\ ~dev'[call'[d].port].pending
  <2>1. d # c /\ dev' = dev
    BY <1>0, <1>1 DEF Call, NewCall
  <2> QED
    BY <1>0, <1>1, <1>a, <2>1 DEF Call, Goto
<1>2. ASSUME NEW c \in Caller, LockRequest(c) \/ Proceed(c), c # d
      PROVE  pc'[d] = "finish" /\ ~dev'[call'[d].port].pending
  <2>1. pc'[d] = pc[d] /\ call'[d] = call[d] /\ About(d)
    BY <1>0, <1>2, <1>a, OneCallerMoves
  <2>2. CASE MarkPending(c)
    <3>1. call[c].port # call[d].port
      BY <1>0, <1>2, <2>1, <2>2, OnePerPort DEF MarkPending, Inside, Labels
    <3> QED
      BY <1>0, <2>1, <2>2, <3>1 DEF MarkPending
  <2>3. CASE Finish(c)
    <3>1. dev' = [dev EXCEPT ![call[c].port].pending = FALSE]
      BY <2>3 DEF Finish
    <3>2. \A p \in Port : dev'[p].pending => dev[p].pending
      BY <1>0, <3>1 DEF Mailboxes
    <3> QED
      BY <1>0, <2>1, <3>2
  <2>4. CASE ~MarkPending(c) /\ ~Finish(c)
    <3>1. dev' = dev
      BY <1>2, <2>4 DEF LockRequest, Proceed, TakeSequence, BeginAttempt, Send, SendFails,
         WaitDone, WaitExpires
    <3> QED
      BY <2>1, <3>1
  <2> QED
    BY <2>2, <2>3, <2>4
<1>3. CASE LockRequest(d) \/ Proceed(d)
  <2>1. ~Finish(d)
    BY <1>0 DEF Finish, NewCall
  <2>2. CASE BeginAttempt(d) \/ WaitDone(d)
    <3>1. CASE BeginAttempt(d) /\ Mailbox(d).pending
      BY <1>0, <1>a, <3>1 DEF BeginAttempt
    <3>2. CASE ~Mailbox(d).pending
      <4>1. dev' = dev /\ call' = [call EXCEPT ![d].completed = TRUE] /\ pc'[d] = "finish"
        BY <1>0, <2>2, <3>2 DEF BeginAttempt, WaitDone, Goto
      <4>2. call'[d].port = call[d].port
        BY <1>3, <1>0, OneCallerMoves
      <4> QED
        BY <3>2, <4>1, <4>2 DEF Mailbox
    <3> QED
      BY <2>2, <3>1, <3>2 DEF WaitDone
  <2>3. CASE ~BeginAttempt(d) /\ ~WaitDone(d)
    <3>1. call[d].completed
      <4>1. CASE SendFails(d)
        <5>1. PICK error \in SendErrors : call' = [call EXCEPT ![d].result = error]
          BY <4>1 DEF SendFails
        <5> QED
          BY <1>0, <5>1 DEF Locals
      <4>2. CASE WaitExpires(d)
        <5>1. call' = [call EXCEPT ![d].attempt = call[d].attempt + 1]
          BY <4>2 DEF WaitExpires
        <5> QED
          BY <1>0, <5>1 DEF Locals
      <4>3. CASE LockRequest(d)
        BY <4>3 DEF LockRequest
      <4>4. CASE TakeSequence(d)
        BY <1>0, <4>4 DEF TakeSequence, Locals
      <4>5. CASE MarkPending(d)
        BY <1>0, <4>5 DEF MarkPending, Locals
      <4>6. CASE Send(d)
        BY <1>0, <4>6 DEF Send, Locals
      <4> QED
        BY <1>3, <2>1, <2>3, <4>1, <4>2, <4>3, <4>4, <4>5, <4>6 DEF Proceed
    <3>2. pc[d] = "finish"
      BY <1>a, <3>1
    <3> QED
      BY <1>3, <2>1, <2>3, <3>2 DEF LockRequest, Proceed, TakeSequence, MarkPending, Send,
         SendFails, WaitExpires
  <2> QED
    BY <2>2, <2>3
<1>4. CASE Receive \/ LoseFrame \/ Hub \/ UNCHANGED vars
  <2>1. pc' = pc /\ call' = call
    BY <1>4, OutsideSteps DEF callerVars
  <2> QED
    BY <1>0, <1>4, <1>a, <2>1, OutsideNeverWaits
<1> QED
  BY <1>1, <1>2, <1>3, <1>4 DEF Next

\* A HELLO that changes the session brings a later one.
LEMMA SessionOf ==
  ASSUME Typed, SessionsGrow, ReceiveHello
  PROVE  fgSessionId' = fgSessionId \/ fgSessionId < fgSessionId'
<1>0. toHost \in Seq(Frames) /\ fgSessionId \in Nat
  BY DEF Typed, TypeOK
<1>1. /\ Head(toHost) = toHost[1] /\ 1 \in 1..Len(toHost) /\ toHost[1].type = "hello"
      /\ toHost[1] \in Frames
  BY <1>0 DEF ReceiveHello, Receiving
<1>2. toHost[1].session \in Nat /\ fgSessionId <= toHost[1].session
  BY <1>1 DEF SessionsGrow, Frames
<1> QED
  BY <1>0, <1>1, <1>2 DEF ReceiveHello

\* Once it is set up, only the receiver changes the mailbox of a call.
LEMMA MailboxOf ==
  ASSUME Inductive, [Next]_vars, NEW d \in Caller, pc[d] \in Entered, pc'[d] \in Entered,
         ~MarkPending(d), dev'[call[d].port] # dev[call[d].port]
  PROVE  ReceiveAck \/ ResetPort(call[d].port)
<1>0. /\ Typed /\ HoldsMutex
      /\ pc \in [Caller -> Labels] /\ dev \in [Port -> Mailboxes]
      /\ \A c \in Caller : call[c].port \in Port
  BY DEF Inductive, Typed, TypeOK, Locals
<1>1. ASSUME NEW c \in Caller, MarkPending(c) \/ Finish(c) PROVE FALSE
  <2>1. c # d /\ pc[c] \in Inside
    BY <1>0, <1>1 DEF MarkPending, Finish, Goto, Entered, Inside, Labels
  <2>2. call[c].port # call[d].port
    BY <1>0, <2>1, OnePerPort DEF Entered
  <2> QED
    BY <1>0, <1>1, <2>2 DEF MarkPending, Finish
<1>2. ASSUME NEW c \in Caller, LockRequest(c) \/ Proceed(c) PROVE FALSE
  BY <1>1, <1>2 DEF LockRequest, Proceed, TakeSequence, BeginAttempt, Send, SendFails,
     WaitDone, WaitExpires
<1>3. ASSUME NEW c \in Caller, NEW p \in Port, NEW k \in Cmd, Call(c, p, k) PROVE FALSE
  BY <1>3 DEF Call
<1>4. ASSUME NEW p \in Port, ResetPort(p) PROVE p = call[d].port
  BY <1>0, <1>4 DEF ResetPort
<1>5. ~ReceiveHello /\ ~LoseFrame /\ ~Hub /\ ~UNCHANGED vars
  BY DEF ReceiveHello, LoseFrame, Hub, HubExecute, HubDrop, HubRestart, HubHello, vars
<1> QED
  BY <1>2, <1>3, <1>4, <1>5 DEF Next, Receive

\* An acknowledgement that settles a mailbox answers the command of the call that waits there.
LEMMA AckAnswers ==
  ASSUME Inductive, OneCommandPerNumber, ReceiveAck, NEW d \in Caller, pc[d] \in Entered,
         dev'[call[d].port] # dev[call[d].port]
  PROVE  /\ dev'[call[d].port].ack_cmd = call[d].cmd
         /\ dev'[call[d].port].ack_sequence = call[d].sequence
         /\ dev'[call[d].port].ack_session = fgSessionId
<1> DEFINE p == call[d].port
           a == Head(toHost).answer
<1>0. /\ dev \in [Port -> Mailboxes] /\ toHost \in Seq(Frames)
      /\ call[d].port \in Port /\ call[d].cmd \in Cmd /\ call[d].sequence \in Nat
  BY DEF Inductive, Typed, TypeOK, Locals
<1>1. /\ Head(toHost) = toHost[1] /\ 1 \in 1..Len(toHost) /\ toHost[1].type = "ack"
      /\ toHost[1] \in Frames
  BY <1>0 DEF ReceiveAck, Receiving
<1>2. a = toHost[1].answer /\ a \in Answers
  BY <1>1 DEF Frames
<1>3. a.cmd \in Cmd /\ a.sequence \in Nat /\ a.port \in Port
  BY <1>2 DEF Answers
<1>4. /\ p = a.port /\ Matches(a) /\ dev' = [dev EXCEPT ![a.port] =
                     [@ EXCEPT !.ack_cmd = a.cmd, !.ack_data = a.data,
                               !.ack_sequence = a.sequence,
                               !.ack_session = a.session, !.pending = FALSE]]
  BY <1>0, <1>3 DEF ReceiveAck
<1>5. /\ dev'[p].ack_cmd = a.cmd /\ dev'[p].ack_sequence = a.sequence
      /\ dev'[p].ack_session = a.session
  BY <1>0, <1>4 DEF Mailboxes
<1>6. dev[p].pending /\ a.sequence = dev[p].pending_sequence /\ a.session = fgSessionId
  BY <1>4 DEF Matches
<1>7. dev[p].pending_sequence = call[d].sequence
  <2>1. PICK c \in Caller : /\ request_mutex[p] = c /\ call[c].port = p /\ pc[c] \in Entered
                            /\ dev[p].pending_sequence = call[c].sequence
    BY <1>0, <1>6 DEF Inductive, PendingIsOwned
  <2>2. c = d
    BY <2>1, OnePerPort DEF Entered, Inductive
  <2> QED
    BY <2>1, <2>2
<1>8. Uses(call[d].sequence, a.cmd) /\ Uses(call[d].sequence, call[d].cmd)
  BY <1>1, <1>2, <1>6, <1>7 DEF Uses, Entered
<1>9. a.cmd = call[d].cmd
  BY <1>0, <1>3, <1>8 DEF OneCommandPerNumber
<1> QED
  BY <1>5, <1>6, <1>7, <1>9

\* A mailbox that is settled in its call's session is settled with the call's answer.
LEMMA StepSettled ==
  Inductive /\ Honest /\ OneCommandPerNumber /\ Settled /\ [Next]_vars => Settled'
<1> SUFFICES ASSUME Inductive, Honest, OneCommandPerNumber, Settled, [Next]_vars,
                    NEW d \in Caller, pc'[d] \in Entered, call'[d].born = fgSessionId',
                    ~dev'[call'[d].port].pending
             PROVE  /\ dev'[call'[d].port].ack_cmd = call'[d].cmd
                    /\ dev'[call'[d].port].ack_sequence = call'[d].sequence
                    /\ dev'[call'[d].port].ack_session = fgSessionId'
  BY DEF Settled, Answered, Mailbox
<1>0. /\ Typed /\ dev \in [Port -> Mailboxes] /\ call \in [Caller -> Locals]
      /\ call[d].port \in Port /\ call[d].born \in Nat /\ fgSessionId \in Nat
  BY DEF Inductive, Typed, TypeOK, Locals
<1>1. ~MarkPending(d)
  <2>1. ASSUME MarkPending(d) PROVE dev'[call'[d].port].pending = TRUE
    <3>1. call'[d].port = call[d].port
      BY <1>0, <2>1, OneCallerMoves DEF Proceed
    <3> QED
      BY <1>0, <2>1, <3>1 DEF MarkPending, EmptyMailbox
  <2> QED
    BY <2>1
<1>2. /\ pc[d] \in Entered
      /\ call'[d].port = call[d].port /\ call'[d].cmd = call[d].cmd
      /\ call'[d].sequence = call[d].sequence /\ call'[d].born = call[d].born
  BY <1>0, <1>1, EnteredOf
<1>3. fgSessionId' = fgSessionId
  <2>1. CASE ReceiveHello
    <3>1. call[d].born <= fgSessionId
      BY DEF Honest, NoneFromLater
    <3>2. fgSessionId < fgSessionId' => call[d].born < fgSessionId'
      <4>1. ASSUME fgSessionId < fgSessionId' PROVE fgSessionId' \in Nat
        BY StepTyped, <1>0 DEF Typed, TypeOK
      <4> QED
        BY <1>0, <3>1, <4>1
    <3>3. ~(fgSessionId < fgSessionId')
      BY <1>0, <1>2, <3>2
    <3> QED
      BY <1>0, <2>1, <3>3, SessionOf DEF Honest
  <2>2. CASE ~ReceiveHello
    BY <2>2 DEF Next, Call, LockRequest, Proceed, TakeSequence, MarkPending, BeginAttempt,
       Send, SendFails, WaitDone, WaitExpires, Finish, Receive, ReceiveAck, ResetPort,
       LoseFrame, Hub, HubExecute, HubDrop, HubRestart, HubHello, vars
  <2> QED
    BY <2>1, <2>2
<1>4. CASE dev'[call[d].port] = dev[call[d].port]
  BY <1>2, <1>3, <1>4 DEF Settled, Answered, Mailbox
<1>5. CASE dev'[call[d].port] # dev[call[d].port]
  <2>1. ~ResetPort(call[d].port)
    BY <1>2, <1>3 DEF ResetPort, Honest, StaleIsTrue
  <2>2. ReceiveAck
    BY <1>1, <1>2, <1>5, <2>1, MailboxOf
  <2> QED
    BY <1>2, <1>3, <1>5, <2>2, AckAnswers
<1> QED
  BY <1>4, <1>5

\* Every step keeps a timeout honest while there are numbers left.
LEMMA StepTimely ==
  ASSUME MaxCalls < SeqLimit
  PROVE  Inductive /\ Honest /\ Timely /\ [Next]_vars => Timely'
BY StepInTurn, StepNumbers, StepSettled, StepWoken DEF Timely, Inductive

\* The step in which raspike_request returns -ETIMEDOUT to a caller that was woken.
LEMMA ReturnedTimeoutIsHonest ==
  ASSUME Inductive, Settled, Woken, [Next]_vars, NEW c \in Caller, Returns(c),
         call[c].completed, call'[c].result = -ETIMEDOUT
  PROVE  call[c].born # fgSessionId
<1>0. /\ call \in [Caller -> Locals] /\ call[c] \in Locals
      /\ call[c].port \in Port /\ call[c].cmd \in Cmd /\ dev \in [Port -> Mailboxes]
  BY DEF Inductive, Typed, TypeOK, Locals
<1> SUFFICES ASSUME call[c].born = fgSessionId PROVE FALSE
  OBVIOUS
<1>1. Finish(c)
  BY ReturnIsFinish DEF Inductive
<1>2. ~Mailbox(c).pending /\ Answered(c)
  BY <1>1 DEF Finish, Woken, Settled, Entered, Inside, Labels
<1>3. ResultOf(c) = Mailbox(c).ack_data
  BY <1>2 DEF ResultOf
<1>4. Mailbox(c).ack_data \in AckData
  <2>1. Stored(call[c].port) \in Answers
    BY <1>0, <1>2 DEF Answered, Mailbox, Inductive, MailboxesAreGenuine, Typed, TypeOK
  <2> QED
    BY <2>1 DEF Stored, Answers, Mailbox
<1>5. call'[c].result = ResultOf(c)
  <2>1. ResultOf(c) \in Int
    BY <1>3, <1>4, RequestAssumption
  <2> QED
    BY <1>0, <1>1, <2>1 DEF Finish, NewCall
<1>6. -ETIMEDOUT \notin AckData
  BY RequestAssumption DEF Errors, SendErrors
<1> QED
  BY <1>3, <1>4, <1>5, <1>6

\* A call that was woken reports a timeout only when the session changed under it, for
\* fewer calls than there are sequence numbers: after that, an acknowledgement of an old
\* command may carry the number of a new one.
THEOREM TimeoutsAreHonest ==
  ASSUME MaxCalls < SeqLimit
  PROVE  Spec => HonestTimeout
<1>1. Init => Inductive /\ Honest /\ Timely
  BY InitInductive, InitHonest, InitTimely
<1>2. (Inductive /\ Honest /\ Timely) /\ [Next]_vars => (Inductive /\ Honest /\ Timely)'
  BY StepInductive, StepHonest, StepTimely
<1>3. (Inductive /\ Honest /\ Timely) /\ [Next]_vars =>
        [\A c \in Caller :
           Returns(c) /\ call[c].completed /\ call'[c].result = -ETIMEDOUT
           => call[c].born # fgSessionId]_vars
  BY ReturnedTimeoutIsHonest DEF Timely
<1> QED
  BY <1>1, <1>2, <1>3, PTL DEF Spec, HonestTimeout
=============================================================================

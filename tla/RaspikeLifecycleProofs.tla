----------------------- MODULE RaspikeLifecycleProofs -----------------------
(***************************************************************************)
(* Proofs about RaspikeLifecycle, for any receivers, senders, ports and    *)
(* bounds.  Inductive is the conjunction of the named parts below; the     *)
(* safety invariants follow from it.  Liveness is left to TLC.             *)
(***************************************************************************)
EXTENDS RaspikeLifecycle, FiniteSetTheorems, TLAPS

InDevice  == {"request", "attempt", "send", "sending", "wait", "finish", "configure"}
InRequest == {"attempt", "send", "sending", "wait", "finish"}

\* A request that may send or wait again has an attempt left.
AttemptsLeft == \A c \in Sender :
  pc[c] \in InRequest \ {"finish"} => call[c].attempts \in 1..2

\* Only GET_DEVICE_COMMON waits for a device_mutex and configures a device.
OpenersConfigure == \A c \in Sender : pc[c] \in {"device", "configure"} => c \in Opener

Typed == TypeOK /\ AttemptsLeft /\ OpenersConfigure

\* Who holds which lock.
HoldsLocks ==
  /\ \A c \in Sender :
       /\ pc[c] = "sending" => fgSendMutex = c
       /\ pc[c] \in InRequest => request_mutex[call[c].port] = c
       /\ c \in Opener /\ pc[c] \in InDevice => device_mutex[call[c].port] = c
  /\ ctl = "reset" => fgSendMutex = Main

Closing == {"drain", "detach", "reset", "free", "forget"}

\* What the flags say of the link at each point of its life.
Flags ==
  /\ fgHandshakeComplete => ctl \in Closing \cup {"up"}
  /\ ctl \in Closing => fgStopCommunication
  /\ fgDesc # 0 => fgDesc = links /\ links \in live
  /\ ctl \in {"allocate", "handshake", "complete", "up", "drain", "detach"} => fgDesc # 0
  /\ ctl \in {"reset", "free", "forget"} => fgDesc = 0
  /\ ctl \in {"complete", "up", "drain"} => fgSessionId = fgDesc
  /\ ctl \in {"handshake", "complete", "up", "drain"} => fgStatus = fgDesc
  /\ ctl \notin {"handshake", "reset"} => AllPortsReset

\* Receivers are inside only while the link is up or drained.
ReceiversOfOpenLink == \A r \in Receiver : rpc[r] # "out" => ctl \in {"up", "drain"}

\* While ports are reset under fgSendMutex, nobody is left waiting at one that was.
NoneWaitsAtReset == ctl = "reset" =>
  \A c \in Sender : pc[c] = "wait" /\ Waiting(c) => call[c].port \in todo

\* Before the first raspike_prot_init no port is in use.
Untouched == ~fgPortSynchronizationInitialized =>
  /\ \A c \in Sender : pc[c] = "out"
  /\ \A p \in Port : device[p] = 0 /\ mailbox[p] = NoMail

\* A port that was reset when the link was opened keeps nothing of the links before it.
Clean == ctl \in {"handshake", "complete", "up"} =>
  \A p \in Port \ todo :
    /\ mailbox[p].link \in {0, fgDesc}
    /\ p # at => /\ device[p] \in {0, fgDesc}
                 /\ \A c \in Sender : pc[c] = "configure" /\ call[c].port = p =>
                      call[c].result \in {0, fgDesc}

Inductive ==
  /\ Typed
  /\ HoldsLocks /\ Flags /\ ReceiversOfOpenLink
  /\ SenderHasLink /\ NoneWaitsAtReset /\ NoWaitOnClosedLink
  /\ Untouched /\ Clean

-----------------------------------------------------------------------------
(* Who changes what. *)

MainMoves == InitClaim \/ ShutdownBegin \/ MainSteps
ReceiverMoves(r) == ReceiveEnter(r) \/ ReceiverSteps(r)
SenderMoves(c) == SenderSteps(c) \/ \E p \in Port : Call(c, p)

\* Every step is one of Main's, of a receiver's or of a sender's.
LEMMA NextSplits ==
  [Next]_vars => \/ MainMoves \/ UNCHANGED vars
                 \/ \E r \in Receiver : ReceiverMoves(r)
                 \/ \E c \in Sender : SenderMoves(c)
BY DEF Next, MainMoves, ReceiverMoves, SenderMoves

\* Opening and closing leaves the threads where they are, and their locks with them.
LEMMA MainLeaves == MainMoves => UNCHANGED <<rpc, sender, request_mutex, device_mutex>>
BY DEF MainMoves, MainSteps, InitClaim, InitAllocate, InitHello, InitComplete, InitFails,
       InitUnclaim, ResetMailbox, ClearDevice, ShutdownBegin, ShutdownDrain,
       ShutdownDetach, ShutdownClose, ShutdownFree, ShutdownForget, recv, sender, ports

\* A receiver settles mailboxes and counts itself in and out.
LEMMA ReceiverLeaves ==
  ASSUME NEW r \in Receiver, ReceiverMoves(r)
  PROVE  UNCHANGED <<flags, request_mutex, device, device_mutex, main, sender, locks>>
BY DEF ReceiverMoves, ReceiverSteps, ReceiveEnter, ReceiveAck, ReceiveOther, ReceiveLeave, ports

\* A sender opens and closes nothing.
LEMMA SenderLeaves ==
  ASSUME NEW c \in Sender, SenderMoves(c)
  PROVE  UNCHANGED <<flags, main, recv, fgLifecycleMutex>>
BY DEF SenderMoves, SenderSteps, Call, LockDevice, LockRequest, BeginAttempt, LockSend,
       Sent, WaitDone, WaitExpires, Finish, Configure, locks

\* What each step may set the locals of a call to.
LEMMA LocalsUpdate ==
  ASSUME NEW l \in Locals
  PROVE  /\ l.port \in Port /\ l.attempts \in 0..2 /\ l.result \in 0..MaxLinks
         /\ l.sentOn \in 0..MaxLinks /\ l.completed \in BOOLEAN
         /\ \A n \in 0..2 : [l EXCEPT !.attempts = n] \in Locals
         /\ \A b \in BOOLEAN : [l EXCEPT !.completed = b] \in Locals
         /\ \A d \in 0..MaxLinks : [l EXCEPT !.sentOn = d] \in Locals
         /\ \A d \in 0..MaxLinks : [NewCall(l.port) EXCEPT !.result = d] \in Locals
<1>1. 0 \in 0..MaxLinks /\ 0 \in 0..2 /\ FALSE \in BOOLEAN
  BY LifecycleAssumption
<1>2. \A p \in Port, d \in 0..MaxLinks : [NewCall(p) EXCEPT !.result = d] \in Locals
  BY <1>1 DEF Locals, NewCall
<1> QED
  BY <1>2 DEF Locals

\* What the types say of one sender, one port.
LEMMA TypesOfOne ==
  ASSUME Typed
  PROVE  /\ \A c \in Sender : call[c] \in Locals /\ call[c].port \in Port
         /\ pc \in [Sender -> {"out"} \cup {"device"} \cup InDevice]
         /\ call \in [Sender -> Locals] /\ rpc \in [Receiver -> {"out", "in", "leave"}]
         /\ device \in [Port -> 0..MaxLinks]
         /\ device_mutex \in [Port -> Opener \cup {Nobody}]
         /\ request_mutex \in [Port -> Sender \cup {Nobody}]
         /\ mailbox \in [Port -> [state : {"idle", "pending", "acked", "canceled"},
                                  link : 0..MaxLinks]]
         /\ \A p \in Port : mailbox[p].link \in 0..MaxLinks
         /\ fgDesc \in 0..MaxLinks /\ fgSessionId \in 0..MaxLinks /\ links \in 0..MaxLinks
         /\ MaxLinks \in Nat /\ Nobody \notin Sender /\ Nobody \notin Port /\ Main # Nobody
         /\ Main \notin Sender /\ Opener \subseteq Sender
BY LifecycleAssumption DEF Typed, TypeOK, Locals, InDevice

-----------------------------------------------------------------------------
(* Types. *)

\* The library before the first raspike_prot_init has the right types.
LEMMA InitTyped == Init => Typed
<1> SUFFICES ASSUME Init PROVE Typed
  OBVIOUS
<1>1. PICK p \in Port : call = [c \in Sender |-> NewCall(p)]
  BY DEF Init
<1>2. 0 \in 0..MaxLinks /\ 0 \in 0..2
  BY LifecycleAssumption
<1>3. NewCall(p) \in Locals /\ NoMail \in [state : {"idle", "pending", "acked", "canceled"},
                                           link : 0..MaxLinks]
  BY <1>2 DEF NewCall, Locals, NoMail
<1>4. fgActiveReceivers = Cardinality({r \in Receiver : rpc[r] # "out"})
  <2>1. {r \in Receiver : rpc[r] # "out"} = {}
    BY DEF Init
  <2> QED
    BY <2>1, FS_EmptySet DEF Init
<1>5. AttemptsLeft /\ OpenersConfigure
  BY DEF Init, AttemptsLeft, InRequest, OpenersConfigure
<1> QED
  BY <1>1, <1>2, <1>3, <1>4, <1>5 DEF Init, Typed, TypeOK

\* The steps of raspike_prot_init and raspike_prot_shutdown keep the types; a link is
\* claimed when no receiver is inside.
LEMMA MainTyped ==
  Typed /\ Flags /\ ReceiversOfOpenLink /\ MainMoves => Typed'
<1> SUFFICES ASSUME Typed, Flags, ReceiversOfOpenLink, MainMoves PROVE Typed'
  OBVIOUS
<1> USE LifecycleAssumption
<1>1. UNCHANGED <<rpc, pc, call, calls, request_mutex, device_mutex>>
  BY MainLeaves DEF sender
<1>2. AttemptsLeft' /\ OpenersConfigure'
  BY <1>1 DEF Typed, AttemptsLeft, OpenersConfigure
<1>3. fgActiveReceivers' = Cardinality({r \in Receiver : rpc'[r] # "out"})
  <2>1. CASE InitClaim
    <3>1. {r \in Receiver : rpc[r] # "out"} = {}
      BY <2>1 DEF InitClaim, ReceiversOfOpenLink
    <3> QED
      BY <1>1, <2>1, <3>1, FS_EmptySet DEF InitClaim
  <2>2. CASE ~InitClaim
    <3>1. fgActiveReceivers' = fgActiveReceivers
      BY <2>2 DEF MainMoves, MainSteps, InitAllocate, InitHello, InitComplete, InitFails,
         InitUnclaim, ResetMailbox, ClearDevice, ShutdownBegin, ShutdownDrain,
         ShutdownDetach, ShutdownClose, ShutdownFree, ShutdownForget, recv
    <3> QED
      BY <1>1, <3>1 DEF Typed, TypeOK
  <2> QED
    BY <2>1, <2>2
<1> USE DEF Typed, TypeOK
<1>4. CASE InitClaim
  <2>1. links + 1 \in 0..MaxLinks /\ links + 1 \in Links
    BY <1>4 DEF InitClaim, Links
  <2> QED
    BY <1>1, <1>2, <1>3, <1>4, <2>1 DEF InitClaim, locks, ports
<1>5. CASE InitAllocate
  BY <1>1, <1>2, <1>3, <1>5 DEF InitAllocate, locks, ports
<1>6. CASE InitHello
  BY <1>1, <1>2, <1>3, <1>6 DEF InitHello, locks, ports
<1>7. CASE InitComplete
  BY <1>1, <1>2, <1>3, <1>7 DEF InitComplete, locks, ports
<1>8. CASE InitFails
  BY <1>1, <1>2, <1>3, <1>8 DEF InitFails, locks, ports
<1>9. CASE InitUnclaim
  BY <1>1, <1>2, <1>3, <1>9 DEF InitUnclaim, locks, ports
<1>10. ASSUME NEW p \in Port, ResetMailbox(p) PROVE Typed'
  <2>1. mailbox' \in [Port -> [state : {"idle", "pending", "acked", "canceled"},
                               link : 0..MaxLinks]]
    BY <1>10 DEF ResetMailbox, NoMail
  <2> QED
    BY <1>1, <1>2, <1>3, <1>10, <2>1 DEF ResetMailbox, locks, flags
<1>11. CASE ClearDevice
  <2>1. device' \in [Port -> 0..MaxLinks]
    BY <1>11 DEF ClearDevice
  <2> QED
    BY <1>1, <1>2, <1>3, <1>11, <2>1 DEF ClearDevice, locks, flags
<1>12. CASE ShutdownBegin
  BY <1>1, <1>2, <1>3, <1>12 DEF ShutdownBegin, locks, ports, flags
<1>13. CASE ShutdownDrain
  BY <1>1, <1>2, <1>3, <1>13 DEF ShutdownDrain, locks, ports, flags
<1>14. CASE ShutdownDetach
  BY <1>1, <1>2, <1>3, <1>14 DEF ShutdownDetach, locks, ports, flags
<1>15. CASE ShutdownClose
  BY <1>1, <1>2, <1>3, <1>15 DEF ShutdownClose, locks, ports, flags
<1>16. CASE ShutdownFree
  BY <1>1, <1>2, <1>3, <1>16 DEF ShutdownFree, locks, ports, flags
<1>17. CASE ShutdownForget
  <2>1. /\ fgSessionId' = 0 /\ fgHandshakeComplete' = FALSE /\ fgUseProtocolV2' = FALSE
        /\ ctl' = "down"
        /\ UNCHANGED <<fgDesc, fgStatus, fgStopCommunication, mailbox, device, todo, at,
                       links, live, fgPortSynchronizationInitialized, fgLifecycleMutex,
                       fgSendMutex>>
    BY <1>17 DEF ShutdownForget, locks, ports
  <2>2. {fgDesc', fgStatus', fgSessionId', links'} \subseteq 0..MaxLinks
    BY <2>1
  <2>3. {fgStopCommunication', fgHandshakeComplete', fgUseProtocolV2',
         fgPortSynchronizationInitialized'} \subseteq BOOLEAN
    BY <2>1
  <2> QED
    BY <1>1, <1>2, <1>3, <2>1, <2>2, <2>3
<1> QED
  BY <1>4, <1>5, <1>6, <1>7, <1>8, <1>9, <1>10, <1>11, <1>12, <1>13, <1>14, <1>15, <1>16,
     <1>17 DEF MainMoves, MainSteps

\* A receiver counts itself.
LEMMA ReceiverTyped ==
  ASSUME Typed, NEW r \in Receiver, ReceiverMoves(r)
  PROVE  Typed'
<1> DEFINE In == {q \in Receiver : rpc[q] # "out"}
<1>0. /\ UNCHANGED <<flags, request_mutex, device, device_mutex, main, sender, locks>>
      /\ rpc \in [Receiver -> {"out", "in", "leave"}]
  BY ReceiverLeaves, TypesOfOne
<1>1. IsFiniteSet(In) /\ Cardinality(In) \in Nat /\ fgActiveReceivers = Cardinality(In)
  <2>1. IsFiniteSet(In)
    BY LifecycleAssumption, FS_Subset
  <2> QED
    BY <2>1, FS_CardinalityType DEF Typed, TypeOK
<1>2. /\ rpc' \in [Receiver -> {"out", "in", "leave"}]
      /\ fgActiveReceivers' = Cardinality(In')
  <2>1. CASE ReceiveEnter(r) /\ Accepting
    <3>1. In' = In \cup {r} /\ r \notin In
      BY <1>0, <2>1 DEF ReceiveEnter
    <3>2. Cardinality(In') = Cardinality(In) + 1
      BY <1>1, <3>1, FS_AddElement
    <3> QED
      BY <1>0, <1>1, <2>1, <3>2 DEF ReceiveEnter
  <2>2. CASE ReceiveEnter(r) /\ ~Accepting
    BY <1>0, <1>1, <2>2 DEF ReceiveEnter, recv
  <2>3. CASE ReceiveOther(r) \/ \E p \in Port : ReceiveAck(r, p)
    <3>1. In' = In
      BY <1>0, <2>3 DEF ReceiveOther, ReceiveAck
    <3> QED
      BY <1>0, <1>1, <2>3, <3>1 DEF ReceiveOther, ReceiveAck
  <2>4. CASE ReceiveLeave(r)
    <3>1. In' = In \ {r} /\ r \in In
      BY <1>0, <2>4 DEF ReceiveLeave
    <3>2. Cardinality(In') = Cardinality(In) - 1
      BY <1>1, <3>1, FS_RemoveElement
    <3> QED
      BY <1>0, <1>1, <2>4, <3>2 DEF ReceiveLeave
  <2> QED
    BY <2>1, <2>2, <2>3, <2>4 DEF ReceiverMoves, ReceiverSteps
<1>3. mailbox' \in [Port -> [state : {"idle", "pending", "acked", "canceled"},
                             link : 0..MaxLinks]]
  <2>1. ASSUME NEW p \in Port, ReceiveAck(r, p)
        PROVE  mailbox' \in [Port -> [state : {"idle", "pending", "acked", "canceled"},
                                      link : 0..MaxLinks]]
    BY <2>1, TypesOfOne DEF ReceiveAck
  <2> QED
    BY <2>1, TypesOfOne DEF ReceiverMoves, ReceiverSteps, ReceiveEnter, ReceiveOther,
       ReceiveLeave, ports
<1> QED
  BY <1>0, <1>2, <1>3 DEF Typed, TypeOK, AttemptsLeft, OpenersConfigure, flags, main, sender, locks

\* A request sees what it was told, or nothing.
LEMMA ResultIsALink ==
  ASSUME Typed, NEW c \in Sender
  PROVE  /\ ResultOf(c) \in 0..MaxLinks
         /\ ResultOf(c) \in {0, mailbox[call[c].port].link}
<1>1. mailbox[call[c].port].link \in 0..MaxLinks /\ 0 \in 0..MaxLinks
  BY TypesOfOne, LifecycleAssumption
<1> QED
  BY <1>1 DEF ResultOf

\* A step of one sender is its own: the others stay where they are.
LEMMA OneSenderMoves ==
  ASSUME Typed, NEW c \in Sender, SenderMoves(c)
  PROVE  /\ pc' \in [Sender -> {"out"} \cup {"device"} \cup InDevice]
         /\ call' \in [Sender -> Locals]
         /\ \A d \in Sender \ {c} : pc'[d] = pc[d] /\ call'[d] = call[d]
<1>0. /\ pc \in [Sender -> {"out"} \cup {"device"} \cup InDevice]
      /\ call \in [Sender -> Locals] /\ call[c] \in Locals
      /\ 0 \in 0..MaxLinks /\ 0 \in 0..2
  BY TypesOfOne, LifecycleAssumption
<1>1. \A p \in Port : NewCall(p) \in Locals
  BY <1>0 DEF NewCall, Locals
<1>2. CASE \E p \in Port : Call(c, p)
  BY <1>0, <1>1, <1>2 DEF Call, Goto, InDevice
<1>3. CASE LockDevice(c)
  BY <1>0, <1>3 DEF LockDevice, Goto, InDevice
<1>4. CASE LockRequest(c)
  <2>1. PICK n \in 0..2 : call' = [call EXCEPT ![c].attempts = n]
    <3>1. 1 \in 0..2 /\ 2 \in 0..2
      OBVIOUS
    <3> QED
      BY <1>4, <3>1 DEF LockRequest
  <2>2. pc' = [pc EXCEPT ![c] = "attempt"]
    BY <1>4 DEF LockRequest, Goto
  <2>3. [call[c] EXCEPT !.attempts = n] \in Locals
    BY <1>0, LocalsUpdate
  <2> QED
    BY <1>0, <2>1, <2>2, <2>3 DEF InDevice
<1>5. CASE BeginAttempt(c)
  BY <1>0, <1>5, LocalsUpdate DEF BeginAttempt, Goto, InDevice
<1>6. CASE LockSend(c)
  <2>1. CASE fgDesc = 0 \/ fgStopCommunication
    BY <1>0, <1>6, <2>1 DEF LockSend, Goto, InDevice
  <2>2. CASE ~(fgDesc = 0 \/ fgStopCommunication)
    <3>1. fgDesc \in 0..MaxLinks
      BY TypesOfOne
    <3> QED
      BY <1>0, <1>6, <2>2, <3>1, LocalsUpdate DEF LockSend, Goto, InDevice
  <2> QED
    BY <2>1, <2>2
<1>7. CASE Sent(c)
  BY <1>0, <1>7 DEF Sent, Goto, InDevice
<1>8. CASE WaitDone(c)
  BY <1>0, <1>8, LocalsUpdate DEF WaitDone, Goto, InDevice
<1>9. CASE WaitExpires(c)
  <2>1. call[c].attempts \in 1..2
    BY <1>9 DEF WaitExpires, Typed, AttemptsLeft, InRequest
  <2>2. call[c].attempts - 1 \in 0..2
    BY <2>1
  <2> QED
    BY <1>0, <1>9, <2>2, LocalsUpdate DEF WaitExpires, Goto, InDevice
<1>10. CASE Finish(c)
  BY <1>0, <1>10, LocalsUpdate, ResultIsALink DEF Finish, Goto, InDevice
<1>11. CASE Configure(c)
  BY <1>0, <1>11 DEF Configure, Goto, InDevice
<1> QED
  BY <1>2, <1>3, <1>4, <1>5, <1>6, <1>7, <1>8, <1>9, <1>10, <1>11 DEF SenderMoves, SenderSteps

\* A step of a sender keeps the types; a wait that expires had an attempt left.
LEMMA SenderTyped ==
  ASSUME Typed, NEW c \in Sender, SenderMoves(c)
  PROVE  Typed'
<1>0. /\ UNCHANGED <<flags, main, recv, fgLifecycleMutex>>
      /\ pc' \in [Sender -> {"out"} \cup {"device"} \cup InDevice]
      /\ call' \in [Sender -> Locals]
      /\ \A d \in Sender \ {c} : pc'[d] = pc[d] /\ call'[d] = call[d]
      /\ call[c] \in Locals /\ call[c].port \in Port
      /\ pc \in [Sender -> {"out"} \cup {"device"} \cup InDevice]
      /\ call \in [Sender -> Locals]
  BY SenderLeaves, OneSenderMoves, TypesOfOne
<1> DEFINE Mail == [state : {"idle", "pending", "acked", "canceled"}, link : 0..MaxLinks]
           Kept == /\ fgSendMutex' \in Sender \cup {Nobody, Main}
                   /\ device_mutex' \in [Port -> Opener \cup {Nobody}]
                   /\ request_mutex' \in [Port -> Sender \cup {Nobody}]
                   /\ mailbox' \in [Port -> Mail]
                   /\ device' \in [Port -> 0..MaxLinks]
           Left == /\ pc'[c] \in InRequest \ {"finish"} => call'[c].attempts \in 1..2
                   /\ pc'[c] \in {"device", "configure"} => c \in Opener
<1>t. /\ fgSendMutex \in Sender \cup {Nobody, Main}
      /\ device_mutex \in [Port -> Opener \cup {Nobody}]
      /\ request_mutex \in [Port -> Sender \cup {Nobody}]
      /\ mailbox \in [Port -> Mail]
      /\ device \in [Port -> 0..MaxLinks]
      /\ [state |-> "pending", link |-> 0] \in Mail /\ NoMail \in Mail
      /\ pc[c] \in InRequest \ {"finish"} => call[c].attempts \in 1..2
      /\ pc[c] \in {"device", "configure"} => c \in Opener
  BY LifecycleAssumption DEF Typed, TypeOK, AttemptsLeft, OpenersConfigure, NoMail
<1> HIDE DEF Mail
<1>12. Kept /\ Left
  <2> USE DEF InRequest
  <2>2. CASE \E p \in Port : Call(c, p)
    BY <1>0, <1>t, <2>2 DEF Call, Goto, locks, ports
  <2>3. CASE LockDevice(c)
    BY <1>0, <1>t, <2>3 DEF LockDevice, Goto, locks
  <2>4. CASE LockRequest(c)
    BY <1>0, <1>t, <2>4 DEF LockRequest, Goto, locks, Locals
  <2>5. CASE BeginAttempt(c)
    BY <1>0, <1>t, <2>5 DEF BeginAttempt, Goto, locks, ports, Locals
  <2>6. CASE LockSend(c)
    BY <1>0, <1>t, <2>6 DEF LockSend, Goto, ports, Locals
  <2>7. CASE Sent(c)
    BY <1>0, <1>t, <2>7 DEF Sent, Goto, ports
  <2>8. CASE WaitDone(c)
    BY <1>0, <1>t, <2>8 DEF WaitDone, Goto, locks, ports
  <2>9. CASE WaitExpires(c)
    <3>1. call[c].attempts \in 1..2 /\ call'[c].attempts = call[c].attempts - 1
          /\ pc'[c] = (IF call[c].attempts > 1 THEN "attempt" ELSE "finish")
          /\ UNCHANGED <<ports, locks>>
      BY <1>0, <1>t, <2>9 DEF WaitExpires, Goto, Locals
    <3>2. (pc'[c] = "attempt" /\ call'[c].attempts \in 1..2) \/ pc'[c] = "finish"
      BY <3>1
    <3> QED
      BY <1>0, <1>t, <3>1, <3>2 DEF locks, ports
  <2>10. CASE Finish(c)
    BY <1>0, <1>t, <2>10 DEF Finish, Goto, locks
  <2>11. CASE Configure(c)
    <3>1. call[c].result \in 0..MaxLinks
      BY <1>0 DEF Locals
    <3> QED
      BY <1>0, <1>t, <2>11, <3>1 DEF Configure, Goto, locks
  <2> QED
    BY <2>2, <2>3, <2>4, <2>5, <2>6, <2>7, <2>8, <2>9, <2>10, <2>11 DEF SenderMoves, SenderSteps
<1>13. AttemptsLeft' /\ OpenersConfigure'
  BY <1>0, <1>12 DEF Typed, AttemptsLeft, OpenersConfigure
<1>14. TypeOK'
  BY <1>0, <1>12 DEF Typed, TypeOK, Mail, InDevice, flags, main, recv
<1> QED
  BY <1>13, <1>14 DEF Typed

-----------------------------------------------------------------------------
(* Locks. *)

\* A lock is taken when it is free and given back by its holder only.
LEMMA SenderKeepsLocks ==
  ASSUME Typed, HoldsLocks, NEW c \in Sender, SenderMoves(c)
  PROVE  HoldsLocks'
<1>0. /\ UNCHANGED ctl
      /\ \A d \in Sender \ {c} : pc'[d] = pc[d] /\ call'[d] = call[d]
      /\ pc' \in [Sender -> {"out"} \cup {"device"} \cup InDevice]
      /\ call' \in [Sender -> Locals]
      /\ pc \in [Sender -> {"out"} \cup {"device"} \cup InDevice]
      /\ call \in [Sender -> Locals]
      /\ \A d \in Sender : call[d].port \in Port
      /\ Nobody \notin Sender /\ Main \notin Sender /\ Main # Nobody
      /\ device_mutex \in [Port -> Opener \cup {Nobody}]
      /\ request_mutex \in [Port -> Sender \cup {Nobody}]
  BY SenderLeaves, OneSenderMoves, TypesOfOne DEF main
<1>1. ASSUME pc[c] # "out"
      PROVE  call'[c].port = call[c].port
  <2>1. call[c] \in Locals /\ call \in [Sender -> Locals]
    BY <1>0
  <2> QED
    BY <1>1, <2>1 DEF SenderMoves, SenderSteps, Call, LockDevice, LockRequest, BeginAttempt,
       LockSend, Sent, WaitDone, WaitExpires, Finish, Configure, Locals, NewCall
<1> DEFINE Free(d) == /\ pc[d] = "sending" => fgSendMutex = d
                      /\ pc[d] \in InRequest => request_mutex[call[d].port] = d
                      /\ d \in Opener /\ pc[d] \in InDevice => device_mutex[call[d].port] = d
           Held == /\ \A d \in Sender :
                        /\ pc'[d] = "sending" => fgSendMutex' = d
                        /\ pc'[d] \in InRequest => request_mutex'[call'[d].port] = d
                        /\ d \in Opener /\ pc'[d] \in InDevice =>
                             device_mutex'[call'[d].port] = d
                   /\ ctl' = "reset" => fgSendMutex' = Main
<1>2. /\ \A d \in Sender : Free(d)
      /\ ctl = "reset" => fgSendMutex = Main
  BY DEF HoldsLocks
<1>3. Held
  <2> USE DEF InRequest, InDevice
  <2>1. CASE \E p \in Port : Call(c, p)
    BY <1>0, <1>2, <2>1 DEF Call, Goto, ports, locks
  <2>2. CASE LockDevice(c)
    BY <1>0, <1>1, <1>2, <2>2 DEF LockDevice, Goto, locks
  <2>3. CASE LockRequest(c)
    BY <1>0, <1>1, <1>2, <2>3 DEF LockRequest, Goto, locks
  <2>4. CASE BeginAttempt(c)
    <3>1. /\ pc[c] = "attempt" /\ UNCHANGED <<ports, locks>>
          /\ \/ pc' = [pc EXCEPT ![c] = "send"]
             \/ pc' = [pc EXCEPT ![c] = "finish"]
      BY <2>4 DEF BeginAttempt, Goto
    <3>2. call'[c].port = call[c].port
      BY <1>1, <2>4 DEF BeginAttempt
    <3> QED
      BY <1>0, <1>2, <3>1, <3>2 DEF ports, locks
  <2>5. CASE LockSend(c)
    <3>1. /\ pc[c] = "send" /\ fgSendMutex = Nobody /\ UNCHANGED ports
          /\ \/ pc' = [pc EXCEPT ![c] = "sending"] /\ fgSendMutex' = c
             \/ pc' = [pc EXCEPT ![c] = "finish"] /\ UNCHANGED fgSendMutex
      BY <2>5 DEF LockSend, Goto
    <3>2. call'[c].port = call[c].port
      BY <1>1, <2>5 DEF LockSend
    <3>3. \A d \in Sender : call'[d].port = call[d].port
      BY <1>0, <3>2
    <3>4. ctl # "reset" /\ \A d \in Sender : pc[d] # "sending"
      BY <1>0, <1>2, <3>1
    <3>5. /\ pc'[c] \in {"sending", "finish"}
          /\ pc'[c] = "sending" => fgSendMutex' = c
      BY <1>0, <3>1
    <3> QED
      BY <1>0, <1>2, <3>1, <3>3, <3>4, <3>5 DEF ports
  <2>6. CASE Sent(c)
    BY <1>0, <1>1, <1>2, <2>6 DEF Sent, Goto, ports
  <2>7. CASE WaitDone(c)
    BY <1>0, <1>1, <1>2, <2>7 DEF WaitDone, Goto, ports, locks
  <2>8. CASE WaitExpires(c)
    BY <1>0, <1>1, <1>2, <2>8 DEF WaitExpires, Goto, ports, locks
  <2>9. CASE Finish(c)
    <3>1. /\ pc[c] = "finish" /\ UNCHANGED <<device_mutex, locks>>
          /\ request_mutex' = [request_mutex EXCEPT ![call[c].port] = Nobody]
          /\ pc' = [pc EXCEPT ![c] = IF c \in Opener THEN "configure" ELSE "out"]
      BY <2>9 DEF Finish, Goto
    <3>2. call'[c].port = call[c].port
      BY <1>1, <2>9 DEF Finish
    <3>3. /\ pc'[c] \in {"configure", "out"}
          /\ \A q \in Port \ {call[c].port} : request_mutex'[q] = request_mutex[q]
          /\ request_mutex[call[c].port] = c
      BY <1>0, <1>2, <3>1
    <3> QED
      BY <1>0, <1>2, <3>1, <3>2, <3>3 DEF locks
  <2>10. CASE Configure(c)
    <3>1. /\ pc[c] = "configure" /\ UNCHANGED <<request_mutex, call, locks>>
          /\ device_mutex' = [device_mutex EXCEPT ![call[c].port] = Nobody]
          /\ pc' = [pc EXCEPT ![c] = "out"]
      BY <2>10 DEF Configure, Goto
    <3>2. c \in Opener
      BY <3>1 DEF Typed, OpenersConfigure
    <3>3. /\ \A q \in Port \ {call[c].port} : device_mutex'[q] = device_mutex[q]
          /\ device_mutex[call[c].port] = c
      BY <1>0, <1>2, <3>1, <3>2
    <3> QED
      BY <1>0, <1>2, <3>1, <3>3 DEF locks
  <2> QED
    BY <2>1, <2>2, <2>3, <2>4, <2>5, <2>6, <2>7, <2>8, <2>9, <2>10 DEF SenderMoves, SenderSteps
<1> QED
  BY <1>3 DEF HoldsLocks

\* shutdown takes fgSendMutex from nobody and gives back its own.
LEMMA MainKeepsLocks ==
  Typed /\ HoldsLocks /\ MainMoves => HoldsLocks'
<1> SUFFICES ASSUME Typed, HoldsLocks, MainMoves PROVE HoldsLocks'
  OBVIOUS
<1>1. UNCHANGED <<pc, call, request_mutex, device_mutex>> /\ Nobody \notin Sender
      /\ Main \notin Sender
  BY MainLeaves, TypesOfOne DEF sender
<1>2. CASE ShutdownDetach
  BY <1>1, <1>2 DEF ShutdownDetach, HoldsLocks
<1>3. CASE ShutdownClose
  BY <1>1, <1>3 DEF ShutdownClose, HoldsLocks
<1>4. CASE ~ShutdownDetach /\ ~ShutdownClose
  <2>1. fgSendMutex' = fgSendMutex /\ (ctl' = "reset" => ctl = "reset")
    BY <1>4 DEF MainMoves, MainSteps, InitClaim, InitAllocate, InitHello, InitComplete,
       InitFails, InitUnclaim, ResetMailbox, ClearDevice, ShutdownBegin, ShutdownDrain,
       ShutdownFree, ShutdownForget, locks
  <2> QED
    BY <1>1, <2>1 DEF HoldsLocks
<1> QED
  BY <1>2, <1>3, <1>4

-----------------------------------------------------------------------------
(* The link. *)

\* The flags follow the link through its life.
LEMMA MainKeepsFlags ==
  Typed /\ HoldsLocks /\ Flags /\ MainMoves => Flags'
<1> SUFFICES ASSUME Typed, HoldsLocks, Flags, MainMoves PROVE Flags'
  OBVIOUS
<1> USE DEF Flags, Closing, AllPortsReset
<1>0. links \in 0..MaxLinks /\ MaxLinks \in Nat /\ links + 1 # 0
  BY TypesOfOne
<1>1. CASE InitClaim
  BY <1>0, <1>1 DEF InitClaim
<1>2. CASE InitAllocate
  BY <1>2 DEF InitAllocate
<1>3. CASE InitHello
  BY <1>3 DEF InitHello
<1>4. CASE InitComplete
  BY <1>4 DEF InitComplete
<1>5. CASE InitFails
  BY <1>5 DEF InitFails
<1>6. CASE InitUnclaim
  BY <1>6 DEF InitUnclaim
<1>7. ASSUME NEW p \in Port, ResetMailbox(p) PROVE Flags'
  BY <1>7 DEF ResetMailbox, flags
<1>8. CASE ClearDevice
  BY <1>8 DEF ClearDevice, flags
<1>9. CASE ShutdownBegin
  BY <1>9 DEF ShutdownBegin
<1>10. CASE ShutdownDrain
  BY <1>10 DEF ShutdownDrain, flags
<1>11. CASE ShutdownDetach
  BY <1>11 DEF ShutdownDetach
<1>12. CASE ShutdownClose
  BY <1>12 DEF ShutdownClose, flags
<1>13. CASE ShutdownFree
  BY <1>13 DEF ShutdownFree
<1>14. CASE ShutdownForget
  BY <1>14 DEF ShutdownForget
<1> QED
  BY <1>1, <1>2, <1>3, <1>4, <1>5, <1>6, <1>7, <1>8, <1>9, <1>10, <1>11, <1>12, <1>13,
     <1>14 DEF MainMoves, MainSteps

\* shutdown leaves "drain" only when the count of receivers is zero, which is when
\* there is none; init claims a link when none is inside.
LEMMA MainWaitsForReceivers ==
  Typed /\ ReceiversOfOpenLink /\ MainMoves => ReceiversOfOpenLink'
<1> SUFFICES ASSUME Typed, ReceiversOfOpenLink, MainMoves PROVE ReceiversOfOpenLink'
  OBVIOUS
<1>1. rpc' = rpc
  BY MainLeaves
<1>2. CASE ShutdownDrain
  <2> DEFINE In == {q \in Receiver : rpc[q] # "out"}
  <2>1. IsFiniteSet(In)
    BY LifecycleAssumption, FS_Subset
  <2>2. Cardinality(In) = 0
    BY <1>2 DEF ShutdownDrain, Typed, TypeOK
  <2>3. In = {}
    BY <2>1, <2>2, FS_EmptySet
  <2>4. \A r \in Receiver : rpc[r] = "out"
    BY <2>3
  <2> QED
    BY <1>1, <2>4 DEF ReceiversOfOpenLink
<1>3. CASE ~ShutdownDrain
  <2>1. ctl \in {"up", "drain"} => ctl' \in {"up", "drain"}
    BY <1>3 DEF MainMoves, MainSteps, InitClaim, InitAllocate, InitHello, InitComplete,
       InitFails, InitUnclaim, ResetMailbox, ClearDevice, ShutdownBegin, ShutdownDetach,
       ShutdownClose, ShutdownFree, ShutdownForget
  <2> QED
    BY <1>1, <2>1 DEF ReceiversOfOpenLink
<1> QED
  BY <1>2, <1>3

\* raspike_prot_receive lets a thread in only while the link is up.
LEMMA ReceiverEntersOpenLink ==
  ASSUME Typed, Flags, ReceiversOfOpenLink, NEW r \in Receiver, ReceiverMoves(r)
  PROVE  ReceiversOfOpenLink'
<1>0. ctl' = ctl /\ rpc \in [Receiver -> {"out", "in", "leave"}]
  BY ReceiverLeaves, TypesOfOne DEF main
<1>1. CASE ReceiveEnter(r) /\ Accepting
  <2>1. ctl = "up"
    BY <1>1 DEF Accepting, Flags, Closing
  <2> QED
    BY <1>0, <1>1, <2>1 DEF ReceiveEnter, ReceiversOfOpenLink
<1>2. CASE ReceiveEnter(r) /\ ~Accepting
  BY <1>0, <1>2 DEF ReceiveEnter, ReceiversOfOpenLink, recv
<1>3. CASE ReceiverSteps(r)
  BY <1>0, <1>3 DEF ReceiverSteps, ReceiveAck, ReceiveOther, ReceiveLeave, ReceiversOfOpenLink
<1> QED
  BY <1>1, <1>2, <1>3 DEF ReceiverMoves

-----------------------------------------------------------------------------
(* Frames and waits. *)

\* A sender writes to the link it found in use, and waits for an answer over it.
LEMMA SenderKeepsLink ==
  ASSUME Typed, HoldsLocks, Flags, SenderHasLink, NoWaitOnClosedLink, NoneWaitsAtReset,
         NEW c \in Sender, SenderMoves(c)
  PROVE  SenderHasLink' /\ NoWaitOnClosedLink' /\ NoneWaitsAtReset'
<1>0. /\ UNCHANGED <<ctl, todo, live>>
      /\ \A d \in Sender \ {c} : pc'[d] = pc[d] /\ call'[d] = call[d]
      /\ pc' \in [Sender -> {"out"} \cup {"device"} \cup InDevice]
      /\ call' \in [Sender -> Locals]
      /\ pc \in [Sender -> {"out"} \cup {"device"} \cup InDevice]
      /\ call \in [Sender -> Locals] /\ call[c] \in Locals
      /\ \A d \in Sender : call[d].port \in Port
      /\ Main \notin Sender /\ Nobody \notin Sender
      /\ mailbox \in [Port -> [state : {"idle", "pending", "acked", "canceled"},
                               link : 0..MaxLinks]]
  BY SenderLeaves, OneSenderMoves, TypesOfOne DEF main
<1> DEFINE Sends(d) == pc'[d] = "sending" => call'[d].sentOn \in live
           Waits(d) == pc'[d] = "wait" /\ mailbox'[call'[d].port].state = "pending"
           WasWaiting(d) == pc[d] = "wait" /\ mailbox[call[d].port].state = "pending"
           Good(d) == /\ Sends(d)
                      /\ Waits(d) => call'[d].sentOn \in live
                      /\ Waits(d) /\ ctl = "reset" => call'[d].port \in todo
<1>1. /\ \A d \in Sender : pc[d] = "sending" => call[d].sentOn \in live
      /\ \A d \in Sender : WasWaiting(d) => /\ call[d].sentOn \in live
                                            /\ ctl = "reset" => call[d].port \in todo
  BY DEF SenderHasLink, NoWaitOnClosedLink, NoneWaitsAtReset, Waiting
<1>2. ASSUME NEW d \in Sender \ {c} PROVE Good(d)
  <2>1. ASSUME mailbox'[call[d].port].state = "pending", pc[d] = "wait"
        PROVE  mailbox[call[d].port].state = "pending"
    <3>1. CASE LockRequest(c)
      <4>1. call[c].port # call[d].port
        <5>1. request_mutex[call[d].port] = d
          BY <2>1 DEF HoldsLocks, InRequest
        <5> QED
          BY <1>0, <3>1, <5>1 DEF LockRequest
      <4> QED
        BY <1>0, <2>1, <3>1, <4>1 DEF LockRequest
    <3>2. CASE Finish(c)
      BY <1>0, <2>1, <3>2 DEF Finish, NoMail, Waiting
    <3>3. CASE ~LockRequest(c) /\ ~Finish(c)
      <4>1. mailbox' = mailbox
        BY <3>3 DEF SenderMoves, SenderSteps, Call, LockDevice, BeginAttempt, LockSend,
           Sent, WaitDone, WaitExpires, Configure, ports
      <4> QED
        BY <2>1, <4>1
    <3> QED
      BY <3>1, <3>2, <3>3
  <2> QED
    BY <1>0, <1>1, <2>1
<1>3. Good(c)
  <2>1. CASE LockSend(c)
    <3>1. CASE fgDesc = 0 \/ fgStopCommunication
      BY <1>0, <2>1, <3>1 DEF LockSend, Goto
    <3>2. CASE ~(fgDesc = 0 \/ fgStopCommunication)
      <4>1. fgDesc \in live
        BY <3>2 DEF Flags
      <4>2. pc'[c] = "sending" /\ call'[c].sentOn = fgDesc
        BY <1>0, <2>1, <3>2 DEF LockSend, Goto, Locals
      <4> QED
        BY <4>1, <4>2
    <3> QED
      BY <3>1, <3>2
  <2>2. CASE Sent(c)
    <3>1. pc[c] = "sending" /\ call' = call /\ fgSendMutex = c
      BY <2>2 DEF Sent, HoldsLocks
    <3>2. ctl # "reset"
      BY <1>0, <3>1 DEF HoldsLocks
    <3>3. pc'[c] # "sending"
      BY <1>0, <2>2 DEF Sent, Goto
    <3> QED
      BY <1>1, <3>1, <3>2, <3>3
  <2>3. CASE ~LockSend(c) /\ ~Sent(c)
    <3>1. pc'[c] \notin {"sending", "wait"}
      BY <1>0, <2>3 DEF SenderMoves, SenderSteps, Call, LockDevice, LockRequest,
         BeginAttempt, WaitDone, WaitExpires, Finish, Configure, Goto
    <3> QED
      BY <3>1
  <2> QED
    BY <2>1, <2>2, <2>3
<1>4. \A d \in Sender : Good(d)
  BY <1>2, <1>3
<1> QED
  BY <1>0, <1>4 DEF SenderHasLink, NoWaitOnClosedLink, NoneWaitsAtReset, Waiting

\* The link is closed when fgSendMutex is held and every waiting request was cancelled.
LEMMA MainKeepsLink ==
  ASSUME Typed, HoldsLocks, Flags, SenderHasLink, NoWaitOnClosedLink, NoneWaitsAtReset,
         MainMoves
  PROVE  SenderHasLink' /\ NoWaitOnClosedLink' /\ NoneWaitsAtReset'
<1>0. /\ pc' = pc /\ call' = call /\ Main \notin Sender
      /\ \A d \in Sender : call[d].port \in Port
      /\ mailbox \in [Port -> [state : {"idle", "pending", "acked", "canceled"},
                               link : 0..MaxLinks]]
  BY MainLeaves, TypesOfOne DEF sender
<1>1. \A p \in Port : mailbox'[p].state = "pending" => mailbox[p].state = "pending"
  <2>1. ASSUME NEW q \in Port, ResetMailbox(q)
        PROVE  \A p \in Port : mailbox'[p].state = "pending" => mailbox[p].state = "pending"
    BY <1>0, <2>1 DEF ResetMailbox, NoMail
  <2>2. CASE ~ \E q \in Port : ResetMailbox(q)
    <3>1. mailbox' = mailbox
      BY <2>2 DEF MainMoves, MainSteps, InitClaim, InitAllocate, InitHello, InitComplete,
         InitFails, InitUnclaim, ClearDevice, ShutdownBegin, ShutdownDrain,
         ShutdownDetach, ShutdownClose, ShutdownFree, ShutdownForget, ports
    <3> QED
      BY <3>1
  <2> QED
    BY <2>1, <2>2
<1>2. \A c \in Sender : pc'[c] = "wait" /\ mailbox'[call'[c].port].state = "pending"
                        => pc[c] = "wait" /\ mailbox[call[c].port].state = "pending"
  BY <1>0, <1>1
<1>3. CASE ShutdownClose
  <2>1. \A c \in Sender : pc[c] # "sending"
    BY <1>0, <1>3 DEF ShutdownClose, HoldsLocks
  <2>2. \A c \in Sender : ~(pc[c] = "wait" /\ mailbox[call[c].port].state = "pending")
    BY <1>3 DEF ShutdownClose, AllPortsReset, NoneWaitsAtReset, Waiting
  <2>3. ctl' = "free"
    BY <1>3 DEF ShutdownClose
  <2> QED
    BY <1>0, <1>2, <2>1, <2>2, <2>3
    DEF SenderHasLink, NoWaitOnClosedLink, NoneWaitsAtReset, Waiting
<1>4. CASE ~ShutdownClose
  <2>1. live \subseteq live'
    BY <1>4 DEF MainMoves, MainSteps, InitClaim, InitAllocate, InitHello, InitComplete,
       InitFails, InitUnclaim, ResetMailbox, ClearDevice, ShutdownBegin, ShutdownDrain,
       ShutdownDetach, ShutdownFree, ShutdownForget
  <2>2. SenderHasLink' /\ NoWaitOnClosedLink'
    BY <1>0, <1>2, <2>1 DEF SenderHasLink, NoWaitOnClosedLink, Waiting
  <2>3. NoneWaitsAtReset'
    <3>1. CASE ShutdownDetach
      BY <1>0, <3>1 DEF ShutdownDetach, NoneWaitsAtReset
    <3>2. ASSUME NEW p \in Port, ResetMailbox(p) PROVE NoneWaitsAtReset'
      <4>1. mailbox'[p].state # "pending"
        BY <1>0, <3>2 DEF ResetMailbox, NoMail
      <4>2. ctl' = ctl /\ todo' = todo \ {p}
        BY <3>2 DEF ResetMailbox
      <4> QED
        BY <1>0, <1>2, <4>1, <4>2 DEF NoneWaitsAtReset, Waiting
    <3>3. CASE ~ShutdownDetach /\ ~ \E p \in Port : ResetMailbox(p)
      <4>1. ctl' = "reset" => ctl = "reset" /\ todo' = todo
        BY <1>4, <3>3 DEF MainMoves, MainSteps, InitClaim, InitAllocate, InitHello,
           InitComplete, InitFails, InitUnclaim, ClearDevice, ShutdownBegin,
           ShutdownDrain, ShutdownFree, ShutdownForget
      <4> QED
        BY <1>0, <1>2, <4>1 DEF NoneWaitsAtReset, Waiting
    <3> QED
      BY <3>1, <3>2, <3>3
  <2> QED
    BY <2>2, <2>3
<1> QED
  BY <1>3, <1>4

\* An acknowledgement ends a wait; a receiver starts none.
LEMMA ReceiverKeepsLink ==
  ASSUME Typed, SenderHasLink, NoWaitOnClosedLink, NoneWaitsAtReset,
         NEW r \in Receiver, ReceiverMoves(r)
  PROVE  SenderHasLink' /\ NoWaitOnClosedLink' /\ NoneWaitsAtReset'
<1>0. /\ UNCHANGED <<pc, call, ctl, todo, live>>
      /\ \A d \in Sender : call[d].port \in Port
      /\ mailbox \in [Port -> [state : {"idle", "pending", "acked", "canceled"},
                               link : 0..MaxLinks]]
  BY ReceiverLeaves, TypesOfOne DEF sender, main
<1>1. \A p \in Port : mailbox'[p].state = "pending" => mailbox[p].state = "pending"
  <2>1. CASE \E p \in Port : ReceiveAck(r, p)
    BY <1>0, <2>1 DEF ReceiveAck
  <2>2. CASE ~ \E p \in Port : ReceiveAck(r, p)
    <3>1. mailbox' = mailbox
      BY <2>2 DEF ReceiverMoves, ReceiverSteps, ReceiveEnter, ReceiveOther,
         ReceiveLeave, ports
    <3> QED
      BY <3>1
  <2> QED
    BY <2>1, <2>2
<1> QED
  BY <1>0, <1>1 DEF SenderHasLink, NoWaitOnClosedLink, NoneWaitsAtReset, Waiting

-----------------------------------------------------------------------------
(* Devices. *)

\* Before the first raspike_prot_init nothing happens at a port.
LEMMA KeepsUntouched ==
  ASSUME Typed, Untouched, [Next]_vars
  PROVE  Untouched'
<1> SUFFICES ASSUME ~fgPortSynchronizationInitialized'
             PROVE  /\ \A c \in Sender : pc'[c] = "out"
                    /\ \A p \in Port : device'[p] = 0 /\ mailbox'[p] = NoMail
  BY DEF Untouched
<1>t. /\ device \in [Port -> 0..MaxLinks]
      /\ mailbox \in [Port -> [state : {"idle", "pending", "acked", "canceled"},
                               link : 0..MaxLinks]]
  BY TypesOfOne
<1>1. CASE MainMoves
  <2>0. ~fgPortSynchronizationInitialized
    BY <1>1 DEF MainMoves, MainSteps, InitClaim, InitAllocate, InitHello, InitComplete,
       InitFails, InitUnclaim, ResetMailbox, ClearDevice, ShutdownBegin, ShutdownDrain,
       ShutdownDetach, ShutdownClose, ShutdownFree, ShutdownForget
  <2>1. /\ \A c \in Sender : pc'[c] = "out"
        /\ \A p \in Port : device[p] = 0 /\ mailbox[p] = NoMail
    BY <1>1, <2>0, MainLeaves DEF Untouched, sender
  <2>2. ASSUME NEW q \in Port, ResetMailbox(q)
        PROVE  \A p \in Port : device'[p] = 0 /\ mailbox'[p] = NoMail
    BY <1>t, <2>1, <2>2 DEF ResetMailbox, NoMail
  <2>3. CASE ClearDevice
    BY <1>t, <2>1, <2>3 DEF ClearDevice
  <2>4. CASE ~ClearDevice /\ ~ \E q \in Port : ResetMailbox(q)
    <3>1. device' = device /\ mailbox' = mailbox
      BY <1>1, <2>4 DEF MainMoves, MainSteps, InitClaim, InitAllocate, InitHello,
         InitComplete, InitFails, InitUnclaim, ShutdownBegin, ShutdownDrain,
         ShutdownDetach, ShutdownClose, ShutdownFree, ShutdownForget, ports
    <3> QED
      BY <2>1, <3>1
  <2> QED
    BY <2>1, <2>2, <2>3, <2>4
<1>2. ASSUME NEW r \in Receiver, ReceiverMoves(r)
      PROVE  /\ \A c \in Sender : pc'[c] = "out"
             /\ \A p \in Port : device'[p] = 0 /\ mailbox'[p] = NoMail
  <2>1. UNCHANGED <<fgPortSynchronizationInitialized, pc, device>>
    BY <1>2, ReceiverLeaves DEF main, sender
  <2>2. /\ \A c \in Sender : pc[c] = "out"
        /\ \A p \in Port : device[p] = 0 /\ mailbox[p] = NoMail
    BY <2>1 DEF Untouched
  <2>3. ~ \E p \in Port : ReceiveAck(r, p)
    BY <2>2 DEF ReceiveAck, NoMail
  <2>4. mailbox' = mailbox
    BY <1>2, <2>3 DEF ReceiverMoves, ReceiverSteps, ReceiveEnter, ReceiveOther,
       ReceiveLeave, ports
  <2> QED
    BY <2>1, <2>2, <2>4
<1>3. ASSUME NEW c \in Sender, SenderMoves(c)
      PROVE  FALSE
  <2>1. fgPortSynchronizationInitialized' = fgPortSynchronizationInitialized
    BY <1>3, SenderLeaves DEF main
  <2>2. pc[c] = "out"
    BY <2>1 DEF Untouched
  <2> QED
    BY <1>3, <2>1, <2>2 DEF SenderMoves, SenderSteps, Call, LockDevice, LockRequest,
       BeginAttempt, LockSend, Sent, WaitDone, WaitExpires, Finish, Configure
<1>4. CASE UNCHANGED vars
  BY <1>4 DEF vars, main, sender, ports, Untouched
<1> QED
  BY <1>1, <1>2, <1>3, <1>4, NextSplits

\* What Clean says of one port.
LEMMA CleanAtOnePort ==
  ASSUME Clean, ctl \in {"handshake", "complete", "up"}, NEW p \in Port \ todo
  PROVE  /\ mailbox[p].link \in {0, fgDesc}
         /\ p # at => /\ device[p] \in {0, fgDesc}
                      /\ \A c \in Sender : pc[c] = "configure" /\ call[c].port = p =>
                           call[c].result \in {0, fgDesc}
BY DEF Clean

\* A link that is opened has every port reset, or is the first.
LEMMA MainKeepsClean ==
  ASSUME Typed, HoldsLocks, Untouched, Clean, MainMoves
  PROVE  Clean'
<1>0. /\ pc' = pc /\ call' = call
      /\ \A d \in Sender : call[d].port \in Port
      /\ device \in [Port -> 0..MaxLinks] /\ Nobody \notin Port /\ Nobody \notin Sender
      /\ mailbox \in [Port -> [state : {"idle", "pending", "acked", "canceled"},
                               link : 0..MaxLinks]]
  BY MainLeaves, TypesOfOne DEF sender
<1>1. CASE InitAllocate
  <2>1. CASE fgPortSynchronizationInitialized
    BY <1>1, <2>1 DEF InitAllocate, Clean
  <2>2. CASE ~fgPortSynchronizationInitialized
    <3>1. /\ \A c \in Sender : pc'[c] # "configure"
          /\ \A p \in Port : device'[p] = 0 /\ mailbox'[p].link = 0
      BY <1>0, <1>1, <2>2 DEF InitAllocate, Untouched, ports, NoMail
    <3> QED
      BY <3>1 DEF Clean
  <2> QED
    BY <2>1, <2>2
<1>2. ASSUME NEW q \in Port, ResetMailbox(q) PROVE Clean'
  <2>1. /\ UNCHANGED <<ctl, fgDesc, device>> /\ todo' = todo \ {q} /\ at' = q /\ at = Nobody
        /\ \A p \in Port \ {q} : mailbox'[p] = mailbox[p]
        /\ mailbox'[q].link = 0
    BY <1>0, <1>2 DEF ResetMailbox, flags, NoMail
  <2> QED
    BY <1>0, <2>1 DEF Clean
<1>3. CASE ClearDevice
  <2>1. /\ UNCHANGED <<ctl, fgDesc, mailbox, todo>> /\ at' = Nobody
        /\ at # Nobody /\ device_mutex[at] = Nobody
        /\ device' = [device EXCEPT ![at] = 0]
    BY <1>3 DEF ClearDevice, flags
  <2>2. /\ at \in Port => device'[at] = 0
        /\ \A p \in Port : p # at => device'[p] = device[p]
    BY <1>0, <2>1
  <2>3. ASSUME NEW c \in Sender, pc[c] = "configure" PROVE call[c].port # at
    <3>1. device_mutex[call[c].port] = c
      BY <2>3 DEF HoldsLocks, Typed, OpenersConfigure, InDevice
    <3> QED
      BY <1>0, <2>1, <3>1
  <2> QED
    BY <1>0, <2>1, <2>2, <2>3 DEF Clean
<1>4. CASE InitHello \/ InitComplete \/ ShutdownBegin
  <2>1. /\ UNCHANGED <<fgDesc, mailbox, device, todo, at>>
        /\ ctl' \in {"handshake", "complete", "up"} => ctl \in {"handshake", "complete", "up"}
    BY <1>4 DEF InitHello, InitComplete, ShutdownBegin, ports
  <2> QED
    BY <1>0, <2>1 DEF Clean
<1>5. CASE ~ \/ InitAllocate \/ (\E q \in Port : ResetMailbox(q)) \/ ClearDevice
             \/ InitHello \/ InitComplete \/ ShutdownBegin
  <2>1. ctl' \notin {"handshake", "complete", "up"}
    BY <1>5 DEF MainMoves, MainSteps, InitClaim, InitFails, InitUnclaim, ShutdownDrain,
       ShutdownDetach, ShutdownClose, ShutdownFree, ShutdownForget
  <2> QED
    BY <2>1 DEF Clean
<1> QED
  BY <1>1, <1>2, <1>3, <1>4, <1>5

\* What is acknowledged while the link is up was acknowledged over it.
LEMMA ReceiverKeepsClean ==
  ASSUME Typed, Flags, ReceiversOfOpenLink, Clean, NEW r \in Receiver, ReceiverMoves(r)
  PROVE  Clean'
<1>0. /\ UNCHANGED <<pc, call, ctl, todo, at, fgDesc, device>>
      /\ mailbox \in [Port -> [state : {"idle", "pending", "acked", "canceled"},
                               link : 0..MaxLinks]]
  BY ReceiverLeaves, TypesOfOne DEF sender, main, flags
<1>1. \A p \in Port : mailbox'[p].link \in {mailbox[p].link, fgDesc}
  <2>1. ASSUME NEW q \in Port, ReceiveAck(r, q)
        PROVE  \A p \in Port : mailbox'[p].link \in {mailbox[p].link, fgDesc}
    <3>1. fgSessionId = fgDesc
      BY <2>1 DEF ReceiveAck, ReceiversOfOpenLink, Flags
    <3> QED
      BY <1>0, <2>1, <3>1 DEF ReceiveAck
  <2>2. CASE ~ \E p \in Port : ReceiveAck(r, p)
    <3>1. mailbox' = mailbox
      BY <2>2 DEF ReceiverMoves, ReceiverSteps, ReceiveEnter, ReceiveOther,
         ReceiveLeave, ports
    <3> QED
      BY <3>1
  <2> QED
    BY <2>1, <2>2
<1> QED
  BY <1>0, <1>1 DEF Clean

\* A request ends with what its mailbox holds, and a device is configured with what
\* its request ended with.
LEMMA SenderKeepsClean ==
  ASSUME Typed, Clean, NEW c \in Sender, SenderMoves(c)
  PROVE  Clean'
<1>0. /\ UNCHANGED <<ctl, todo, at, fgDesc>>
      /\ \A d \in Sender \ {c} : pc'[d] = pc[d] /\ call'[d] = call[d]
      /\ pc' \in [Sender -> {"out"} \cup {"device"} \cup InDevice]
      /\ pc \in [Sender -> {"out"} \cup {"device"} \cup InDevice]
      /\ call \in [Sender -> Locals] /\ call[c] \in Locals
      /\ call[c].port \in Port
      /\ device \in [Port -> 0..MaxLinks]
      /\ mailbox \in [Port -> [state : {"idle", "pending", "acked", "canceled"},
                               link : 0..MaxLinks]]
  BY SenderLeaves, OneSenderMoves, TypesOfOne DEF main, flags
<1>1. \A p \in Port : mailbox'[p].link \in {0, mailbox[p].link}
  <2>1. CASE LockRequest(c)
    BY <1>0, <2>1 DEF LockRequest
  <2>2. CASE Finish(c)
    BY <1>0, <2>2 DEF Finish, NoMail
  <2>3. CASE ~LockRequest(c) /\ ~Finish(c)
    <3>1. mailbox' = mailbox
      BY <2>3 DEF SenderMoves, SenderSteps, Call, LockDevice, BeginAttempt, LockSend,
         Sent, WaitDone, WaitExpires, Configure, ports
    <3> QED
      BY <3>1
  <2> QED
    BY <2>1, <2>2, <2>3
<1>2. \A p \in Port :
        \/ device'[p] = device[p]
        \/ pc[c] = "configure" /\ p = call[c].port /\ device'[p] = call[c].result
  <2>1. CASE Configure(c)
    BY <1>0, <2>1 DEF Configure
  <2>2. CASE ~Configure(c)
    <3>1. device' = device
      BY <2>2 DEF SenderMoves, SenderSteps, Call, LockDevice, LockRequest, BeginAttempt,
         LockSend, Sent, WaitDone, WaitExpires, Finish, ports
    <3> QED
      BY <3>1
  <2> QED
    BY <2>1, <2>2
<1>3. pc'[c] = "configure" =>
        call'[c].port = call[c].port /\ call'[c].result \in {0, mailbox[call[c].port].link}
  <2>1. CASE Finish(c)
    <3>1. call'[c] = [NewCall(call[c].port) EXCEPT !.result = ResultOf(c)]
      BY <1>0, <2>1 DEF Finish
    <3>2. call'[c].port = call[c].port /\ call'[c].result = ResultOf(c)
      BY <3>1 DEF NewCall
    <3> QED
      BY <3>2, ResultIsALink
  <2>2. CASE ~Finish(c)
    <3>1. pc'[c] # "configure"
      BY <1>0, <2>2 DEF SenderMoves, SenderSteps, Call, LockDevice, LockRequest,
         BeginAttempt, LockSend, Sent, WaitDone, WaitExpires, Configure, Goto
    <3> QED
      BY <3>1
  <2> QED
    BY <2>1, <2>2
<1>4. ASSUME ctl \in {"handshake", "complete", "up"}, NEW p \in Port \ todo
      PROVE  /\ mailbox'[p].link \in {0, fgDesc}
             /\ p # at => /\ device'[p] \in {0, fgDesc}
                          /\ \A d \in Sender : pc'[d] = "configure" /\ call'[d].port = p =>
                               call'[d].result \in {0, fgDesc}
  <2>1. /\ mailbox[p].link \in {0, fgDesc}
        /\ p # at => /\ device[p] \in {0, fgDesc}
                     /\ \A d \in Sender : pc[d] = "configure" /\ call[d].port = p =>
                          call[d].result \in {0, fgDesc}
    BY <1>4, CleanAtOnePort
  <2>2. mailbox'[p].link \in {0, fgDesc}
    BY <1>1, <2>1
  <2>3. p # at => device'[p] \in {0, fgDesc}
    BY <1>2, <2>1
  <2>4. ASSUME p # at, NEW d \in Sender, pc'[d] = "configure", call'[d].port = p
        PROVE  call'[d].result \in {0, fgDesc}
    BY <1>0, <1>3, <2>1, <2>4
  <2> QED
    BY <2>2, <2>3, <2>4
<1> QED
  BY <1>0, <1>4 DEF Clean

-----------------------------------------------------------------------------
(* The theorems. *)

\* Before anything is opened, all of it holds.
LEMMA InitInductive == Init => Inductive
<1> SUFFICES ASSUME Init PROVE Inductive
  OBVIOUS
<1>1. Typed
  BY InitTyped
<1>2. HoldsLocks /\ SenderHasLink /\ NoWaitOnClosedLink
  BY DEF Init, HoldsLocks, SenderHasLink, NoWaitOnClosedLink, InRequest, InDevice
<1>3. Flags /\ ReceiversOfOpenLink
  BY DEF Init, Flags, Closing, AllPortsReset, ReceiversOfOpenLink
<1>4. NoneWaitsAtReset /\ Untouched /\ Clean
  BY DEF Init, NoneWaitsAtReset, Untouched, Clean
<1> QED
  BY <1>1, <1>2, <1>3, <1>4 DEF Inductive

\* Every step of every thread keeps it.
LEMMA StepInductive == Inductive /\ [Next]_vars => Inductive'
<1> SUFFICES ASSUME Inductive, [Next]_vars PROVE Inductive'
  OBVIOUS
<1> USE DEF Inductive
<1>1. Untouched'
  BY KeepsUntouched
<1>2. CASE MainMoves
  BY <1>1, <1>2, MainTyped, MainKeepsLocks, MainKeepsFlags, MainWaitsForReceivers,
     MainKeepsLink, MainKeepsClean
<1>3. ASSUME NEW r \in Receiver, ReceiverMoves(r) PROVE Inductive'
  <2>1. Typed' /\ ReceiversOfOpenLink' /\ Clean'
    BY <1>3, ReceiverTyped, ReceiverEntersOpenLink, ReceiverKeepsClean
  <2>2. SenderHasLink' /\ NoWaitOnClosedLink' /\ NoneWaitsAtReset'
    BY <1>3, ReceiverKeepsLink
  <2>3. HoldsLocks' /\ Flags'
    <3>1. UNCHANGED <<flags, request_mutex, device_mutex, main, sender, locks>>
      BY <1>3, ReceiverLeaves
    <3> QED
      BY <3>1 DEF HoldsLocks, Flags, AllPortsReset, flags, main, sender, locks
  <2> QED
    BY <1>1, <2>1, <2>2, <2>3
<1>4. ASSUME NEW c \in Sender, SenderMoves(c) PROVE Inductive'
  <2>1. Typed' /\ HoldsLocks' /\ Clean'
    BY <1>4, SenderTyped, SenderKeepsLocks, SenderKeepsClean
  <2>2. SenderHasLink' /\ NoWaitOnClosedLink' /\ NoneWaitsAtReset'
    BY <1>4, SenderKeepsLink
  <2>3. Flags' /\ ReceiversOfOpenLink'
    <3>1. UNCHANGED <<flags, main, recv>>
      BY <1>4, SenderLeaves
    <3> QED
      BY <3>1 DEF Flags, ReceiversOfOpenLink, AllPortsReset, flags, main, recv
  <2> QED
    BY <1>1, <2>1, <2>2, <2>3
<1>5. CASE UNCHANGED vars
  <2>1. UNCHANGED <<flags, ports, main, recv, sender, locks>>
    BY <1>5 DEF vars
  <2>2. Typed'
    BY <2>1 DEF Typed, TypeOK, AttemptsLeft, OpenersConfigure, flags, ports, main, recv,
       sender, locks
  <2>3. HoldsLocks' /\ Flags' /\ ReceiversOfOpenLink' /\ NoneWaitsAtReset'
    BY <2>1 DEF HoldsLocks, Flags, ReceiversOfOpenLink, NoneWaitsAtReset, AllPortsReset,
       Waiting, flags, ports, main, recv, sender, locks
  <2>4. SenderHasLink' /\ NoWaitOnClosedLink' /\ Clean'
    BY <2>1 DEF SenderHasLink, NoWaitOnClosedLink, Clean, Waiting, flags, ports, main, sender
  <2> QED
    BY <1>1, <2>2, <2>3, <2>4
<1> QED
  BY <1>2, <1>3, <1>4, <1>5, NextSplits

\* The inductive invariant holds in every state of the library.
THEOREM Invariance == Spec => []Inductive
BY InitInductive, StepInductive, PTL DEF Spec

\* Every variable keeps its type, and fgActiveReceivers counts the receivers inside.
THEOREM TypeCorrect == Spec => []TypeOK
<1>1. Inductive => TypeOK
  BY DEF Inductive, Typed
<1> QED
  BY <1>1, Invariance, PTL

\* raspike_prot_shutdown does not close or free anything under a thread that is
\* inside raspike_prot_receive, and a frame is handled in the session of its link.
THEOREM ReceiversHaveLink == Spec => []ReceiverHasLink
<1>1. Inductive => ReceiverHasLink
  BY DEF Inductive, ReceiversOfOpenLink, Flags, ReceiverHasLink
<1> QED
  BY <1>1, Invariance, PTL

\* send_frame writes to an open descriptor, whatever raspike_prot_shutdown does.
THEOREM SendersHaveLink == Spec => []SenderHasLink
<1>1. Inductive => SenderHasLink
  BY DEF Inductive
<1> QED
  BY <1>1, Invariance, PTL

\* No raspike_request waits for an answer over a link that raspike_prot_shutdown closed.
THEOREM NoneWaitsOnClosedLink == Spec => []NoWaitOnClosedLink
<1>1. Inductive => NoWaitOnClosedLink
  BY DEF Inductive
<1> QED
  BY <1>1, Invariance, PTL

\* A device that counts as configured while a link is up was configured over this link:
\* raspike_prot_init resets every port before it returns.
THEOREM DevicesOfThisLink == Spec => []DeviceOfThisLink
<1>1. Inductive => DeviceOfThisLink
  <2> SUFFICES ASSUME Inductive, ctl = "up", NEW p \in Port
               PROVE  device[p] \in {0, fgDesc}
    BY DEF DeviceOfThisLink
  <2>1. todo = {} /\ at = Nobody
    BY DEF Inductive, Flags, AllPortsReset
  <2>2. p # at
    BY <2>1, LifecycleAssumption
  <2> QED
    BY <2>1, <2>2, CleanAtOnePort DEF Inductive
<1> QED
  BY <1>1, Invariance, PTL
=============================================================================

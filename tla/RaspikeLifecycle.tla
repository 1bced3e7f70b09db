-------------------------- MODULE RaspikeLifecycle --------------------------
(***************************************************************************)
(* Opening and closing the link: raspike_prot_init, raspike_prot_shutdown  *)
(* and raspike_prot_receive, with the application threads that are inside  *)
(* raspike_request meanwhile, some of them from within GET_DEVICE_COMMON,  *)
(* that is, holding the device_mutex of a port.                            *)
(*                                                                         *)
(* One thread opens and closes links (the application's main thread).  A   *)
(* lock that is held across other steps is a variable naming its holder; a *)
(* section that takes a lock and neither blocks nor calls out inside it is *)
(* one step.  Links are numbered as they are opened, 0 being NULL: the     *)
(* number stands for the descriptor, for the status block allocated with   *)
(* it and for the session the hub announced on it.                         *)
(***************************************************************************)
EXTENDS Integers, FiniteSets

CONSTANTS
  Receiver,   \* threads that call raspike_prot_receive in a loop
  Sender,     \* threads that call raspike_request
  Opener,     \* those of them that do so from GET_DEVICE_COMMON
  Port,       \* entries of gPortDevices
  Main,       \* the thread that opens and closes links
  Nobody,     \* "the lock is free"
  MaxLinks,   \* bound: links opened in a behaviour
  MaxCalls    \* bound: calls of the senders in a behaviour

ASSUME LifecycleAssumption ==
  /\ Opener \subseteq Sender
  /\ Main \notin Sender /\ Nobody \notin Sender \cup Port \cup {Main}
  /\ IsFiniteSet(Receiver)
  /\ MaxLinks \in Nat /\ MaxCalls \in Nat

VARIABLES
  fgDesc,               \* the link in use
  fgStatus,             \* the status block in use
  fgSessionId,          \* the session of the link, 0 before its HELLO
  fgStopCommunication, fgHandshakeComplete, fgUseProtocolV2, fgActiveReceivers,
  fgLifecycleMutex, fgSendMutex, device_mutex, request_mutex,
  mailbox,              \* per port: nothing, a request waiting, or how it ended
  device,               \* per port: the link its device was configured over
  fgPortSynchronizationInitialized,
  ctl,                  \* where Main is
  todo, at,             \* the ports it has still to reset; the one it is at
  links, live,          \* links opened so far; those not closed
  rpc,                  \* where each receiver is
  pc, call, calls       \* where each sender is; its locals; bound

flags  == <<fgDesc, fgStatus, fgSessionId, fgStopCommunication,
            fgHandshakeComplete, fgUseProtocolV2>>
ports  == <<request_mutex, mailbox, device, device_mutex>>
main   == <<ctl, todo, at, links, live, fgPortSynchronizationInitialized>>
locks  == <<fgLifecycleMutex, fgSendMutex>>
recv   == <<rpc, fgActiveReceivers>>
sender == <<pc, call, calls>>
vars   == <<flags, ports, main, recv, sender, locks>>

Links == 1..MaxLinks
NoMail == [state |-> "idle", link |-> 0]

\* attempts are those left, result is the link over which the hub agreed (0: it
\* did not); sentOn is history, the link of the last frame.
Locals == [port : Port, attempts : 0..2, completed : BOOLEAN,
           result : 0..MaxLinks, sentOn : 0..MaxLinks]
NewCall(p) ==
  [port |-> p, attempts |-> 0, completed |-> FALSE, result |-> 0, sentOn |-> 0]

Init ==
  /\ fgDesc = 0 /\ fgStatus = 0 /\ fgSessionId = 0
  /\ fgStopCommunication = FALSE /\ fgHandshakeComplete = FALSE
  /\ fgUseProtocolV2 = FALSE
  /\ fgActiveReceivers = 0
  /\ fgLifecycleMutex = Nobody /\ fgSendMutex = Nobody
  /\ device_mutex = [p \in Port |-> Nobody]
  /\ request_mutex = [p \in Port |-> Nobody]
  /\ mailbox = [p \in Port |-> NoMail]
  /\ device = [p \in Port |-> 0]
  /\ fgPortSynchronizationInitialized = FALSE
  /\ ctl = "down" /\ todo = {} /\ at = Nobody /\ links = 0 /\ live = {}
  /\ rpc = [r \in Receiver |-> "out"]
  /\ pc = [c \in Sender |-> "out"]
  /\ \E p \in Port : call = [c \in Sender |-> NewCall(p)]
  /\ calls = 0

-----------------------------------------------------------------------------
(* raspike_prot_init *)

\* A fresh descriptor is claimed; while another is in use, the answer is -EBUSY.
InitClaim ==
  /\ ctl = "down" /\ links < MaxLinks
  /\ fgLifecycleMutex = Nobody /\ fgDesc = 0
  /\ links' = links + 1 /\ live' = live \cup {links + 1}
  /\ fgDesc' = links + 1
  /\ fgStopCommunication' = FALSE /\ fgHandshakeComplete' = FALSE
  /\ fgUseProtocolV2' = FALSE /\ fgSessionId' = 0 /\ fgActiveReceivers' = 0
  /\ ctl' = "allocate"
  /\ UNCHANGED <<fgStatus, ports, todo, at, fgPortSynchronizationInitialized,
                 rpc, sender, locks>>

\* Then the port locks are created, the first time, or all ports are reset.
InitAllocate ==
  /\ ctl = "allocate"
  /\ fgStatus' = fgDesc
  /\ fgPortSynchronizationInitialized' = TRUE
  /\ todo' = IF fgPortSynchronizationInitialized THEN Port ELSE {}
  /\ ctl' = "handshake"
  /\ UNCHANGED <<fgDesc, fgSessionId, fgStopCommunication, fgHandshakeComplete,
                 fgUseProtocolV2, ports, at, links, live, recv, sender, locks>>

AllPortsReset == todo = {} /\ at = Nobody

\* The handshake, the version and the HELLO were as they should be.
InitHello ==
  /\ ctl = "handshake" /\ AllPortsReset
  /\ fgSessionId' = fgDesc /\ fgUseProtocolV2' = TRUE
  /\ ctl' = "complete"
  /\ UNCHANGED <<fgDesc, fgStatus, fgStopCommunication, fgHandshakeComplete, ports,
                 todo, at, links, live, fgPortSynchronizationInitialized,
                 recv, sender, locks>>

InitComplete ==
  /\ ctl = "complete"
  /\ fgHandshakeComplete' = TRUE
  /\ ctl' = "up"
  /\ UNCHANGED <<fgDesc, fgStatus, fgSessionId, fgStopCommunication, fgUseProtocolV2,
                 ports, todo, at, links, live, fgPortSynchronizationInitialized,
                 recv, sender, locks>>

\* One of them was not, or there is no memory: the status block is freed ...
InitFails ==
  /\ \/ ctl = "allocate"
     \/ ctl = "handshake" /\ AllPortsReset
  /\ fgStatus' = 0
  /\ fgSessionId' \in IF ctl = "handshake" THEN {fgSessionId, fgDesc} ELSE {fgSessionId}
  /\ ctl' = "unclaim"
  /\ UNCHANGED <<fgDesc, fgStopCommunication, fgHandshakeComplete, fgUseProtocolV2,
                 ports, todo, at, links, live, fgPortSynchronizationInitialized,
                 recv, sender, locks>>

\* ... and the descriptor, which stays open, is given up.
InitUnclaim ==
  /\ ctl = "unclaim" /\ fgLifecycleMutex = Nobody
  /\ fgDesc' = 0
  /\ ctl' = "down"
  /\ UNCHANGED <<fgStatus, fgSessionId, fgStopCommunication, fgHandshakeComplete,
                 fgUseProtocolV2, ports, todo, at, links, live,
                 fgPortSynchronizationInitialized, recv, sender, locks>>

-----------------------------------------------------------------------------
(* reset_port_state(-ENOTCONN, 1), for init and shutdown: port by port, the *)
(* mailbox under its mutex, then the device under device_mutex.             *)

\* Mutant: a request that waits is not woken.
ResetMailboxUnlessPending(p) ==
  /\ ctl \in {"handshake", "reset"} /\ p \in todo /\ at = Nobody
  /\ mailbox' = [mailbox EXCEPT ![p] = IF @.state = "pending" THEN @ ELSE NoMail]
  /\ todo' = todo \ {p} /\ at' = p
  /\ UNCHANGED <<flags, request_mutex, device, device_mutex, ctl, links, live,
                 fgPortSynchronizationInitialized, recv, sender, locks>>

ResetMailbox(p) ==
  /\ ctl \in {"handshake", "reset"} /\ p \in todo /\ at = Nobody
  /\ mailbox' = [mailbox EXCEPT ![p] =
       IF @.state = "pending" THEN [state |-> "canceled", link |-> 0] ELSE NoMail]
  /\ todo' = todo \ {p} /\ at' = p
  /\ UNCHANGED <<flags, request_mutex, device, device_mutex, ctl, links, live,
                 fgPortSynchronizationInitialized, recv, sender, locks>>

\* Mutant: clear_devices is ignored.
ClearDeviceNot ==
  /\ at # Nobody /\ device_mutex[at] = Nobody
  /\ at' = Nobody
  /\ UNCHANGED <<flags, ports, ctl, todo, links, live,
                 fgPortSynchronizationInitialized, recv, sender, locks>>

ClearDevice ==
  /\ at # Nobody /\ device_mutex[at] = Nobody
  /\ device' = [device EXCEPT ![at] = 0]
  /\ at' = Nobody
  /\ UNCHANGED <<flags, request_mutex, mailbox, device_mutex, ctl, todo, links, live,
                 fgPortSynchronizationInitialized, recv, sender, locks>>

-----------------------------------------------------------------------------
(* raspike_prot_shutdown *)

ShutdownBegin ==
  /\ ctl = "up"
  /\ fgStopCommunication' = TRUE
  /\ ctl' = "drain"
  /\ UNCHANGED <<fgDesc, fgStatus, fgSessionId, fgHandshakeComplete, fgUseProtocolV2,
                 ports, todo, at, links, live, fgPortSynchronizationInitialized,
                 recv, sender, locks>>

\* Mutant: the receivers are not waited for.
ShutdownDrainAtOnce ==
  /\ ctl = "drain" /\ fgLifecycleMutex = Nobody
  /\ fgLifecycleMutex' = Main
  /\ ctl' = "detach"
  /\ UNCHANGED <<flags, ports, todo, at, links, live,
                 fgPortSynchronizationInitialized, recv, sender, fgSendMutex>>

\* Mutant: the lifecycle lock is kept while the receivers are waited for.
ShutdownDrainLocked ==
  /\ ctl = "drain"
  /\ \/ fgLifecycleMutex = Nobody /\ fgLifecycleMutex' = Main /\ ctl' = ctl
     \/ /\ fgLifecycleMutex = Main /\ fgActiveReceivers = 0
        /\ fgLifecycleMutex' = Main /\ ctl' = "detach"
  /\ UNCHANGED <<flags, ports, todo, at, links, live,
                 fgPortSynchronizationInitialized, recv, sender, fgSendMutex>>

\* The lifecycle lock is waited for, and then, with it released, the receivers.
ShutdownDrain ==
  /\ ctl = "drain"
  /\ fgLifecycleMutex = Nobody /\ fgActiveReceivers = 0
  /\ fgLifecycleMutex' = Main
  /\ ctl' = "detach"
  /\ UNCHANGED <<flags, ports, todo, at, links, live,
                 fgPortSynchronizationInitialized, recv, sender, fgSendMutex>>

\* Mutant: a send in progress is not waited for.
ShutdownDetachAtOnce ==
  /\ ctl = "detach"
  /\ fgSendMutex' = Main /\ fgLifecycleMutex' = Nobody
  /\ fgDesc' = 0
  /\ todo' = Port
  /\ ctl' = "reset"
  /\ UNCHANGED <<fgStatus, fgSessionId, fgStopCommunication, fgHandshakeComplete,
                 fgUseProtocolV2, ports, at, links, live,
                 fgPortSynchronizationInitialized, recv, sender>>

\* fgDesc is taken away under both locks; fgSendMutex is kept.
ShutdownDetach ==
  /\ ctl = "detach" /\ fgSendMutex = Nobody
  /\ fgSendMutex' = Main /\ fgLifecycleMutex' = Nobody
  /\ fgDesc' = 0
  /\ todo' = Port
  /\ ctl' = "reset"
  /\ UNCHANGED <<fgStatus, fgSessionId, fgStopCommunication, fgHandshakeComplete,
                 fgUseProtocolV2, ports, at, links, live,
                 fgPortSynchronizationInitialized, recv, sender>>

\* Flush, close, let the senders in again.
ShutdownClose ==
  /\ ctl = "reset" /\ AllPortsReset
  /\ live' = live \ {links}
  /\ fgSendMutex' = Nobody
  /\ ctl' = "free"
  /\ UNCHANGED <<flags, ports, todo, at, links, fgPortSynchronizationInitialized,
                 recv, sender, fgLifecycleMutex>>

ShutdownFree ==
  /\ ctl = "free"
  /\ fgStatus' = 0
  /\ ctl' = "forget"
  /\ UNCHANGED <<fgDesc, fgSessionId, fgStopCommunication, fgHandshakeComplete,
                 fgUseProtocolV2, ports, todo, at, links, live,
                 fgPortSynchronizationInitialized, recv, sender, locks>>

ShutdownForget ==
  /\ ctl = "forget"
  /\ fgHandshakeComplete' = FALSE /\ fgUseProtocolV2' = FALSE /\ fgSessionId' = 0
  /\ ctl' = "down"
  /\ UNCHANGED <<fgDesc, fgStatus, fgStopCommunication, ports, todo, at, links, live,
                 fgPortSynchronizationInitialized, recv, sender, locks>>

MainSteps ==
  \/ InitAllocate \/ InitHello \/ InitComplete \/ InitFails \/ InitUnclaim
  \/ (\E p \in Port : ResetMailbox(p)) \/ ClearDevice
  \/ ShutdownDrain \/ ShutdownDetach \/ ShutdownClose \/ ShutdownFree
  \/ ShutdownForget

-----------------------------------------------------------------------------
(* raspike_prot_receive *)

Accepting == ~fgStopCommunication /\ fgDesc # 0 /\ fgHandshakeComplete

\* Mutant: a refused call is counted too.
ReceiveEnterCounted(r) ==
  /\ rpc[r] = "out" /\ fgLifecycleMutex = Nobody
  /\ fgActiveReceivers' = fgActiveReceivers + 1
  /\ rpc' = [rpc EXCEPT ![r] = IF Accepting THEN "in" ELSE @]
  /\ UNCHANGED <<flags, ports, main, sender, locks>>

\* Otherwise it returns -ENOTCONN, and nothing changes.
ReceiveEnter(r) ==
  /\ rpc[r] = "out" /\ fgLifecycleMutex = Nobody
  /\ IF Accepting THEN /\ fgActiveReceivers' = fgActiveReceivers + 1
                       /\ rpc' = [rpc EXCEPT ![r] = "in"]
                  ELSE UNCHANGED recv
  /\ UNCHANGED <<flags, ports, main, sender, locks>>

\* A matching acknowledgement settles a mailbox.
ReceiveAck(r, p) ==
  /\ rpc[r] = "in" /\ mailbox[p].state = "pending"
  /\ mailbox' = [mailbox EXCEPT ![p] = [state |-> "acked", link |-> fgSessionId]]
  /\ rpc' = [rpc EXCEPT ![r] = "leave"]
  /\ UNCHANGED <<flags, request_mutex, device, device_mutex, main,
                 fgActiveReceivers, sender, locks>>

\* Any other frame, none in time, or an error.
ReceiveOther(r) ==
  /\ rpc[r] = "in"
  /\ rpc' = [rpc EXCEPT ![r] = "leave"]
  /\ UNCHANGED <<flags, ports, main, fgActiveReceivers, sender, locks>>

ReceiveLeave(r) ==
  /\ rpc[r] = "leave" /\ fgLifecycleMutex = Nobody
  /\ fgActiveReceivers' = fgActiveReceivers - 1
  /\ rpc' = [rpc EXCEPT ![r] = "out"]
  /\ UNCHANGED <<flags, ports, main, sender, locks>>

ReceiverSteps(r) ==
  \/ (\E p \in Port : ReceiveAck(r, p)) \/ ReceiveOther(r) \/ ReceiveLeave(r)

-----------------------------------------------------------------------------
(* raspike_request, alone or from GET_DEVICE_COMMON. *)

Goto(c, label) == pc' = [pc EXCEPT ![c] = label]

\* The application uses a port once some raspike_prot_init has set it up.
Call(c, p) ==
  /\ pc[c] = "out" /\ calls < MaxCalls /\ fgPortSynchronizationInitialized
  /\ calls' = calls + 1
  /\ call' = [call EXCEPT ![c] = NewCall(p)]
  /\ Goto(c, IF c \in Opener THEN "device" ELSE "request")
  /\ UNCHANGED <<flags, ports, main, recv, locks>>

\* A device that is configured already is returned as it is.
LockDevice(c) ==
  /\ pc[c] = "device" /\ device_mutex[call[c].port] = Nobody
  /\ IF device[call[c].port] # 0
     THEN Goto(c, "out") /\ UNCHANGED device_mutex
     ELSE Goto(c, "request") /\ device_mutex' = [device_mutex EXCEPT ![call[c].port] = c]
  /\ UNCHANGED <<flags, request_mutex, mailbox, device, main, recv, call, calls, locks>>

LockRequest(c) ==
  /\ pc[c] = "request" /\ request_mutex[call[c].port] = Nobody
  /\ request_mutex' = [request_mutex EXCEPT ![call[c].port] = c]
  /\ mailbox' = [mailbox EXCEPT ![call[c].port] = [state |-> "pending", link |-> 0]]
  /\ call' = [call EXCEPT ![c].attempts = IF fgUseProtocolV2 THEN 2 ELSE 1]
  /\ Goto(c, "attempt")
  /\ UNCHANGED <<flags, device, device_mutex, main, recv, calls, locks>>

Waiting(c) == mailbox[call[c].port].state = "pending"

BeginAttempt(c) ==
  /\ pc[c] = "attempt"
  /\ \/ Waiting(c) /\ Goto(c, "send") /\ UNCHANGED call
     \/ /\ ~Waiting(c)
        /\ call' = [call EXCEPT ![c].completed = TRUE]
        /\ Goto(c, "finish")
  /\ UNCHANGED <<flags, ports, main, recv, calls, locks>>

\* send_frame: refused with -ENOTCONN, or the write begins under fgSendMutex ...
LockSend(c) ==
  /\ pc[c] = "send" /\ fgSendMutex = Nobody
  /\ IF fgDesc = 0 \/ fgStopCommunication
     THEN Goto(c, "finish") /\ UNCHANGED <<call, fgSendMutex>>
     ELSE /\ Goto(c, "sending") /\ fgSendMutex' = c
          /\ call' = [call EXCEPT ![c].sentOn = fgDesc]
  /\ UNCHANGED <<flags, ports, main, recv, calls, fgLifecycleMutex>>

\* ... and ends, well or not.
Sent(c) ==
  /\ pc[c] = "sending"
  /\ fgSendMutex' = Nobody
  /\ Goto(c, "wait") \/ Goto(c, "finish")
  /\ UNCHANGED <<flags, ports, main, recv, call, calls, fgLifecycleMutex>>

WaitDone(c) ==
  /\ pc[c] = "wait" /\ ~Waiting(c)
  /\ call' = [call EXCEPT ![c].completed = TRUE]
  /\ Goto(c, "finish")
  /\ UNCHANGED <<flags, ports, main, recv, calls, locks>>

\* Mutant: every expiry is followed by another attempt.
WaitExpiresForever(c) ==
  /\ pc[c] = "wait" /\ Waiting(c)
  /\ Goto(c, "attempt")
  /\ UNCHANGED <<flags, ports, main, recv, call, calls, locks>>

WaitExpires(c) ==
  /\ pc[c] = "wait" /\ Waiting(c)
  /\ call' = [call EXCEPT ![c].attempts = @ - 1]
  /\ Goto(c, IF call[c].attempts > 1 THEN "attempt" ELSE "finish")
  /\ UNCHANGED <<flags, ports, main, recv, calls, locks>>

\* The link the answer in the mailbox came over, if it counts.
ResultOf(c) ==
  LET m == mailbox[call[c].port] IN
  IF call[c].completed /\ m.state = "acked" /\ (fgUseProtocolV2 => m.link = fgSessionId)
  THEN m.link ELSE 0

Finish(c) ==
  /\ pc[c] = "finish"
  /\ mailbox' = [mailbox EXCEPT ![call[c].port] = IF Waiting(c) THEN NoMail ELSE @]
  /\ request_mutex' = [request_mutex EXCEPT ![call[c].port] = Nobody]
  /\ call' = [call EXCEPT ![c] = [NewCall(@.port) EXCEPT !.result = ResultOf(c)]]
  /\ Goto(c, IF c \in Opener THEN "configure" ELSE "out")
  /\ UNCHANGED <<flags, device, device_mutex, main, recv, calls, locks>>

\* The rest of GET_DEVICE_COMMON; the hub may also have refused the device.
Configure(c) ==
  /\ pc[c] = "configure"
  /\ \/ /\ call[c].result # 0
        /\ device' = [device EXCEPT ![call[c].port] = call[c].result]
     \/ UNCHANGED device
  /\ device_mutex' = [device_mutex EXCEPT ![call[c].port] = Nobody]
  /\ Goto(c, "out")
  /\ UNCHANGED <<flags, request_mutex, mailbox, main, recv, call, calls, locks>>

SenderSteps(c) ==
  \/ LockDevice(c) \/ LockRequest(c) \/ BeginAttempt(c) \/ LockSend(c) \/ Sent(c)
  \/ WaitDone(c) \/ WaitExpires(c) \/ Finish(c) \/ Configure(c)

Next ==
  \/ InitClaim \/ ShutdownBegin \/ MainSteps
  \/ \E r \in Receiver : ReceiveEnter(r) \/ ReceiverSteps(r)
  \/ \E c \in Sender : SenderSteps(c) \/ \E p \in Port : Call(c, p)

Spec == Init /\ [][Next]_vars

\* Threads that are inside the library keep running when nothing blocks them.
\* Opening, closing, calling and entering the receive loop are up to the application.
Fairness ==
  /\ WF_vars(MainSteps)
  /\ \A r \in Receiver : WF_vars(ReceiverSteps(r))
  /\ \A c \in Sender : WF_vars(SenderSteps(c))
FairSpec == Spec /\ Fairness

-----------------------------------------------------------------------------
(* What must hold. *)

\* Every variable keeps its type; in particular the count of receivers is theirs.
TypeOK ==
  /\ {fgDesc, fgStatus, fgSessionId, links} \subseteq 0..MaxLinks
  /\ {fgStopCommunication, fgHandshakeComplete, fgUseProtocolV2,
      fgPortSynchronizationInitialized} \subseteq BOOLEAN
  /\ fgActiveReceivers = Cardinality({r \in Receiver : rpc[r] # "out"})
  /\ fgLifecycleMutex \in {Nobody, Main}
  /\ fgSendMutex \in Sender \cup {Nobody, Main}
  /\ device_mutex \in [Port -> Opener \cup {Nobody}]
  /\ request_mutex \in [Port -> Sender \cup {Nobody}]
  /\ mailbox \in [Port -> [state : {"idle", "pending", "acked", "canceled"},
                           link : 0..MaxLinks]]
  /\ device \in [Port -> 0..MaxLinks]
  /\ ctl \in {"down", "allocate", "handshake", "complete", "up", "unclaim",
              "drain", "detach", "reset", "free", "forget"}
  /\ todo \subseteq Port /\ at \in Port \cup {Nobody} /\ live \subseteq Links
  /\ rpc \in [Receiver -> {"out", "in", "leave"}]
  /\ pc \in [Sender -> {"out", "device", "request", "attempt", "send", "sending",
                        "wait", "finish", "configure"}]
  /\ call \in [Sender -> Locals]

\* A thread inside raspike_prot_receive reads from a descriptor and writes to a
\* status block that are those of the same open link: shutdown neither detaches,
\* closes nor frees them under it.
ReceiverHasLink ==
  \A r \in Receiver : rpc[r] # "out" =>
    fgDesc \in live /\ fgStatus = fgDesc /\ fgSessionId = fgDesc

\* A frame is written to an open link only: send_frame's check of fgDesc and the
\* write it allows are not separated by the close.
SenderHasLink ==
  \A c \in Sender : pc[c] = "sending" => call[c].sentOn \in live

\* Nobody is left waiting for an answer over a link that is closed: the requests
\* that are on their way when the link is detached are cancelled before it is
\* closed, and none comes after them.
NoWaitOnClosedLink ==
  \A c \in Sender : pc[c] = "wait" /\ Waiting(c) => call[c].sentOn \in live

\* While a link is up, a device that counts as configured was configured over
\* this link, not over one before it.
DeviceOfThisLink ==
  ctl = "up" => \A p \in Port : device[p] \in {0, fgDesc}

\* raspike_prot_shutdown returns: "Shut down the system."
ShutdownReturns == ctl = "drain" ~> ctl = "down"

\* Shutdown waits for the device_mutex of a thread in GET_DEVICE_COMMON, and that
\* thread, or the one it awaits the request_mutex from, for the fgSendMutex
\* shutdown holds.
MetGetDevice ==
  /\ ctl = "reset" /\ at # Nobody
  /\ \E c \in Opener, d \in Sender :
       /\ device_mutex[at] = c /\ pc[c] \in {"request", "send"}
       /\ request_mutex[at] = d /\ pc[d] = "send"

\* That deadlock is the only thing that keeps shutdown from returning: neither
\* receivers, nor requests, nor their waits do.
OnlyGetDeviceStopsShutdown == ctl = "drain" ~> ctl = "down" \/ MetGetDevice

\* Whoever takes a port gives it back, whatever the hub, the link, the receivers and
\* Main do, short of that deadlock: a request makes two timed attempts at most.
PortReleased ==
  \A c \in Sender : request_mutex[call[c].port] = c
                    ~> request_mutex[call[c].port] # c \/ MetGetDevice
=============================================================================

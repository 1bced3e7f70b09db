---------------------------- MODULE RaspikeDevice ----------------------------
(***************************************************************************)
(* The device cache: one entry per port, filled by GET_DEVICE_COMMON when  *)
(* the hub has agreed to configure the port, returned from then on without *)
(* asking the hub, and wiped by reset_port_state(error, 1) when the link   *)
(* is closed and opened again.  What an application holds is a pointer to  *)
(* the entry.                                                              *)
(*                                                                         *)
(* The acknowledged request is taken here by what RaspikeRequest promises  *)
(* of it (AnswerIsOurs): an answer is the hub's to this request, given in  *)
(* the session the host is in when the call returns.  Closing the link is  *)
(* taken from RaspikeLifecycle.  The hub forgets its ports when it         *)
(* restarts, and begins a session then.                                    *)
(***************************************************************************)
EXTENDS Integers

CONSTANTS
  User,             \* application threads
  Port,             \* sensor and motor ports
  PortA,            \* port number 0
  DeviceType,       \* fgDeviceType of the source files that get devices
  NoType, NoPort, Nobody,
  MaxGets,          \* bound: calls of pup_*_get_device
  MaxSession,       \* bound: sessions of the hub
  MaxLinks          \* bound: times the link is opened

ASSUME DeviceAssumption ==
  /\ PortA \in Port /\ NoPort \notin Port
  /\ NoType \notin DeviceType /\ Nobody \notin User
  /\ MaxGets \in Nat /\ MaxSession \in Nat \ {0} /\ MaxLinks \in Nat \ {0}

VARIABLES
  device,        \* the entries
  device_mutex,  \* who is asking the hub to configure a port
  pc, get,       \* where each user is; the locals of its pup_*_get_device
  handle,        \* what its last pup_*_get_device returned
  gets,          \* bound: calls so far
  open, todo,    \* is the link open; the ports still to be wiped
  links, opened, \* history: times the link was opened, the session it was opened in
  fgSessionId,   \* the session the host is in
  hubSession,    \* the session of the hub
  configured,    \* what the hub takes each port for
  orders         \* history: the commands that reached a hub in this session

users == <<pc, get, handle, gets>>
cache == <<device, device_mutex>>
host  == <<open, todo, links, opened, fgSessionId>>
hub   == <<hubSession, configured>>
vars  == <<users, cache, host, hub, orders>>

Types   == DeviceType \cup {NoType}
Entries == [device_type : Types, port_id : Port]

\* An entry after memset: type 0, and port number 0.
Wiped == [device_type |-> NoType, port_id |-> PortA]

\* session: the session in which the hub agreed (0: it has not).
Locals  == [port : Port, type : DeviceType, session : 0..MaxSession]

\* A pointer to the entry of a port, for use as a device of a type; link is
\* history, the opening of the link it was got under.
Handles == [port : Port \cup {NoPort}, type : DeviceType, link : 0..MaxLinks]

\* A command meant for a port, where it went, what the hub took that port for, and
\* whether the pointer was got since the link was opened, in a session that goes on.
Orders  == [meant : Port, port : Port, type : DeviceType, found : Types, fresh : BOOLEAN]

Init ==
  /\ device = [p \in Port |-> Wiped]
  /\ device_mutex = [p \in Port |-> Nobody]
  /\ pc = [u \in User |-> "idle"]
  /\ \E t \in DeviceType :
       /\ get = [u \in User |-> [port |-> PortA, type |-> t, session |-> 0]]
       /\ handle = [u \in User |-> [port |-> NoPort, type |-> t, link |-> 0]]
  /\ gets = 0
  /\ open = TRUE /\ todo = {} /\ links = 1 /\ opened = 1
  /\ fgSessionId = 1 /\ hubSession = 1
  /\ configured = [p \in Port |-> NoType]
  /\ orders = {}

-----------------------------------------------------------------------------
(* GET_DEVICE_COMMON *)

GetDevice(u, p, t) ==
  /\ pc[u] = "idle" /\ gets < MaxGets
  /\ gets' = gets + 1
  /\ get' = [get EXCEPT ![u] = [port |-> p, type |-> t, session |-> 0]]
  /\ pc' = [pc EXCEPT ![u] = "lock"]
  /\ UNCHANGED <<handle, cache, host, hub, orders>>

Return(u, p) ==
  /\ handle' = [handle EXCEPT ![u] = [port |-> p, type |-> get[u].type, link |-> links]]
  /\ pc' = [pc EXCEPT ![u] = "idle"]

\* Mutant: an entry of any type will do.
ReturnCachedOfAnyType(u) ==
  /\ pc[u] = "lock" /\ device_mutex[get[u].port] = Nobody
  /\ device[get[u].port].device_type # NoType
  /\ Return(u, get[u].port)
  /\ UNCHANGED <<get, gets, cache, host, hub, orders>>

\* The entry is of the type asked for: no question to the hub.
ReturnCached(u) ==
  /\ pc[u] = "lock" /\ device_mutex[get[u].port] = Nobody
  /\ device[get[u].port].device_type = get[u].type
  /\ Return(u, get[u].port)
  /\ UNCHANGED <<get, gets, cache, host, hub, orders>>

\* It is of another: NULL.
ReturnConflict(u) ==
  /\ pc[u] = "lock" /\ device_mutex[get[u].port] = Nobody
  /\ device[get[u].port].device_type \notin {NoType, get[u].type}
  /\ Return(u, NoPort)
  /\ UNCHANGED <<get, gets, cache, host, hub, orders>>

\* Mutant: the entry is looked at without device_mutex.
AskHubUnguarded(u) ==
  /\ pc[u] = "lock"
  /\ device[get[u].port].device_type = NoType
  /\ device_mutex' = [device_mutex EXCEPT ![get[u].port] = u]
  /\ pc' = [pc EXCEPT ![u] = "ask"]
  /\ UNCHANGED <<get, handle, gets, device, host, hub, orders>>

\* It is empty: device_mutex is held while the hub is asked.
AskHub(u) ==
  /\ pc[u] = "lock" /\ device_mutex[get[u].port] = Nobody
  /\ device[get[u].port].device_type = NoType
  /\ device_mutex' = [device_mutex EXCEPT ![get[u].port] = u]
  /\ pc' = [pc EXCEPT ![u] = "ask"]
  /\ UNCHANGED <<get, handle, gets, device, host, hub, orders>>

\* The hub executes requests of its own session, a repeated one more than once.
HubConfigures(u) ==
  /\ pc[u] = "ask" /\ open /\ fgSessionId = hubSession
  /\ configured' = [configured EXCEPT ![get[u].port] = get[u].type]
  /\ get' = [get EXCEPT ![u].session = hubSession]
  /\ UNCHANGED <<pc, handle, gets, cache, host, hubSession, orders>>

\* Mutant: a failed request is taken for an agreement.
GrantedAlways(u) ==
  /\ pc[u] = "ask"
  /\ pc' = [pc EXCEPT ![u] = "store"]
  /\ UNCHANGED <<get, handle, gets, cache, host, hub, orders>>

\* raspike_request returns 1 ...
Granted(u) ==
  /\ pc[u] = "ask" /\ get[u].session = fgSessionId
  /\ pc' = [pc EXCEPT ![u] = "store"]
  /\ UNCHANGED <<get, handle, gets, cache, host, hub, orders>>

\* ... and then, whatever happened to the session meanwhile, the entry is written.
StoreDevice(u) ==
  /\ pc[u] = "store"
  /\ device' = [device EXCEPT ![get[u].port] =
                  [device_type |-> get[u].type, port_id |-> get[u].port]]
  /\ device_mutex' = [device_mutex EXCEPT ![get[u].port] = Nobody]
  /\ Return(u, get[u].port)
  /\ UNCHANGED <<get, gets, host, hub, orders>>

\* It returned anything else: NULL.
GetFails(u) ==
  /\ pc[u] = "ask"
  /\ device_mutex' = [device_mutex EXCEPT ![get[u].port] = Nobody]
  /\ Return(u, NoPort)
  /\ UNCHANGED <<get, gets, device, host, hub, orders>>

\* pup_motor_stop and its like: the frame is addressed by the port_id of the entry
\* the pointer points to; a hub in another session drops it.
Command(u) ==
  /\ pc[u] = "idle" /\ handle[u].port # NoPort
  /\ open /\ fgSessionId = hubSession
  /\ LET to == device[handle[u].port].port_id IN
       orders' = orders \cup {[meant |-> handle[u].port, port |-> to,
                               type |-> handle[u].type, found |-> configured[to],
                               fresh |-> handle[u].link = links /\ opened = fgSessionId]}
  /\ UNCHANGED <<users, cache, host, hub>>

-----------------------------------------------------------------------------
(* The link and the hub. *)

HubRestart ==
  /\ hubSession < MaxSession
  /\ hubSession' = hubSession + 1
  /\ configured' = [p \in Port |-> NoType]
  /\ UNCHANGED <<users, cache, host, orders>>

\* process_hello_payload changes the session and keeps the devices.
ReceiveHello ==
  /\ open /\ fgSessionId # hubSession
  /\ fgSessionId' = hubSession
  /\ UNCHANGED <<users, cache, open, todo, links, opened, hub, orders>>

\* raspike_prot_shutdown, as far as devices are concerned.
Shutdown ==
  /\ open
  /\ open' = FALSE /\ todo' = Port
  /\ UNCHANGED <<users, cache, links, opened, fgSessionId, hub, orders>>

WipeDevice(p) ==
  /\ p \in todo /\ device_mutex[p] = Nobody
  /\ device' = [device EXCEPT ![p] = Wiped]
  /\ todo' = todo \ {p}
  /\ UNCHANGED <<users, device_mutex, open, links, opened, fgSessionId, hub,
                 orders>>

\* Mutant: the session of the HELLO is not taken.
ReopenWithoutSession ==
  /\ ~open /\ todo = {} /\ links < MaxLinks
  /\ \A p \in Port : device_mutex[p] = Nobody
  /\ device' = [p \in Port |-> Wiped]
  /\ open' = TRUE /\ links' = links + 1 /\ opened' = hubSession
  /\ fgSessionId' = 0
  /\ UNCHANGED <<users, device_mutex, todo, hub, orders>>

\* raspike_prot_init, once shutdown has returned; it wipes the entries again.
Reopen ==
  /\ ~open /\ todo = {} /\ links < MaxLinks
  /\ \A p \in Port : device_mutex[p] = Nobody
  /\ device' = [p \in Port |-> Wiped]
  /\ open' = TRUE /\ links' = links + 1 /\ opened' = hubSession
  /\ fgSessionId' = hubSession
  /\ UNCHANGED <<users, device_mutex, todo, hub, orders>>

Next ==
  \/ \E u \in User :
       \/ \E p \in Port, t \in DeviceType : GetDevice(u, p, t)
       \/ ReturnCached(u) \/ ReturnConflict(u) \/ AskHub(u)
       \/ HubConfigures(u) \/ Granted(u) \/ StoreDevice(u) \/ GetFails(u)
       \/ Command(u)
  \/ HubRestart \/ ReceiveHello \/ Shutdown \/ Reopen
  \/ \E p \in Port : WipeDevice(p)

Spec == Init /\ [][Next]_vars

-----------------------------------------------------------------------------
(* Properties. *)

\* Every variable has its type. (All of RPPortDevice and the locals of the macro.)
TypeOK ==
  /\ device \in [Port -> Entries]
  /\ device_mutex \in [Port -> User \cup {Nobody}]
  /\ pc \in [User -> {"idle", "lock", "ask", "store"}]
  /\ get \in [User -> Locals] /\ handle \in [User -> Handles]
  /\ gets \in 0..MaxGets
  /\ open \in BOOLEAN /\ todo \subseteq Port /\ links \in 1..MaxLinks
  /\ opened \in 1..MaxSession
  /\ fgSessionId \in 1..MaxSession /\ hubSession \in 1..MaxSession
  /\ configured \in [Port -> Types]
  /\ orders \subseteq Orders

\* Two users whose pointers to one port come from the same opening of the link agree
\* on what is attached there. (Looking at the entry, asking the hub and writing the
\* entry are one critical section of device_mutex.)
OneTypePerPort == \A u, v \in User :
  (handle[u].port = handle[v].port /\ handle[u].port # NoPort
     /\ handle[u].link = handle[v].link) => handle[u].type = handle[v].type

Gets(u) == pc[u] # "idle" /\ pc'[u] = "idle" /\ handle'[u].port # NoPort

\* When pup_*_get_device returns a pointer, over an open link whose hub has not
\* restarted since, the hub has the port configured for that device. (An entry is
\* written after the hub agreed, and is there only as long as the link.)
GotDeviceIsConfigured == [][\A u \in User :
  Gets(u) /\ open /\ hubSession = opened
  => configured[handle'[u].port] = handle'[u].type]_vars

\* The same in whatever session the host and the hub are in. (motor.h: "If it fails,
\* it outputs an error log and returns NULL.")
GotDeviceIsUsable == [][\A u \in User :
  Gets(u) /\ open /\ hubSession = fgSessionId
  => configured[handle'[u].port] = handle'[u].type]_vars

\* A command given through a pointer that was got since the link was opened goes to
\* the port it was got for, and finds it configured for that device, unless the hub has
\* restarted. (Shutdown and init wipe the entries, so a port is never taken for what it
\* was before.)
FreshCommandFindsDevice == \A o \in orders :
  o.fresh => o.port = o.meant /\ o.found = o.type
=============================================================================

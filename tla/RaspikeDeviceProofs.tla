------------------------- MODULE RaspikeDeviceProofs -------------------------
(***************************************************************************)
(* Proofs about RaspikeDevice, for any users, ports, types of device and   *)
(* bounds.  Inductive is the conjunction of the named parts below;         *)
(* OneTypePerPort and FreshCommandFindsDevice are conjuncts of it, and     *)
(* GotDeviceIsConfigured follows from it for every step.                   *)
(***************************************************************************)
EXTENDS RaspikeDevice, TLAPS

Asking(u) == pc[u] \in {"ask", "store"}

\* The entry of a port has been wiped by shutdown, and the link is not open again.
Gone(p) == ~open /\ p \notin todo

\* Who asks the hub holds the device_mutex of the port, and its entry is empty.
HoldsDevice == \A u \in User :
  Asking(u) => /\ device_mutex[get[u].port] = u
               /\ device[get[u].port].device_type = NoType

\* Before the hub is asked it has not agreed; and it does not agree over a closed link.
NotYetAgreed == \A u \in User :
  /\ pc[u] = "lock" => get[u].session = 0
  /\ Asking(u) /\ Gone(get[u].port) => pc[u] = "ask" /\ get[u].session = 0

\* An entry that is in use has the number of its port; a wiped one stays empty.
Entered == \A p \in Port :
  /\ device[p].device_type # NoType => device[p].port_id = p
  /\ Gone(p) => device[p].device_type = NoType

\* A pointer that was got since the link was opened agrees with the entry, until it is wiped.
HandleAgrees == \A u \in User :
  /\ handle[u].link <= links
  /\ handle[u].port # NoPort /\ handle[u].link = links =>
       device[handle[u].port].device_type = handle[u].type \/ Gone(handle[u].port)

\* The sessions of the link in their order.
Ordered ==
  /\ open => todo = {}
  /\ open => opened <= fgSessionId /\ fgSessionId <= hubSession

\* Until the hub restarts, it has each port configured for what the entry says, and for
\* what it has agreed to.
Configured == open /\ opened = hubSession =>
  /\ \A p \in Port : device[p].device_type # NoType => configured[p] = device[p].device_type
  /\ \A u \in User : pc[u] = "store" \/ (pc[u] = "ask" /\ get[u].session = hubSession) =>
       configured[get[u].port] = get[u].type

Inductive ==
  /\ TypeOK
  /\ HoldsDevice /\ NotYetAgreed /\ Entered /\ HandleAgrees /\ Ordered /\ Configured
  /\ OneTypePerPort /\ FreshCommandFindsDevice

-----------------------------------------------------------------------------
(* Types. *)

\* What the types say of one user, one port.
LEMMA TypesOfOne ==
  ASSUME TypeOK
  PROVE  /\ \A u \in User : /\ get[u].port \in Port /\ get[u].type \in DeviceType
                            /\ get[u].session \in 0..MaxSession /\ get[u] \in Locals
                            /\ handle[u].port \in Port \cup {NoPort}
                            /\ handle[u].type \in DeviceType /\ handle[u].link \in 0..MaxLinks
         /\ \A p \in Port : device[p].device_type \in Types /\ device[p].port_id \in Port
         /\ pc \in [User -> {"idle", "lock", "ask", "store"}]
         /\ get \in [User -> Locals] /\ handle \in [User -> Handles]
         /\ device \in [Port -> Entries] /\ device_mutex \in [Port -> User \cup {Nobody}]
         /\ configured \in [Port -> Types]
         /\ MaxSession \in Nat \ {0} /\ MaxLinks \in Nat \ {0} /\ MaxGets \in Nat
         /\ gets \in Nat /\ links \in Nat \ {0} /\ opened \in Nat \ {0}
         /\ fgSessionId \in Nat \ {0} /\ hubSession \in Nat \ {0}
         /\ NoType \notin DeviceType /\ NoPort \notin Port /\ Nobody \notin User
         /\ open \in BOOLEAN
BY DeviceAssumption DEF TypeOK, Locals, Handles, Entries

\* A link that has just been opened, with every entry empty, satisfies the invariant.
LEMMA InitInductive == Init => Inductive
<1> SUFFICES ASSUME Init PROVE Inductive
  OBVIOUS
<1>1. TypeOK
  <2>1. PICK t \in DeviceType :
          /\ get = [u \in User |-> [port |-> PortA, type |-> t, session |-> 0]]
          /\ handle = [u \in User |-> [port |-> NoPort, type |-> t, link |-> 0]]
    BY DEF Init
  <2>2. Wiped \in Entries
    BY DeviceAssumption DEF Wiped, Entries, Types
  <2>3. get \in [User -> Locals] /\ handle \in [User -> Handles]
    BY <2>1, DeviceAssumption DEF Locals, Handles
  <2> QED
    BY <2>2, <2>3, DeviceAssumption DEF Init, TypeOK, Types
<1>2. HoldsDevice /\ NotYetAgreed /\ Ordered /\ FreshCommandFindsDevice
  BY DEF Init, HoldsDevice, NotYetAgreed, Ordered, FreshCommandFindsDevice, Asking, Gone
<1>3. Entered /\ Configured
  BY DEF Init, Entered, Configured, Wiped, Gone
<1>4. HandleAgrees /\ OneTypePerPort
  BY DEF Init, HandleAgrees, OneTypePerPort
<1> QED
  BY <1>1, <1>2, <1>3, <1>4 DEF Inductive

\* Every step of users, link and hub keeps the types.
LEMMA StepTyped == TypeOK /\ [Next]_vars => TypeOK'
<1> SUFFICES ASSUME TypeOK, [Next]_vars PROVE TypeOK'
  OBVIOUS
<1> USE DeviceAssumption
<1> USE DEF TypeOK, users, cache, host, hub
<1>0. Wiped \in Entries
  BY DEF Wiped, Entries, Types
<1>1. ASSUME NEW u \in User, NEW p \in Port \cup {NoPort}, Return(u, p)
      PROVE  /\ handle' \in [User -> Handles]
             /\ pc' \in [User -> {"idle", "lock", "ask", "store"}]
  <2>1. [port |-> p, type |-> get[u].type, link |-> links] \in Handles
    BY TypesOfOne DEF Handles
  <2> QED
    BY <1>1, <2>1 DEF Return
<1>2. ASSUME NEW u \in User, NEW p \in Port, NEW t \in DeviceType, GetDevice(u, p, t)
      PROVE  TypeOK'
  <2>1. [port |-> p, type |-> t, session |-> 0] \in Locals
    BY DEF Locals
  <2> QED
    BY <1>2, <2>1 DEF GetDevice
<1>3. ASSUME NEW u \in User, ReturnCached(u) \/ ReturnConflict(u) PROVE TypeOK'
  BY <1>1, <1>3, TypesOfOne DEF ReturnCached, ReturnConflict
<1>4. ASSUME NEW u \in User, AskHub(u) PROVE TypeOK'
  BY <1>4, TypesOfOne DEF AskHub
<1>5. ASSUME NEW u \in User, HubConfigures(u) PROVE TypeOK'
  <2>1. [get[u] EXCEPT !.session = hubSession] \in Locals
    BY TypesOfOne DEF Locals
  <2>2. configured' \in [Port -> Types]
    BY <1>5, TypesOfOne DEF HubConfigures, Types
  <2> QED
    BY <1>5, <2>1, <2>2 DEF HubConfigures
<1>6. ASSUME NEW u \in User, Granted(u) PROVE TypeOK'
  BY <1>6 DEF Granted
<1>7. ASSUME NEW u \in User, StoreDevice(u) PROVE TypeOK'
  <2>1. [device_type |-> get[u].type, port_id |-> get[u].port] \in Entries
    BY TypesOfOne DEF Entries, Types
  <2>2. get[u].port \in Port
    BY TypesOfOne
  <2> QED
    BY <1>1, <1>7, <2>1, <2>2 DEF StoreDevice
<1>8. ASSUME NEW u \in User, GetFails(u) PROVE TypeOK'
  BY <1>1, <1>8, TypesOfOne DEF GetFails
<1>9. ASSUME NEW u \in User, Command(u) PROVE TypeOK'
  <2> DEFINE to == device[handle[u].port].port_id
             o == [meant |-> handle[u].port, port |-> to,
                   type |-> handle[u].type, found |-> configured[to],
                   fresh |-> handle[u].link = links /\ opened = fgSessionId]
  <2>1. handle[u].port \in Port
    BY <1>9, TypesOfOne DEF Command
  <2>2. to \in Port
    BY <2>1, TypesOfOne
  <2>3. o \in Orders
    BY <2>1, <2>2, TypesOfOne DEF Orders
  <2>4. orders' = orders \cup {o}
    BY <1>9 DEF Command
  <2> HIDE DEF o
  <2> QED
    BY <1>9, <2>3, <2>4 DEF Command
<1>10. CASE HubRestart
  BY <1>10, TypesOfOne DEF HubRestart, Types
<1>11. CASE ReceiveHello \/ Shutdown
  BY <1>11 DEF ReceiveHello, Shutdown
<1>12. CASE Reopen
  BY <1>0, <1>12, TypesOfOne DEF Reopen
<1>13. ASSUME NEW p \in Port, WipeDevice(p) PROVE TypeOK'
  BY <1>0, <1>13 DEF WipeDevice
<1>14. CASE UNCHANGED vars
  BY <1>14 DEF vars
<1> QED
  BY <1>2, <1>3, <1>4, <1>5, <1>6, <1>7, <1>8, <1>9, <1>10, <1>11, <1>12, <1>13, <1>14
  DEF Next

-----------------------------------------------------------------------------
(* The steps of one user, and the others. *)

Moves(u) ==
  \/ \E p \in Port, t \in DeviceType : GetDevice(u, p, t)
  \/ ReturnCached(u) \/ ReturnConflict(u) \/ AskHub(u)
  \/ HubConfigures(u) \/ Granted(u) \/ StoreDevice(u) \/ GetFails(u)

\* What a step inside pup_*_get_device changes of the users.
LEMMA OneUserMoves ==
  ASSUME TypeOK, NEW u \in User, Moves(u)
  PROVE  /\ \A v \in User \ {u} : pc'[v] = pc[v] /\ get'[v] = get[v] /\ handle'[v] = handle[v]
         /\ UNCHANGED host
BY TypesOfOne DEF Moves, GetDevice, ReturnCached, ReturnConflict, AskHub, HubConfigures,
   Granted, StoreDevice, GetFails, Return, users, host

\* The session a request was answered in is all a step inside the request changes of it.
LEMMA GetKept ==
  ASSUME TypeOK, NEW u \in User, Moves(u), pc[u] # "idle"
  PROVE  /\ get'[u].port = get[u].port /\ get'[u].type = get[u].type
         /\ get'[u].session = IF HubConfigures(u) THEN hubSession ELSE get[u].session
<1>1. get[u] \in Locals /\ get \in [User -> Locals]
  BY TypesOfOne
<1>2. CASE HubConfigures(u)
  BY <1>1, <1>2 DEF HubConfigures, Locals
<1>3. CASE ~HubConfigures(u)
  <2>1. get' = get
    BY <1>3 DEF Moves, GetDevice, ReturnCached, ReturnConflict, AskHub, Granted,
       StoreDevice, GetFails
  <2> QED
    BY <1>3, <2>1
<1> QED
  BY <1>2, <1>3

\* A user asks the hub from AskHub on, until its entry is written or the request has failed.
LEMMA WhoAsks ==
  ASSUME TypeOK, NEW u \in User, Moves(u)
  PROVE  /\ Asking(u)' => /\ AskHub(u) \/ HubConfigures(u) \/ Granted(u)
                          /\ pc[u] # "idle"
         /\ AskHub(u) => pc[u] = "lock" /\ pc'[u] = "ask"
         /\ HubConfigures(u) => pc[u] = "ask" /\ pc'[u] = "ask"
         /\ Granted(u) => pc[u] = "ask" /\ pc'[u] = "store"
         /\ pc'[u] = "lock" => \E p \in Port, t \in DeviceType : GetDevice(u, p, t)
BY TypesOfOne DEF Moves, GetDevice, ReturnCached, ReturnConflict, AskHub, HubConfigures,
   Granted, StoreDevice, GetFails, Return, users, Asking

\* What the link, the hub and the commands leave to the users.
Around == \/ \E u \in User : Command(u)
          \/ HubRestart \/ ReceiveHello \/ Shutdown \/ Reopen
          \/ \E p \in Port : WipeDevice(p)
          \/ UNCHANGED vars

\* The link, the hub and shutdown leave the threads in GET_DEVICE_COMMON where they are.
LEMMA AroundUsers == Around => UNCHANGED <<users, device_mutex>>
BY DEF Around, Command, HubRestart, ReceiveHello, Shutdown, Reopen, WipeDevice, users,
       cache, vars

\* Every step is one of a thread's or one of what is around it.
LEMMA NextSplits == [Next]_vars => Around \/ \E u \in User : Moves(u)
BY DEF Next, Around, Moves

-----------------------------------------------------------------------------
(* Every step keeps the conjuncts. *)

\* One user at a time asks for a port, and writes the entry it found empty.
LEMMA StepHoldsDevice == TypeOK /\ HoldsDevice /\ [Next]_vars => HoldsDevice'
<1> SUFFICES ASSUME TypeOK, HoldsDevice, [Next]_vars, NEW v \in User, Asking(v)'
             PROVE  /\ device_mutex'[get'[v].port] = v
                    /\ device'[get'[v].port].device_type = NoType
  BY DEF HoldsDevice
<1> USE TypesOfOne
<1> DEFINE q == get[v].port
<1>1. ASSUME NEW u \in User, Moves(u)
      PROVE  device_mutex'[get'[v].port] = v /\ device'[get'[v].port].device_type = NoType
  <2>1. CASE u = v /\ AskHub(v)
    BY <1>1, <2>1, GetKept, WhoAsks DEF AskHub
  <2>2. CASE u = v /\ (HubConfigures(v) \/ Granted(v))
    <3>1. get'[v].port = q /\ Asking(v) /\ UNCHANGED <<device, device_mutex>>
      BY <1>1, <2>2, GetKept, WhoAsks DEF Asking, HubConfigures, Granted, cache
    <3> QED
      BY <3>1 DEF HoldsDevice
  <2>3. CASE u # v
    <3>1. get'[v] = get[v] /\ Asking(v)
      BY <1>1, <2>3, OneUserMoves DEF Asking
    <3>2. device_mutex[q] = v /\ device[q].device_type = NoType
      BY <3>1 DEF HoldsDevice
    <3>3. CASE AskHub(u)
      BY <3>1, <3>2, <3>3 DEF AskHub
    <3>4. CASE StoreDevice(u) \/ GetFails(u)
      <4>1. get[u].port # q
        BY <2>3, <3>2, <3>4 DEF StoreDevice, GetFails, HoldsDevice, Asking
      <4> QED
        BY <3>1, <3>2, <3>4, <4>1 DEF StoreDevice, GetFails
    <3>5. CASE UNCHANGED cache
      BY <3>1, <3>2, <3>5 DEF cache
    <3> QED
      BY <1>1, <3>3, <3>4, <3>5 DEF Moves, GetDevice, ReturnCached, ReturnConflict,
         HubConfigures, Granted
  <2> QED
    BY <1>1, <2>1, <2>2, <2>3, WhoAsks
<1>2. CASE Around
  <2>1. UNCHANGED <<pc, get, device_mutex>>
    BY <1>2, AroundUsers DEF users
  <2>2. device_mutex[q] = v /\ device[q].device_type = NoType
    BY <2>1 DEF HoldsDevice, Asking
  <2>3. CASE Reopen
    BY <2>1, <2>2, <2>3 DEF Reopen, Wiped
  <2>4. ASSUME NEW p \in Port, WipeDevice(p) PROVE device'[q].device_type = NoType
    BY <2>2, <2>4 DEF WipeDevice, Wiped
  <2>5. CASE device' = device
    BY <2>1, <2>2, <2>5
  <2> QED
    BY <1>2, <2>1, <2>2, <2>3, <2>4, <2>5 DEF Around, Command, HubRestart, ReceiveHello,
       Shutdown, cache, vars
<1> QED
  BY <1>1, <1>2, NextSplits

\* No agreement is left from before: a request over a closed link fails.
LEMMA StepNotYetAgreed ==
  TypeOK /\ HoldsDevice /\ NotYetAgreed /\ [Next]_vars => NotYetAgreed'
<1> SUFFICES ASSUME TypeOK, HoldsDevice, NotYetAgreed, [Next]_vars, NEW v \in User
             PROVE  /\ pc'[v] = "lock" => get'[v].session = 0
                    /\ Asking(v)' /\ Gone(get[v].port)' => pc'[v] = "ask" /\ get'[v].session = 0
  BY DEF NotYetAgreed
<1> USE TypesOfOne
<1>a. /\ pc[v] = "lock" => get[v].session = 0
      /\ Asking(v) /\ Gone(get[v].port) => pc[v] = "ask" /\ get[v].session = 0
  BY DEF NotYetAgreed
<1> DEFINE Good == /\ pc'[v] = "lock" => get'[v].session = 0
                   /\ Asking(v)' /\ Gone(get[v].port)' => pc'[v] = "ask" /\ get'[v].session = 0
<1>1. ASSUME NEW u \in User, Moves(u) PROVE Good
  <2>1. UNCHANGED <<open, todo, fgSessionId>>
    BY <1>1, OneUserMoves DEF host
  <2>2. CASE u # v
    BY <1>1, <1>a, <2>1, <2>2, OneUserMoves DEF Asking, Gone
  <2>3. CASE u = v /\ \E p \in Port, t \in DeviceType : GetDevice(v, p, t)
    BY <2>3 DEF GetDevice, Asking
  <2>4. CASE u = v /\ AskHub(v)
    BY <1>1, <1>a, <2>4, GetKept, WhoAsks DEF AskHub
  <2>5. CASE u = v /\ HubConfigures(v)
    BY <1>1, <2>1, <2>5, WhoAsks DEF HubConfigures, Gone
  <2>6. CASE u = v /\ Granted(v)
    BY <1>1, <1>a, <2>1, <2>6, GetKept, WhoAsks DEF Granted, Gone, Asking
  <2> QED
    BY <1>1, <2>2, <2>3, <2>4, <2>5, <2>6, WhoAsks
<1>2. CASE Around
  <2>1. UNCHANGED <<pc, get, device_mutex>>
    BY <1>2, AroundUsers DEF users
  <2>2. CASE Shutdown \/ Reopen
    BY <1>a, <2>1, <2>2 DEF Shutdown, Reopen, Gone, Asking
  <2>3. ASSUME NEW p \in Port, WipeDevice(p) PROVE Good
    <3>1. Asking(v) => get[v].port # p
      BY <2>3 DEF WipeDevice, HoldsDevice
    <3> QED
      BY <1>a, <2>1, <2>3, <3>1 DEF WipeDevice, Gone, Asking
  <2>4. CASE UNCHANGED <<open, todo>>
    BY <1>a, <2>1, <2>4 DEF Gone, Asking
  <2> QED
    BY <1>2, <2>2, <2>3, <2>4 DEF Around, Command, HubRestart, ReceiveHello, host, vars
<1> QED
  BY <1>1, <1>2, NextSplits

\* What a step does to the entries: one is written by its user, or wiped, or all are.
LEMMA EntriesChange ==
  ASSUME TypeOK, [Next]_vars
  PROVE  \/ device' = device
         \/ \E u \in User : StoreDevice(u)
         \/ \E p \in Port : WipeDevice(p)
         \/ Reopen
BY DEF Next, GetDevice, ReturnCached, ReturnConflict, AskHub, HubConfigures, Granted,
       GetFails, Command, HubRestart, ReceiveHello, Shutdown, cache, vars

\* What a step does to the link.
LEMMA LinkChanges ==
  ASSUME TypeOK, [Next]_vars
  PROVE  UNCHANGED host \/ ReceiveHello \/ Shutdown \/ Reopen \/ \E p \in Port : WipeDevice(p)
BY DEF Next, GetDevice, ReturnCached, ReturnConflict, AskHub, HubConfigures, Granted,
       StoreDevice, GetFails, Command, HubRestart, vars

\* The link knows no session the hub has not begun.
LEMMA StepOrdered == TypeOK /\ Ordered /\ [Next]_vars => Ordered'
<1> SUFFICES ASSUME TypeOK, Ordered, [Next]_vars PROVE Ordered'
  OBVIOUS
<1> USE TypesOfOne DEF Ordered
<1>1. hubSession' = hubSession \/ HubRestart
  BY DEF Next, GetDevice, ReturnCached, ReturnConflict, AskHub, HubConfigures, Granted,
     StoreDevice, GetFails, Command, ReceiveHello, Shutdown, Reopen, WipeDevice, hub, vars
<1>2. CASE HubRestart
  <2>1. hubSession' = hubSession + 1 /\ UNCHANGED <<open, opened, fgSessionId, todo>>
    BY <1>2 DEF HubRestart, host
  <2>2. open => opened <= fgSessionId /\ fgSessionId <= hubSession + 1
    OBVIOUS
  <2> QED
    BY <2>1, <2>2
<1>3. CASE hubSession' = hubSession /\ UNCHANGED host
  BY <1>3 DEF host
<1>4. CASE ReceiveHello \/ Shutdown \/ Reopen
  BY <1>4 DEF ReceiveHello, Shutdown, Reopen, hub
<1>5. ASSUME NEW p \in Port, WipeDevice(p) PROVE Ordered'
  BY <1>5 DEF WipeDevice
<1> QED
  BY <1>1, <1>2, <1>3, <1>4, <1>5, LinkChanges

\* An entry is written whole, and not over a closed link that was wiped.
LEMMA StepEntered ==
  TypeOK /\ NotYetAgreed /\ Entered /\ Ordered /\ [Next]_vars => Entered'
<1> SUFFICES ASSUME TypeOK, NotYetAgreed, Entered, Ordered, [Next]_vars, NEW p \in Port
             PROVE  /\ device'[p].device_type # NoType => device'[p].port_id = p
                    /\ Gone(p)' => device'[p].device_type = NoType
  BY DEF Entered
<1> USE TypesOfOne
<1>a. /\ device[p].device_type # NoType => device[p].port_id = p
      /\ Gone(p) => device[p].device_type = NoType
  BY DEF Entered
<1> DEFINE Good == /\ device'[p].device_type # NoType => device'[p].port_id = p
                   /\ Gone(p)' => device'[p].device_type = NoType
<1>1. ASSUME NEW u \in User, StoreDevice(u) PROVE Good
  <2>1. UNCHANGED <<open, todo>>
    BY <1>1 DEF StoreDevice, host
  <2>2. ~Gone(get[u].port)
    BY <1>1 DEF StoreDevice, NotYetAgreed, Asking
  <2> QED
    BY <1>1, <1>a, <2>1, <2>2 DEF StoreDevice, Gone
<1>2. ASSUME NEW q \in Port, WipeDevice(q) PROVE Good
  BY <1>2, <1>a DEF WipeDevice, Wiped, Gone
<1>3. CASE Reopen
  BY <1>3 DEF Reopen, Wiped, Gone
<1>4. CASE device' = device
  <2>1. CASE Shutdown
    BY <1>4, <1>a, <2>1 DEF Shutdown, Gone
  <2>2. CASE UNCHANGED host \/ ReceiveHello
    BY <1>4, <1>a, <2>2 DEF host, ReceiveHello, Gone
  <2> QED
    BY <1>2, <1>3, <2>1, <2>2, LinkChanges
<1> QED
  BY <1>1, <1>2, <1>3, <1>4, EntriesChange

\* The pointers to a port agree with its entry, and so with each other.
LEMMA StepHandles ==
  /\ TypeOK /\ HoldsDevice /\ NotYetAgreed /\ Entered /\ Ordered
  /\ HandleAgrees /\ OneTypePerPort /\ [Next]_vars
  => HandleAgrees' /\ OneTypePerPort'
<1> SUFFICES ASSUME TypeOK, HoldsDevice, NotYetAgreed, Entered, Ordered,
                    HandleAgrees, OneTypePerPort, [Next]_vars
             PROVE  HandleAgrees' /\ OneTypePerPort'
  OBVIOUS
<1> USE TypesOfOne
<1>1. ASSUME NEW u \in User, NEW p \in Port, NEW t \in DeviceType, Return(u, p),
             t = get[u].type, UNCHANGED host, ~Gone(p),
             device'[p].device_type = t, device[p].device_type \in {t, NoType},
             \A q \in Port \ {p} : device'[q] = device[q]
      PROVE  HandleAgrees' /\ OneTypePerPort'
  <2>1. /\ handle'[u] = [port |-> p, type |-> t, link |-> links]
        /\ \A v \in User \ {u} : handle'[v] = handle[v]
        /\ links' = links /\ \A q \in Port : Gone(q)' <=> Gone(q)
    BY <1>1 DEF Return, host, Gone
  <2>2. ASSUME NEW v \in User, handle[v].port = p, handle[v].link = links
        PROVE  handle[v].type = t
    BY <1>1, <2>2 DEF HandleAgrees
  <2>3. HandleAgrees'
    <3>1. ASSUME NEW v \in User, v # u
          PROVE  /\ handle'[v].link <= links
                 /\ handle'[v].port # NoPort /\ handle'[v].link = links =>
                      \/ device'[handle'[v].port].device_type = handle'[v].type
                      \/ Gone(handle[v].port)
      <4>1. CASE handle[v].port = p
        BY <1>1, <2>1, <2>2, <3>1, <4>1 DEF HandleAgrees
      <4>2. CASE handle[v].port # p
        BY <1>1, <2>1, <3>1, <4>2 DEF HandleAgrees
      <4> QED
        BY <4>1, <4>2
    <3>2. /\ handle'[u].link <= links
          /\ device'[handle'[u].port].device_type = handle'[u].type
      BY <1>1, <2>1
    <3> QED
      BY <2>1, <3>1, <3>2 DEF HandleAgrees
  <2>4. OneTypePerPort'
    BY <2>1, <2>2 DEF OneTypePerPort
  <2> QED
    BY <2>3, <2>4
<1>2. ASSUME NEW u \in User, ReturnCached(u) PROVE HandleAgrees' /\ OneTypePerPort'
  <2>1. /\ Return(u, get[u].port) /\ device[get[u].port].device_type = get[u].type
        /\ device' = device /\ UNCHANGED host
    BY <1>2 DEF ReturnCached, cache
  <2>2. ~Gone(get[u].port)
    BY <2>1 DEF Entered
  <2> QED
    BY <1>1, <2>1, <2>2
<1>3. ASSUME NEW u \in User, StoreDevice(u) PROVE HandleAgrees' /\ OneTypePerPort'
  <2>1. /\ Return(u, get[u].port) /\ UNCHANGED host
        /\ device'[get[u].port].device_type = get[u].type
        /\ \A q \in Port \ {get[u].port} : device'[q] = device[q]
    BY <1>3 DEF StoreDevice
  <2>2. ~Gone(get[u].port) /\ device[get[u].port].device_type = NoType
    BY <1>3 DEF StoreDevice, NotYetAgreed, HoldsDevice, Asking
  <2> QED
    BY <1>1, <2>1, <2>2
<1>4. ASSUME NEW u \in User, ReturnConflict(u) \/ GetFails(u)
      PROVE  HandleAgrees' /\ OneTypePerPort'
  <2>1. /\ handle'[u] = [port |-> NoPort, type |-> get[u].type, link |-> links]
        /\ \A v \in User \ {u} : handle'[v] = handle[v]
        /\ links' = links /\ device' = device /\ \A q \in Port : Gone(q)' <=> Gone(q)
    BY <1>4 DEF ReturnConflict, GetFails, Return, cache, host, Gone
  <2>2. handle'[u].port = NoPort /\ handle'[u].link = links
    BY <2>1
  <2>3. HandleAgrees'
    BY <2>1, <2>2 DEF HandleAgrees
  <2>4. OneTypePerPort'
    BY <2>1, <2>2 DEF OneTypePerPort
  <2> QED BY <2>3, <2>4
<1>5. ASSUME handle' = handle,
             \/ links' = links /\ \A q \in Port : \/ Gone(q)'
                                                  \/ device'[q] = device[q] /\ ~Gone(q)
             \/ links' = links + 1
      PROVE  HandleAgrees' /\ OneTypePerPort'
  <2>1. OneTypePerPort'
    BY <1>5 DEF OneTypePerPort
  <2>2. CASE links' = links + 1
    BY <1>5, <2>1, <2>2 DEF HandleAgrees
  <2>3. CASE links' = links
    BY <1>5, <2>1, <2>3 DEF HandleAgrees
  <2> QED
    BY <1>5, <2>2, <2>3
<1>6. ASSUME NEW u \in User, Moves(u), ~ReturnCached(u), ~StoreDevice(u),
             ~(ReturnConflict(u) \/ GetFails(u))
      PROVE  HandleAgrees' /\ OneTypePerPort'
  <2>1. UNCHANGED <<handle, device, open, todo, links>>
    BY <1>6 DEF Moves, GetDevice, AskHub, HubConfigures, Granted, cache, host
  <2> QED
    BY <1>5, <2>1 DEF Gone
<1>7. CASE Around
  <2>0. handle' = handle
    BY <1>7, AroundUsers DEF users
  <2>1. CASE Reopen
    BY <1>5, <2>0, <2>1 DEF Reopen
  <2>2. CASE Shutdown
    BY <1>5, <2>0, <2>2 DEF Shutdown, cache, Gone, Ordered
  <2>3. ASSUME NEW p \in Port, WipeDevice(p), ~open PROVE HandleAgrees' /\ OneTypePerPort'
    BY <1>5, <2>0, <2>3 DEF WipeDevice, Gone
  <2>4. ASSUME NEW p \in Port, WipeDevice(p) PROVE ~open
    BY <2>4 DEF WipeDevice, Ordered
  <2>5. CASE UNCHANGED <<device, open, todo, links>>
    BY <1>5, <2>0, <2>5 DEF Gone
  <2> QED
    BY <1>7, <2>1, <2>2, <2>3, <2>4, <2>5 DEF Around, Command, HubRestart, ReceiveHello,
       cache, host, vars
<1> QED
  BY <1>2, <1>3, <1>4, <1>6, <1>7, NextSplits

\* The hub has a port configured for its entry, and for what it has agreed to, until it
\* restarts: from then on the session of the hub is later than that of the opening.
LEMMA StepConfigured ==
  /\ TypeOK /\ HoldsDevice /\ NotYetAgreed /\ Ordered /\ Configured /\ [Next]_vars
  => Configured'
<1> SUFFICES ASSUME TypeOK, HoldsDevice, NotYetAgreed, Ordered, Configured, [Next]_vars,
                    open', opened' = hubSession'
             PROVE  /\ \A p \in Port : device'[p].device_type # NoType =>
                         configured'[p] = device'[p].device_type
                    /\ \A v \in User :
                         pc'[v] = "store" \/ (pc'[v] = "ask" /\ get'[v].session = hubSession') =>
                           configured'[get'[v].port] = get'[v].type
  BY DEF Configured
<1> USE TypesOfOne
<1> DEFINE EntriesMatch == \A p \in Port : device'[p].device_type # NoType =>
                             configured'[p] = device'[p].device_type
           Agreed(v) == pc'[v] = "store" \/ (pc'[v] = "ask" /\ get'[v].session = hubSession') =>
                          configured'[get'[v].port] = get'[v].type
           Good == EntriesMatch /\ \A v \in User : Agreed(v)
<1>a. open /\ opened = hubSession =>
        /\ \A p \in Port : device[p].device_type # NoType =>
             configured[p] = device[p].device_type
        /\ \A v \in User : pc[v] = "store" \/ (pc[v] = "ask" /\ get[v].session = hubSession) =>
             configured[get[v].port] = get[v].type
  BY DEF Configured
<1>1. ASSUME NEW u \in User, HubConfigures(u) PROVE Good
  <2>1. /\ UNCHANGED <<device, pc, open, opened, hubSession>> /\ pc[u] = "ask"
        /\ configured' = [configured EXCEPT ![get[u].port] = get[u].type]
    BY <1>1 DEF HubConfigures, cache, host
  <2>2. /\ \A v \in User \ {u} : get'[v] = get[v]
        /\ get'[u].port = get[u].port /\ get'[u].type = get[u].type
    BY <1>1, <2>1, OneUserMoves, GetKept DEF Moves
  <2>3. EntriesMatch
    BY <1>a, <2>1 DEF HoldsDevice, Asking
  <2>4. ASSUME NEW v \in User PROVE Agreed(v)
    <3>1. CASE v = u
      BY <2>1, <2>2, <3>1
    <3>2. CASE v # u
      <4>1. Asking(v) => get[v].port # get[u].port
        BY <2>1, <3>2 DEF HoldsDevice, Asking
      <4> QED
        BY <1>a, <2>1, <2>2, <3>2, <4>1 DEF Asking
    <3> QED
      BY <3>1, <3>2
  <2> QED
    BY <2>3, <2>4
<1>2. ASSUME NEW u \in User, Granted(u) PROVE Good
  <2>1. /\ UNCHANGED <<device, get, configured, open, opened, hubSession>>
        /\ pc[u] = "ask" /\ get[u].session = fgSessionId
        /\ \A v \in User \ {u} : pc'[v] = pc[v]
    BY <1>2 DEF Granted, cache, host, hub
  <2>2. open /\ opened = hubSession
    BY <2>1
  <2>3. fgSessionId = hubSession
    <3>1. opened <= fgSessionId /\ fgSessionId <= hubSession
      BY <2>2 DEF Ordered
    <3>2. fgSessionId \in Nat /\ hubSession \in Nat
      OBVIOUS
    <3> QED
      BY <2>2, <3>1, <3>2
  <2> QED
    BY <1>a, <2>1, <2>2, <2>3
<1>3. ASSUME NEW u \in User, StoreDevice(u) PROVE Good
  <2>1. /\ UNCHANGED <<get, configured, open, opened, hubSession>>
        /\ pc[u] = "store" /\ pc'[u] = "idle" /\ \A v \in User \ {u} : pc'[v] = pc[v]
        /\ device'[get[u].port].device_type = get[u].type
        /\ \A q \in Port \ {get[u].port} : device'[q] = device[q]
    BY <1>3 DEF StoreDevice, Return, host, hub
  <2> QED
    BY <1>a, <2>1
<1>4. ASSUME NEW u \in User, Moves(u), ~HubConfigures(u), ~Granted(u), ~StoreDevice(u)
      PROVE  Good
  <2>1. UNCHANGED <<device, configured, open, opened, hubSession>>
    BY <1>4 DEF Moves, GetDevice, ReturnCached, ReturnConflict, AskHub, GetFails, cache,
       host, hub
  <2>2. EntriesMatch
    BY <1>a, <2>1
  <2>3. ASSUME NEW v \in User, v # u PROVE Agreed(v)
    <3>1. pc'[v] = pc[v] /\ get'[v] = get[v]
      BY <1>4, <2>3, OneUserMoves
    <3> QED
      BY <1>a, <2>1, <3>1
  <2>4. Agreed(u)
    <3>1. CASE AskHub(u)
      <4>1. pc'[u] = "ask" /\ get'[u].session = 0
        BY <3>1 DEF AskHub, NotYetAgreed
      <4> QED
        BY <2>1, <4>1
    <3>2. CASE ~AskHub(u)
      BY <1>4, <3>2, WhoAsks DEF Asking
    <3> QED
      BY <3>1, <3>2
  <2> QED
    BY <2>2, <2>3, <2>4
<1>5. CASE Around
  <2>0. UNCHANGED <<pc, get, device_mutex>>
    BY <1>5, AroundUsers DEF users
  <2>1. CASE Reopen
    <3>1. EntriesMatch
      BY <2>1 DEF Reopen, Wiped
    <3>2. \A v \in User : ~Asking(v)
      BY <2>1 DEF Reopen, HoldsDevice
    <3> QED
      BY <2>0, <3>1, <3>2 DEF Asking
  <2>2. CASE HubRestart
    BY <2>2 DEF HubRestart, Ordered, host
  <2>3. CASE Shutdown
    BY <2>3 DEF Shutdown
  <2>4. ASSUME NEW p \in Port, WipeDevice(p) PROVE Good
    BY <2>4 DEF WipeDevice, Ordered
  <2>5. CASE UNCHANGED <<device, configured, open, opened, hubSession>>
    BY <1>a, <2>0, <2>5
  <2> QED
    BY <1>5, <2>1, <2>2, <2>3, <2>4, <2>5 DEF Around, Command, ReceiveHello, cache, host,
       hub, vars
<1> QED
  BY <1>1, <1>2, <1>3, <1>4, <1>5, NextSplits

\* A command through a fresh pointer is addressed by an entry that is still its own.
LEMMA StepFresh ==
  /\ TypeOK /\ Entered /\ HandleAgrees /\ Ordered /\ Configured
  /\ FreshCommandFindsDevice /\ [Next]_vars
  => FreshCommandFindsDevice'
<1> SUFFICES ASSUME TypeOK, Entered, HandleAgrees, Ordered, Configured,
                    FreshCommandFindsDevice, [Next]_vars
             PROVE  FreshCommandFindsDevice'
  OBVIOUS
<1> USE TypesOfOne
<1>1. ASSUME NEW u \in User, Command(u) PROVE FreshCommandFindsDevice'
  <2> DEFINE h  == handle[u]
             to == device[h.port].port_id
             o == [meant |-> h.port, port |-> to, type |-> h.type, found |-> configured[to],
                   fresh |-> h.link = links /\ opened = fgSessionId]
  <2>1. /\ orders' = orders \cup {o}
        /\ h.port \in Port /\ open /\ fgSessionId = hubSession
    BY <1>1 DEF Command
  <2>2. ASSUME h.link = links, opened = fgSessionId
        PROVE  to = h.port /\ configured[to] = h.type
    <3>1. device[h.port].device_type = h.type
      BY <2>1, <2>2 DEF HandleAgrees, Gone
    <3> QED
      BY <2>1, <2>2, <3>1 DEF Entered, Configured
  <2>3. o.fresh => o.port = o.meant /\ o.found = o.type
    BY <2>2
  <2> HIDE DEF o
  <2> QED
    BY <2>1, <2>3 DEF FreshCommandFindsDevice
<1>2. CASE orders' = orders
  BY <1>2 DEF FreshCommandFindsDevice
<1> QED
  BY <1>1, <1>2 DEF Next, GetDevice, ReturnCached, ReturnConflict, AskHub, HubConfigures,
     Granted, StoreDevice, GetFails, HubRestart, ReceiveHello, Shutdown, Reopen,
     WipeDevice, vars

\* Every step of users, link and hub keeps the inductive invariant.
LEMMA StepInductive == Inductive /\ [Next]_vars => Inductive'
BY StepTyped, StepHoldsDevice, StepNotYetAgreed, StepOrdered, StepEntered, StepHandles,
   StepConfigured, StepFresh DEF Inductive

-----------------------------------------------------------------------------
(* The theorems. *)

\* The inductive invariant of the device cache holds throughout.
THEOREM Invariance == Spec => []Inductive
BY InitInductive, StepInductive, PTL DEF Spec

\* Every variable keeps its type, whatever GET_DEVICE_COMMON meets.
THEOREM TypeCorrect == Spec => []TypeOK
BY Invariance, PTL DEF Inductive

\* Pointers that GET_DEVICE_COMMON returned for one port under one opening of the link
\* are for one type of device.
THEOREM PortsOfOneType == Spec => []OneTypePerPort
BY Invariance, PTL DEF Inductive

\* A command through a pointer of this opening of the link goes to its own port and finds
\* the device there, unless the hub has restarted.
THEOREM FreshCommands == Spec => []FreshCommandFindsDevice
BY Invariance, PTL DEF Inductive

\* A pointer is returned from the entry, or with it: the hub has the port configured.
LEMMA ReturnedIsConfigured ==
  ASSUME Inductive, [Next]_vars, NEW u \in User, Gets(u), open, hubSession = opened
  PROVE  configured[handle'[u].port] = handle'[u].type
<1> USE TypesOfOne DEF Inductive
<1>1. Moves(u)
  <2>1. \A v \in User \ {u} : Moves(v) => pc'[u] = pc[u]
    BY OneUserMoves
  <2>2. Around => pc' = pc
    BY AroundUsers DEF users
  <2> QED
    BY <2>1, <2>2, NextSplits DEF Gets
<1>2. ReturnCached(u) \/ StoreDevice(u)
  BY <1>1 DEF Moves, GetDevice, ReturnConflict, AskHub, HubConfigures, Granted, GetFails,
     Return, Gets
<1>3. handle'[u].port = get[u].port /\ handle'[u].type = get[u].type
  BY <1>2 DEF ReturnCached, StoreDevice, Return
<1>4. CASE ReturnCached(u)
  BY <1>3, <1>4 DEF ReturnCached, Configured
<1>5. CASE StoreDevice(u)
  BY <1>3, <1>5 DEF StoreDevice, Configured
<1> QED
  BY <1>2, <1>4, <1>5

\* When pup_*_get_device returns a pointer, the hub has the port configured for that
\* device, unless the link is closed or the hub has restarted since it was opened.
THEOREM GotDevices == Spec => GotDeviceIsConfigured
<1>1. Inductive /\ [Next]_vars =>
        [\A u \in User : Gets(u) /\ open /\ hubSession = opened
           => configured[handle'[u].port] = handle'[u].type]_vars
  BY ReturnedIsConfigured
<1> QED
  BY <1>1, Invariance, PTL DEF Spec, GotDeviceIsConfigured
=============================================================================

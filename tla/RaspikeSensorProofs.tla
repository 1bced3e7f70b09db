--------------------------- MODULE RaspikeSensorProofs ---------------------------
(***************************************************************************)
(* The safety properties of a sensor with modes, for any threads, modes,   *)
(* sessions and capacities: the types (TypeOK), a status block that holds  *)
(* nothing of an earlier session (StatusOfThisSession), and getters that   *)
(* get data of their mode as long as they do not overlap and do not give   *)
(* up too early (UndisturbedGetterGetsItsMode).                            *)
(***************************************************************************)
EXTENDS RaspikeSensor, TLAPS

Sent     == 1..Len(toHub)
Arriving == 1..Len(toHost)
Held     == 1..Len(fg_send_buffer)

\* Sessions begin one after the other, so do their frames arrive; the hub is in no
\* mode in a session that the host has not heard of.
Fresh ==
  /\ fgSessionId <= hubSession
  /\ \A i \in Arriving : toHost[i].session \in fgSessionId..hubSession
  /\ \A i, j \in Arriving : i < j => toHost[i].session <= toHost[j].session
  /\ \A i \in Sent : toHub[i].session <= fgSessionId
  /\ \A i \in Held : fg_send_buffer[i].session <= fgSessionId
  /\ \A u \in User : sentIn[u] <= fgSessionId
  /\ hubSession > fgSessionId => hubMode = NoMode
  /\ \A i \in Arriving :
       /\ toHost[i].session > fgSessionId => toHost[i].mode = NoMode
       /\ toHost[i].type = "telemetry" => toHost[i].mode = Reflection

-----------------------------------------------------------------------------
(* The modes of a session, as long as nothing was disturbed. *)

\* The entry, after the zeroing that is still to come.
Shown == IF clearing THEN Cleared ELSE fgStatus

Measured(mode) == IF mode = NoMode THEN Zero ELSE mode
Matches(entry) == entry.data = Measured(entry.cmd)

Current(i) == i \in Arriving /\ toHost[i].session = fgSessionId
Change(i)  == i \in Sent /\ toHub[i].session = fgSessionId

\* The hub of this session is in a mode and stays in it.
Settled(mode) ==
  /\ \A i \in Arriving : Current(i) => toHost[i].mode = mode
  /\ hubSession = fgSessionId => hubMode = mode
  /\ \A i \in Sent : ~Change(i)

\* The hub goes from mode m to mode w: the change is on its way, or made, or reported.
Turning(m, w) ==
  /\ \A i \in Arriving : Current(i) => toHost[i].mode \in {m, w}
  /\ \A i, j \in Arriving :
       Current(i) /\ Current(j) /\ i < j /\ toHost[i].mode = w => toHost[j].mode = w
  /\ hubSession = fgSessionId =>
       /\ hubMode \in {m, w}
       /\ \A i \in Arriving : Current(i) /\ toHost[i].mode = w => hubMode = w
  /\ \A i \in Sent : Change(i) =>
       /\ toHub[i].mode = w
       /\ \A j \in Sent : Change(j) => j = i
       /\ \A j \in Arriving : Current(j) => toHost[j].mode = m
       /\ hubSession = fgSessionId => hubMode = m

\* What is shown is what the hub has measured and goes on measuring; or the change of
\* mode that a getter waits for was sent in this session, and is not shown yet.
Steady     == Matches(Shown) /\ Settled(Shown.cmd)
Pending(u) == pc[u] = "wait" /\ sentIn[u] = fgSessionId
Agreed     == \/ Steady
              \/ \E u \in User : /\ Pending(u) /\ Shown.cmd # want[u]
                               /\ Turning(Shown.cmd, want[u])

Alone == \A u, v \in User : pc[u] # "idle" /\ pc[v] # "idle" => u = v

\* What a getter relies on between its steps.
Relied ==
  /\ \A u \in User : pc[u] = "send" => fgStatus.cmd # want[u]
  /\ \A u \in User : pc[u] = "read" => fgStatus.cmd \in {want[u], NoMode}
  /\ \A u \in User : Pending(u) /\ clearing => fgStatus.cmd # want[u]
  /\ clearing => \/ Matches(fgStatus)
                 \/ \E u \in User : pc[u] = "wait" /\ fgStatus.cmd # want[u]

\* What the send buffer holds was made in an earlier session.
HeldIsOld == \A i \in Held : fg_send_buffer[i].session # fgSessionId

\* As long as nobody asks for a mode in a session, its hub is in none.
Unasked == (\A u \in User : sentIn[u] # fgSessionId) => Settled(NoMode) /\ HeldIsOld

Undisturbed == disturbed \/ (Alone /\ Agreed /\ Relied /\ HeldIsOld)

Inductive == TypeOK /\ Fresh /\ StatusOfThisSession /\ Unasked /\ Undisturbed

-----------------------------------------------------------------------------
(* Types. *)

\* What is left of a queue whose first element is taken.
LEMMA Taken ==
  ASSUME NEW S, NEW s \in Seq(S), s # <<>>
  PROVE  /\ Tail(s) \in Seq(S) /\ Len(Tail(s)) = Len(s) - 1 /\ Len(s) \in Nat \ {0}
         /\ Head(s) = s[1] /\ s[1] \in S /\ 1 \in 1..Len(s)
         /\ \A i \in 1..Len(Tail(s)) : /\ i \in Nat \ {0} /\ i + 1 \in 1..Len(s)
                                       /\ Tail(s)[i] = s[i + 1]
  OBVIOUS

\* A queue to which an element is added.
LEMMA Added ==
  ASSUME NEW S, NEW s \in Seq(S), NEW e \in S
  PROVE  /\ Append(s, e) \in Seq(S) /\ Len(Append(s, e)) = Len(s) + 1 /\ Len(s) \in Nat
         /\ \A i \in 1..Len(s) : /\ i \in 1..Len(Append(s, e)) /\ i <= Len(s) /\ i \in Nat
                                 /\ Append(s, e)[i] = s[i]
         /\ Append(s, e)[Len(s) + 1] = e /\ Len(s) + 1 \in 1..Len(Append(s, e))
         /\ \A i \in 1..Len(Append(s, e)) : i \in 1..Len(s) \/ i = Len(s) + 1
  OBVIOUS

\* Queue r, of elements of S, is queue s with queue t behind it.
Joins(r, s, t, S) ==
  /\ r \in Seq(S) /\ Len(r) = Len(s) + Len(t)
  /\ Len(s) \in Nat /\ Len(t) \in Nat
  /\ \A i \in 1..Len(s) : i \in 1..Len(r) /\ r[i] = s[i]
  /\ \A i \in 1..Len(t) : Len(s) + i \in 1..Len(r) /\ r[Len(s) + i] = t[i]
  /\ \A i \in 1..Len(r) : i \in 1..Len(s) \/ \E j \in 1..Len(t) : i = Len(s) + j

\* Two queues in one.
LEMMA Joined ==
  ASSUME NEW S, NEW s \in Seq(S), NEW t \in Seq(S)
  PROVE  Joins(s \o t, s, t, S)
<1>1. /\ s \o t \in Seq(S) /\ Len(s \o t) = Len(s) + Len(t) /\ Len(s) \in Nat /\ Len(t) \in Nat
      /\ \A i \in 1..Len(s) : i \in 1..Len(s \o t) /\ (s \o t)[i] = s[i]
      /\ \A i \in 1..Len(t) : /\ Len(s) + i \in 1..Len(s \o t)
                              /\ (s \o t)[Len(s) + i] = t[i]
  OBVIOUS
<1>2. ASSUME NEW i \in 1..Len(s \o t), i \notin 1..Len(s)
      PROVE  \E j \in 1..Len(t) : i = Len(s) + j
  <2>1. i - Len(s) \in 1..Len(t) /\ i = Len(s) + (i - Len(s))
    BY <1>1, <1>2
  <2> QED BY <2>1
<1> QED BY <1>1, <1>2 DEF Joins

\* The first elements of a queue.
LEMMA Front ==
  ASSUME NEW S, NEW s \in Seq(S), NEW n \in 0..Len(s)
  PROVE  /\ SubSeq(s, 1, n) \in Seq(S)
         /\ \A i \in 1..Len(SubSeq(s, 1, n)) : i \in 1..Len(s) /\ SubSeq(s, 1, n)[i] = s[i]
<1>1. Len(s) \in Nat /\ n \in Nat /\ n <= Len(s) /\ \A i \in 1..n : i \in 1..Len(s) /\ s[i] \in S
  OBVIOUS
<1>2. Len(SubSeq(s, 1, n)) = n /\ \A i \in 1..n : SubSeq(s, 1, n)[i] = s[i]
  BY <1>1
<1>3. SubSeq(s, 1, n) \in Seq(S)
  BY <1>1
<1> QED BY <1>1, <1>2, <1>3

\* Elements of the queues are frames, with sessions that are numbers.
LEMMA Queues ==
  ASSUME TypeOK
  PROVE  /\ \A i \in Sent : toHub[i] \in Changes /\ toHub[i].session \in Nat
         /\ \A i \in Held : fg_send_buffer[i].session \in Nat
         /\ \A i \in Arriving : toHost[i] \in Frames /\ toHost[i].session \in Nat
         /\ fgSessionId \in Nat /\ hubSession \in Nat /\ \A u \in User : sentIn[u] \in Nat
<1>1. \A i \in Sent : toHub[i] \in Changes /\ toHub[i].session \in Nat
  <2>1. \A i \in Sent : toHub[i] \in Changes
    BY DEF TypeOK, Sent
  <2>2. \A c \in Changes : c.session \in Nat
    BY SensorAssumption DEF Changes, Sessions
  <2> QED BY <2>1, <2>2
<1>4. \A i \in Held : fg_send_buffer[i].session \in Nat
  <2>1. \A i \in Held : fg_send_buffer[i] \in Changes
    BY DEF TypeOK, Held
  <2>2. \A c \in Changes : c.session \in Nat
    BY SensorAssumption DEF Changes, Sessions
  <2> QED BY <2>1, <2>2
<1>2. \A i \in Arriving : toHost[i] \in Frames /\ toHost[i].session \in Nat
  <2>1. \A i \in Arriving : toHost[i] \in Frames
    BY DEF TypeOK, Arriving
  <2>2. \A f \in Frames : f.session \in Nat
    BY SensorAssumption DEF Frames, Sessions
  <2> QED BY <2>1, <2>2
<1>3. fgSessionId \in Nat /\ hubSession \in Nat /\ \A u \in User : sentIn[u] \in Nat
  BY SensorAssumption DEF TypeOK, Sessions
<1> QED BY <1>1, <1>2, <1>3, <1>4

\* The receiver takes the first frame.
LEMMA Arrival ==
  ASSUME TypeOK, NEW type, Receiving(type)
  PROVE  /\ ~clearing /\ 1 \in Arriving /\ Head(toHost) = toHost[1]
         /\ toHost[1] \in Frames /\ toHost[1].type = type
         /\ toHost' \in Seq(Frames) /\ Len(toHost') <= LinkCapacity
         /\ \A i \in Arriving' : /\ i \in Nat \ {0} /\ i + 1 \in Arriving
                                 /\ toHost'[i] = toHost[i + 1]
<1>1. toHost # <<>> /\ toHost' = Tail(toHost) /\ toHost \in Seq(Frames)
  BY DEF Receiving, TypeOK
<1>2. Len(toHost) <= LinkCapacity /\ LinkCapacity \in Nat /\ Len(toHost) \in Nat
  BY SensorAssumption, <1>1, Taken DEF TypeOK
<1> QED BY <1>1, <1>2, Taken DEF Receiving, Arriving

\* The hub sends a frame behind all others.
LEMMA Departure ==
  ASSUME TypeOK, NEW type \in {"status", "telemetry", "hello"}, HubSends(type)
  PROVE  \E n \in Arriving' :
           /\ n \notin Arriving
           /\ toHost'[n] = [type |-> type, session |-> hubSession, mode |-> hubMode]
           /\ toHost' \in Seq(Frames) /\ Len(toHost') <= LinkCapacity
           /\ \A i \in Arriving : /\ i \in Arriving' /\ toHost'[i] = toHost[i]
                                  /\ i \in Nat /\ i < n
           /\ \A i \in Arriving' : i \in Arriving \/ i = n
<1> DEFINE e == [type |-> type, session |-> hubSession, mode |-> hubMode]
<1>1. e \in Frames /\ toHost \in Seq(Frames) /\ toHost' = Append(toHost, e)
  BY DEF TypeOK, Frames, HubSends
<1>2. Len(toHost) < LinkCapacity /\ LinkCapacity \in Nat
  BY SensorAssumption DEF HubSends
<1> HIDE DEF e
<1>3. Len(toHost) + 1 \in Arriving' /\ Len(toHost) + 1 \notin Arriving
  BY <1>1, Added DEF Arriving
<1>4. /\ toHost'[Len(toHost) + 1] = e /\ toHost' \in Seq(Frames) /\ Len(toHost') <= LinkCapacity
      /\ \A i \in Arriving : /\ i \in Arriving' /\ toHost'[i] = toHost[i]
                             /\ i \in Nat /\ i < Len(toHost) + 1
      /\ \A i \in Arriving' : i \in Arriving \/ i = Len(toHost) + 1
  BY <1>1, <1>2, Added DEF Arriving
<1> QED BY <1>3, <1>4 DEF e

\* Frames are sent behind all others.
LEMMA Transmission ==
  ASSUME TypeOK, NEW frames \in Seq(Changes), Transmit(frames)
  PROVE  /\ toHub' \in Seq(Changes) /\ Len(toHub') <= LinkCapacity /\ Len(toHub) \in Nat
         /\ \A i \in Sent : i \in Sent' /\ toHub'[i] = toHub[i]
         /\ \A i \in 1..Len(frames) : /\ Len(toHub) + i \in Sent'
                                      /\ toHub'[Len(toHub) + i] = frames[i]
         /\ \A i \in Sent' : i \in Sent \/ \E j \in 1..Len(frames) : i = Len(toHub) + j
<1>1. toHub \in Seq(Changes) /\ toHub' = toHub \o frames
  BY DEF TypeOK, Transmit
<1>2. Len(toHub) + Len(frames) <= LinkCapacity
  BY DEF Transmit
<1>3. /\ toHub' \in Seq(Changes) /\ Len(toHub') = Len(toHub) + Len(frames) /\ Len(toHub) \in Nat
      /\ \A i \in 1..Len(toHub) : i \in 1..Len(toHub') /\ toHub'[i] = toHub[i]
      /\ \A i \in 1..Len(frames) : /\ Len(toHub) + i \in 1..Len(toHub')
                                   /\ toHub'[Len(toHub) + i] = frames[i]
      /\ \A i \in 1..Len(toHub') : i \in 1..Len(toHub) \/ \E j \in 1..Len(frames) : i = Len(toHub) + j
  <2>1. Joins(toHub \o frames, toHub, frames, Changes)
    BY <1>1, Joined
  <2>2. Joins(toHub', toHub, frames, Changes)
    BY <1>1, <2>1
  <2> QED BY <2>2 DEF Joins
<1> QED BY <1>2, <1>3 DEF Sent

\* A change of mode and what the send buffer holds.
Ready(u) == {Wanted(u)} \cup {fg_send_buffer[i] : i \in Held}

\* What is sent with a change of mode that succeeds.
LEMMA WithBuffer ==
  ASSUME TypeOK, NEW u \in User
  PROVE  /\ fg_send_buffer \in Seq(Changes) /\ Wanted(u) \in Changes
         /\ \A frames \in {Append(fg_send_buffer, Wanted(u)), <<Wanted(u)>> \o fg_send_buffer} :
              /\ frames \in Seq(Changes)
              /\ \E k \in 1..Len(frames) :
                   /\ frames[k] = Wanted(u)
                   /\ \A i \in 1..Len(frames) :
                        i = k \/ \E j \in Held : frames[i] = fg_send_buffer[j]
<1>1. fg_send_buffer \in Seq(Changes) /\ Wanted(u) \in Changes
  BY DEF TypeOK, Changes, Wanted
<1> DEFINE c == Wanted(u)
<1> HIDE DEF c
<1>2. c \in Changes
  BY <1>1 DEF c
<1>3. /\ Append(fg_send_buffer, c) \in Seq(Changes)
      /\ \E k \in 1..Len(Append(fg_send_buffer, c)) :
           /\ Append(fg_send_buffer, c)[k] = c
           /\ \A i \in 1..Len(Append(fg_send_buffer, c)) :
                i = k \/ \E j \in Held : Append(fg_send_buffer, c)[i] = fg_send_buffer[j]
  BY <1>1, <1>2, Added DEF Held
<1>4. <<c>> \in Seq(Changes) /\ Len(<<c>>) = 1 /\ <<c>>[1] = c
  BY <1>2
<1>5. /\ <<c>> \o fg_send_buffer \in Seq(Changes)
      /\ \E k \in 1..Len(<<c>> \o fg_send_buffer) :
           /\ (<<c>> \o fg_send_buffer)[k] = c
           /\ \A i \in 1..Len(<<c>> \o fg_send_buffer) :
                i = k \/ \E j \in Held : (<<c>> \o fg_send_buffer)[i] = fg_send_buffer[j]
  <2> DEFINE t == <<c>>
  <2>1. t \in Seq(Changes) /\ Len(t) = 1 /\ t[1] = c /\ 1 \in 1..Len(t)
    BY <1>4
  <2> HIDE DEF t
  <2>2. /\ t \o fg_send_buffer \in Seq(Changes)
        /\ 1 \in 1..Len(t \o fg_send_buffer) /\ (t \o fg_send_buffer)[1] = c
        /\ \A i \in 1..Len(t \o fg_send_buffer) :
             i \in 1..Len(t) \/ \E j \in Held : (t \o fg_send_buffer)[i] = fg_send_buffer[j]
    <3>1. Joins(t \o fg_send_buffer, t, fg_send_buffer, Changes)
      BY <1>1, <2>1, Joined
    <3> DEFINE r == t \o fg_send_buffer
    <3> HIDE DEF r
    <3>2. /\ r \in Seq(Changes) /\ 1 \in 1..Len(r) /\ r[1] = c
          /\ \A i \in 1..Len(r) :
               i \in 1..Len(t) \/ \E j \in Held : r[i] = fg_send_buffer[j]
      BY <2>1, <3>1 DEF Joins, r, Held
    <3> QED BY <3>2 DEF r
  <2>3. \A i \in 1..Len(t) : i = 1
    BY <2>1
  <2>4. \E k \in 1..Len(t \o fg_send_buffer) :
           /\ (t \o fg_send_buffer)[k] = c
           /\ \A i \in 1..Len(t \o fg_send_buffer) :
                i = k \/ \E j \in Held : (t \o fg_send_buffer)[i] = fg_send_buffer[j]
    BY <2>2, <2>3
  <2> QED BY <2>2, <2>4 DEF t
<1>6. \A frames \in {Append(fg_send_buffer, c), <<c>> \o fg_send_buffer} :
        /\ frames \in Seq(Changes)
        /\ \E k \in 1..Len(frames) :
             /\ frames[k] = c
             /\ \A i \in 1..Len(frames) :
                  i = k \/ \E j \in Held : frames[i] = fg_send_buffer[j]
  <2> SUFFICES ASSUME NEW f \in {Append(fg_send_buffer, c), <<c>> \o fg_send_buffer}
               PROVE  /\ f \in Seq(Changes)
                      /\ \E k \in 1..Len(f) :
                           /\ f[k] = c
                           /\ \A i \in 1..Len(f) :
                                i = k \/ \E j \in Held : f[i] = fg_send_buffer[j]
    OBVIOUS
  <2>1. CASE f = Append(fg_send_buffer, c)
    BY <1>3, <2>1, Zenon
  <2>2. CASE f = <<c>> \o fg_send_buffer
    BY <1>5, <2>2, Zenon
  <2> QED BY <2>1, <2>2
<1> QED BY <1>1, <1>6 DEF c

\* A change of mode is sent behind all others, with what the send buffer holds.
LEMMA Dispatch ==
  ASSUME TypeOK, NEW u \in User, SendChange(u)
  PROVE  \E n \in Sent' :
           /\ n \notin Sent /\ toHub'[n] = Wanted(u)
           /\ toHub' \in Seq(Changes) /\ Len(toHub') <= LinkCapacity
           /\ \A i \in Sent : i \in Sent' /\ toHub'[i] = toHub[i]
           /\ \A i \in Sent' : \/ i \in Sent \/ i = n
                               \/ \E j \in Held : toHub'[i] = fg_send_buffer[j]
<1>1. PICK frames \in {Append(fg_send_buffer, Wanted(u)), <<Wanted(u)>> \o fg_send_buffer} :
        Transmit(frames)
  BY DEF SendChange
<1>2. frames \in Seq(Changes)
  BY <1>1, WithBuffer
<1>3. PICK k \in 1..Len(frames) :
        /\ frames[k] = Wanted(u)
        /\ \A i \in 1..Len(frames) : i = k \/ \E j \in Held : frames[i] = fg_send_buffer[j]
  BY <1>1, WithBuffer
<1>4. /\ toHub' \in Seq(Changes) /\ Len(toHub') <= LinkCapacity /\ Len(toHub) \in Nat
      /\ \A i \in Sent : i \in Sent' /\ toHub'[i] = toHub[i]
      /\ Len(toHub) + k \in Sent' /\ toHub'[Len(toHub) + k] = Wanted(u)
      /\ \A i \in Sent' : i \in Sent \/ \E j \in 1..Len(frames) :
           i = Len(toHub) + j /\ toHub'[i] = frames[j]
  <2>1. /\ toHub' \in Seq(Changes) /\ Len(toHub') <= LinkCapacity /\ Len(toHub) \in Nat
        /\ \A i \in Sent : i \in Sent' /\ toHub'[i] = toHub[i]
        /\ \A i \in 1..Len(frames) : /\ Len(toHub) + i \in Sent'
                                     /\ toHub'[Len(toHub) + i] = frames[i]
        /\ \A i \in Sent' : i \in Sent \/ \E j \in 1..Len(frames) : i = Len(toHub) + j
    <3> HIDE DEF Sent
    <3> QED BY <1>1, <1>2, Transmission
  <2> QED BY <1>3, <2>1
<1>5. Len(toHub) + k \notin Sent
  BY <1>2, <1>4 DEF Sent
<1>6. \A i \in Sent' : \/ i \in Sent \/ i = Len(toHub) + k
                      \/ \E j \in Held : toHub'[i] = fg_send_buffer[j]
  <2> SUFFICES ASSUME NEW i \in Sent', i \notin Sent, i # Len(toHub) + k
               PROVE  \E j \in Held : toHub'[i] = fg_send_buffer[j]
    OBVIOUS
  <2>1. PICK l \in 1..Len(frames) : i = Len(toHub) + l /\ toHub'[i] = frames[l]
    BY <1>4
  <2>2. PICK j \in Held : frames[l] = fg_send_buffer[j]
    BY <1>3, <2>1
  <2> QED BY <2>1, <2>2
<1> HIDE DEF Sent
<1> QED BY <1>4, <1>5, <1>6, Zenon

\* What a failing flush has sent and keeps is what was ready.
LEMMA Halfway ==
  ASSUME TypeOK, NEW u \in User, FlushFails(u)
  PROVE  /\ toHub' \in Seq(Changes) /\ Len(toHub') <= LinkCapacity
         /\ fg_send_buffer' \in Seq(Changes) /\ Len(fg_send_buffer') <= BufferCapacity
         /\ \A i \in Sent' : (i \in Sent /\ toHub'[i] = toHub[i]) \/ toHub'[i] \in Ready(u)
         /\ \A i \in Held' : fg_send_buffer'[i] \in Ready(u)
<1>1. fg_send_buffer \in Seq(Changes) /\ Wanted(u) \in Changes
  BY WithBuffer
<1>2. Len(fg_send_buffer) <= BufferCapacity /\ BufferCapacity \in Nat
  BY SensorAssumption DEF TypeOK
<1>3. SUFFICES /\ fg_send_buffer' \in Seq(Changes) /\ Len(fg_send_buffer') <= BufferCapacity
               /\ \A i \in Held' : fg_send_buffer'[i] \in Ready(u)
               /\ \E frames \in Seq(Changes) :
                    Transmit(frames) /\ \A i \in 1..Len(frames) : frames[i] \in Ready(u)
  BY Transmission
<1>4. ASSUME Len(fg_send_buffer) < BufferCapacity,
             fg_send_buffer' = Append(fg_send_buffer, Wanted(u)),
             NEW n \in 0..(Len(fg_send_buffer) + 1), Transmit(SubSeq(fg_send_buffer', 1, n))
      PROVE  /\ fg_send_buffer' \in Seq(Changes) /\ Len(fg_send_buffer') <= BufferCapacity
             /\ \A i \in Held' : fg_send_buffer'[i] \in Ready(u)
             /\ \E frames \in Seq(Changes) :
                  Transmit(frames) /\ \A i \in 1..Len(frames) : frames[i] \in Ready(u)
  <2>1. /\ fg_send_buffer' \in Seq(Changes) /\ Len(fg_send_buffer') = Len(fg_send_buffer) + 1
        /\ \A i \in Held' : fg_send_buffer'[i] \in Ready(u)
    BY <1>1, <1>4, Added DEF Held, Ready
  <2>2. /\ SubSeq(fg_send_buffer', 1, n) \in Seq(Changes)
        /\ \A i \in 1..Len(SubSeq(fg_send_buffer', 1, n)) :
             SubSeq(fg_send_buffer', 1, n)[i] \in Ready(u)
    <3> DEFINE b == fg_send_buffer'
    <3>1. b \in Seq(Changes) /\ n \in 0..Len(b) /\ \A i \in 1..Len(b) : b[i] \in Ready(u)
      BY <1>4, <2>1 DEF Held
    <3> HIDE DEF b
    <3>2. /\ SubSeq(b, 1, n) \in Seq(Changes)
          /\ \A i \in 1..Len(SubSeq(b, 1, n)) : i \in 1..Len(b) /\ SubSeq(b, 1, n)[i] = b[i]
      BY <3>1, Front
    <3>3. /\ SubSeq(b, 1, n) \in Seq(Changes)
          /\ \A i \in 1..Len(SubSeq(b, 1, n)) : SubSeq(b, 1, n)[i] \in Ready(u)
      BY <3>1, <3>2
    <3> QED BY <3>3 DEF b
  <2>3. Len(fg_send_buffer') <= BufferCapacity
    BY <1>1, <1>2, <1>4, <2>1
  <2> QED BY <1>4, <2>1, <2>2, <2>3
<1>5. ASSUME fg_send_buffer' = fg_send_buffer, NEW n \in 0..Len(fg_send_buffer),
             Transmit(<<Wanted(u)>> \o SubSeq(fg_send_buffer, 1, n))
      PROVE  /\ fg_send_buffer' \in Seq(Changes) /\ Len(fg_send_buffer') <= BufferCapacity
             /\ \A i \in Held' : fg_send_buffer'[i] \in Ready(u)
             /\ \E frames \in Seq(Changes) :
                  Transmit(frames) /\ \A i \in 1..Len(frames) : frames[i] \in Ready(u)
  <2>1. /\ fg_send_buffer' \in Seq(Changes) /\ Len(fg_send_buffer') <= BufferCapacity
        /\ \A i \in Held' : fg_send_buffer'[i] \in Ready(u)
    BY <1>1, <1>2, <1>5 DEF Held, Ready
  <2> DEFINE f == SubSeq(fg_send_buffer, 1, n)
             t == <<Wanted(u)>>
  <2>2. f \in Seq(Changes) /\ \A i \in 1..Len(f) : f[i] \in Ready(u)
    BY <1>1, <1>5, Front DEF Held, Ready
  <2>3. t \in Seq(Changes) /\ \A i \in 1..Len(t) : t[i] \in Ready(u)
    BY <1>1 DEF Ready
  <2>4. Transmit(t \o f)
    BY <1>5
  <2> HIDE DEF f, t
  <2>5. t \o f \in Seq(Changes) /\ \A i \in 1..Len(t \o f) : (t \o f)[i] \in Ready(u)
    BY <2>2, <2>3, Joined DEF Joins
  <2> QED BY <2>1, <2>4, <2>5
<1> QED BY <1>4, <1>5 DEF FlushFails

\* A flush on behalf of others sends what the send buffer holds.
LEMMA Flushing ==
  ASSUME TypeOK, Flush
  PROVE  /\ UNCHANGED <<users, status, toHost, hub>>
         /\ toHub' \in Seq(Changes) /\ Len(toHub') <= LinkCapacity
         /\ fg_send_buffer' \in Seq(Changes) /\ Len(fg_send_buffer') <= BufferCapacity
         /\ \A i \in Sent' : \/ i \in Sent /\ toHub'[i] = toHub[i]
                             \/ \E j \in Held : toHub'[i] = fg_send_buffer[j]
         /\ \A i \in Held' : i \in Held /\ fg_send_buffer'[i] = fg_send_buffer[i]
<1>1. fg_send_buffer \in Seq(Changes) /\ Len(fg_send_buffer) <= BufferCapacity
  BY DEF TypeOK
<1>2. SUFFICES /\ fg_send_buffer' \in Seq(Changes) /\ Len(fg_send_buffer') <= BufferCapacity
               /\ \A i \in Held' : i \in Held /\ fg_send_buffer'[i] = fg_send_buffer[i]
               /\ \E frames \in Seq(Changes) :
                    /\ Transmit(frames)
                    /\ \A i \in 1..Len(frames) : \E j \in Held : frames[i] = fg_send_buffer[j]
  BY Transmission DEF Flush
<1>3. CASE Transmit(fg_send_buffer) /\ fg_send_buffer' = <<>>
  <2>1. /\ fg_send_buffer' \in Seq(Changes) /\ Len(fg_send_buffer') = 0 /\ BufferCapacity \in Nat
    BY <1>3, SensorAssumption
  <2>2. Held' = {}
    BY <2>1 DEF Held
  <2> QED BY <1>1, <1>3, <2>1, <2>2 DEF Held
<1>4. ASSUME NEW n \in 1..Len(fg_send_buffer), Transmit(SubSeq(fg_send_buffer, 1, n)),
             fg_send_buffer' = fg_send_buffer
      PROVE  /\ fg_send_buffer' \in Seq(Changes) /\ Len(fg_send_buffer') <= BufferCapacity
             /\ \A i \in Held' : i \in Held /\ fg_send_buffer'[i] = fg_send_buffer[i]
             /\ \E frames \in Seq(Changes) :
                  /\ Transmit(frames)
                  /\ \A i \in 1..Len(frames) : \E j \in Held : frames[i] = fg_send_buffer[j]
  <2>1. n \in 0..Len(fg_send_buffer)
    OBVIOUS
  <2>2. /\ SubSeq(fg_send_buffer, 1, n) \in Seq(Changes)
        /\ \A i \in 1..Len(SubSeq(fg_send_buffer, 1, n)) :
             i \in Held /\ SubSeq(fg_send_buffer, 1, n)[i] = fg_send_buffer[i]
    BY <1>1, <2>1, Front DEF Held
  <2> QED BY <1>1, <1>4, <2>2 DEF Held
<1> QED BY <1>3, <1>4 DEF Flush

\* The hub takes the first change of mode, or it is lost.
LEMMA Delivery ==
  ASSUME TypeOK, HubChangesMode \/ LoseChange
  PROVE  /\ 1 \in Sent /\ Head(toHub) = toHub[1] /\ toHub[1] \in Changes
         /\ toHub' \in Seq(Changes) /\ Len(toHub') <= LinkCapacity
         /\ \A i \in Sent' : /\ i \in Nat \ {0} /\ i + 1 \in Sent
                             /\ toHub'[i] = toHub[i + 1]
<1>1. toHub # <<>> /\ toHub' = Tail(toHub) /\ toHub \in Seq(Changes)
  BY DEF HubChangesMode, LoseChange, TypeOK
<1>2. Len(toHub) <= LinkCapacity /\ LinkCapacity \in Nat /\ Len(toHub) \in Nat
  BY SensorAssumption, <1>1, Taken DEF TypeOK
<1> QED BY <1>1, <1>2, Taken DEF Sent

\* The first state is well typed.
LEMMA TypesAtFirst == Init => TypeOK
<1> SUFFICES ASSUME Init PROVE TypeOK
  OBVIOUS
<1> USE SensorAssumption DEF Init
<1>1. fgStatus \in Entry
  BY DEF Cleared, Entry, Data
<1>2. /\ toHub \in Seq(Changes) /\ toHost \in Seq(Frames) /\ fg_send_buffer \in Seq(Changes)
      /\ Len(toHub) = 0 /\ Len(toHost) = 0 /\ Len(fg_send_buffer) = 0
  <2>1. toHub = <<>> /\ toHost = <<>> /\ fg_send_buffer = <<>>
    OBVIOUS
  <2> QED BY <2>1
<1>3. /\ pc \in [User -> {"idle", "check", "send", "wait", "read"}]
      /\ want \in [User -> Mode] /\ result \in [User -> Data]
      /\ sentIn \in [User -> 0..MaxSession]
  BY DEF Data
<1>4. fgSessionId \in Sessions /\ hubSession \in Sessions /\ hubMode \in Mode \cup {NoMode}
  BY DEF Sessions
<1>5. clearing \in BOOLEAN /\ disturbed \in BOOLEAN /\ reads \in 0..MaxReads
  <2>1. clearing \in BOOLEAN /\ disturbed \in BOOLEAN
    BY Zenon
  <2>2. reads \in 0..MaxReads
    OBVIOUS
  <2> QED BY <2>1, <2>2
<1> QED BY <1>1, <1>2, <1>3, <1>4, <1>5 DEF TypeOK

\* What a getter does leaves the status block and the hub alone.
LEMMA GetterLeaves ==
  ASSUME NEW u \in User, Getter(u) \/ \E m \in Mode : Get(u, m)
  PROVE  /\ UNCHANGED <<status, toHost, hub>>
         /\ ~SendChange(u) /\ ~FlushFails(u) => UNCHANGED <<sent, sentIn>>
         /\ \E label \in {"idle", "check", "send", "wait", "read"} :
              pc' = [pc EXCEPT ![u] = label]
         /\ want' = want \/ \E m \in Mode : want' = [want EXCEPT ![u] = m]
<1>1. UNCHANGED <<status, toHost, hub>>
  BY DEF Getter, Get, CheckMode, SendChange, SendFails, FlushFails, ModeReported, WaitTimesOut,
         ReadData, link
<1>2. ~SendChange(u) /\ ~FlushFails(u) => UNCHANGED <<sent, sentIn>>
  BY DEF Getter, Get, CheckMode, SendFails, ModeReported, WaitTimesOut, ReadData, link
<1>3. \E label \in {"idle", "check", "send", "wait", "read"} : pc' = [pc EXCEPT ![u] = label]
  BY DEF Getter, Get, CheckMode, SendChange, SendFails, FlushFails, ModeReported, WaitTimesOut,
         ReadData, ReturnZero, Goto
<1>4. want' = want \/ \E m \in Mode : want' = [want EXCEPT ![u] = m]
  BY DEF Getter, Get, CheckMode, SendChange, SendFails, FlushFails, ModeReported, WaitTimesOut,
         ReadData
<1> QED BY <1>1, <1>2, <1>3, <1>4

\* A step of a getter keeps the types.
LEMMA GetterKeepsTypes ==
  ASSUME TypeOK, NEW u \in User, Getter(u) \/ \E m \in Mode : Get(u, m)
  PROVE  TypeOK'
<1>1. /\ UNCHANGED <<status, toHost, hub>>
      /\ pc' \in [User -> {"idle", "check", "send", "wait", "read"}]
      /\ want' \in [User -> Mode]
  BY GetterLeaves DEF TypeOK
<1>2. result' \in [User -> Data]
  <2>1. fgStatus.data \in Data /\ Zero \in Data
    BY DEF TypeOK, Entry, Data
  <2> QED BY <2>1 DEF TypeOK, Getter, Get, CheckMode, SendChange, SendFails, FlushFails,
                      ModeReported, WaitTimesOut, ReadData, ReturnZero
<1>3. /\ sentIn' \in [User -> 0..MaxSession]
      /\ toHub' \in Seq(Changes) /\ Len(toHub') <= LinkCapacity
      /\ fg_send_buffer' \in Seq(Changes) /\ Len(fg_send_buffer') <= BufferCapacity
  <2>1. fgSessionId \in 0..MaxSession
    BY SensorAssumption DEF TypeOK, Sessions
  <2>2. CASE SendChange(u)
    <3>1. sentIn' = [sentIn EXCEPT ![u] = fgSessionId] /\ fg_send_buffer' = <<>>
      BY <2>2 DEF SendChange
    <3>2. fg_send_buffer' \in Seq(Changes) /\ Len(fg_send_buffer') <= BufferCapacity
      BY <3>1, SensorAssumption
    <3> QED BY <2>1, <2>2, <3>1, <3>2, Dispatch DEF TypeOK
  <2>3. CASE FlushFails(u)
    <3>1. sentIn' = [sentIn EXCEPT ![u] = fgSessionId]
      BY <2>3 DEF FlushFails
    <3> QED BY <2>1, <2>3, <3>1, Halfway DEF TypeOK
  <2>4. CASE ~SendChange(u) /\ ~FlushFails(u)
    BY <2>4, GetterLeaves DEF TypeOK, sent
  <2> QED BY <2>2, <2>3, <2>4
<1>4. reads' \in 0..MaxReads
  BY SensorAssumption DEF TypeOK, Getter, Get, CheckMode, SendChange, SendFails, FlushFails,
         ModeReported, WaitTimesOut, ReadData
<1>5. disturbed' \in BOOLEAN
  <2>1. ASSUME NEW m \in Mode, Get(u, m) PROVE disturbed' \in BOOLEAN
    BY <2>1, Zenon DEF Get
  <2>2. CASE WaitTimesOut(u)
    BY <2>2, Zenon DEF WaitTimesOut
  <2>3. CASE ~WaitTimesOut(u) /\ Getter(u)
    BY <2>3 DEF TypeOK, Getter, CheckMode, SendChange, SendFails, FlushFails, ModeReported, ReadData
  <2> QED BY <2>1, <2>2, <2>3
<1>6. fgStatus' \in Entry /\ fgSessionId' \in Sessions /\ clearing' \in BOOLEAN
  BY <1>1 DEF TypeOK, status
<1>7. /\ hubSession' \in Sessions /\ hubMode' \in Mode \cup {NoMode}
      /\ toHost' \in Seq(Frames) /\ Len(toHost') <= LinkCapacity
  BY <1>1 DEF TypeOK, hub
<1> QED BY <1>1, <1>2, <1>3, <1>4, <1>5, <1>6, <1>7 DEF TypeOK

\* A step of the receiver keeps the types.
LEMMA ReceiverKeepsTypes ==
  ASSUME TypeOK, ReceiveStatus \/ ReceiveTelemetry \/ ReceiveHello \/ ClearStatus
  PROVE  TypeOK'
<1>1. UNCHANGED <<pc, want, result, sentIn, reads, sent, hub>>
  BY DEF ReceiveStatus, ReceiveTelemetry, ReceiveHello, ClearStatus, link, users
<1>5. disturbed' \in BOOLEAN
  <2>1. CASE ClearStatus
    BY <2>1, Zenon DEF ClearStatus
  <2>2. CASE ~ClearStatus
    BY <2>2 DEF ReceiveStatus, ReceiveTelemetry, ReceiveHello, users, TypeOK
  <2> QED BY <2>1, <2>2
<1>2. toHost' \in Seq(Frames) /\ Len(toHost') <= LinkCapacity
  <2>1. ASSUME NEW type, Receiving(type)
        PROVE  toHost' \in Seq(Frames) /\ Len(toHost') <= LinkCapacity
    BY <2>1, Arrival
  <2> QED BY <2>1 DEF ReceiveStatus, ReceiveTelemetry, ReceiveHello, ClearStatus, link, TypeOK
<1>3. fgStatus' \in Entry
  <2>1. CASE ReceiveStatus
    <3>1. toHost[1] \in Frames /\ Head(toHost) = toHost[1]
      BY <2>1, Arrival DEF ReceiveStatus
    <3> DEFINE f == toHost[1]
               e == [cmd |-> f.mode, data |-> IF f.mode = NoMode THEN Zero ELSE f.mode,
                     session |-> f.session]
    <3>2. e \in Entry
      BY <3>1, SensorAssumption DEF Frames, Entry, Data, Sessions
    <3>3. fgStatus' = fgStatus \/ fgStatus' = e
      BY <2>1, <3>1 DEF ReceiveStatus
    <3> QED BY <3>2, <3>3 DEF TypeOK
  <2>2. CASE ReceiveTelemetry
    <3> DEFINE d == IF fgStatus.data \in {Zero, Reflection} THEN Reflection ELSE Mixed
               e == [fgStatus EXCEPT !.data = d, !.session = fgSessionId]
    <3>1. d \in Data /\ fgSessionId \in 0..MaxSession
      BY SensorAssumption DEF Data, TypeOK, Sessions
    <3> HIDE DEF d
    <3>2. e \in Entry
      BY <3>1 DEF TypeOK, Entry
    <3>3. fgStatus' = fgStatus \/ fgStatus' = e
      BY <2>2 DEF ReceiveTelemetry, d
    <3> QED BY <3>2, <3>3 DEF TypeOK
  <2>3. CASE ReceiveHello
    BY <2>3 DEF ReceiveHello, TypeOK
  <2>4. CASE ClearStatus
    BY <2>4, SensorAssumption DEF ClearStatus, Cleared, Entry, Data
  <2> QED BY <2>1, <2>2, <2>3, <2>4
<1>4. fgSessionId' \in Sessions /\ clearing' \in BOOLEAN
  <2>1. CASE ReceiveHello
    <3>1. toHost[1] \in Frames /\ Head(toHost) = toHost[1]
      BY <2>1, Arrival DEF ReceiveHello
    <3>2. fgSessionId' \in Sessions
      BY <2>1, <3>1 DEF ReceiveHello, Frames
    <3>3. clearing' \in BOOLEAN
      BY <2>1, Zenon DEF ReceiveHello
    <3> QED BY <3>2, <3>3
  <2>2. CASE ~ReceiveHello
    BY <2>2 DEF ReceiveStatus, ReceiveTelemetry, ClearStatus, TypeOK
  <2> QED BY <2>1, <2>2
<1> QED BY <1>1, <1>2, <1>3, <1>4, <1>5 DEF TypeOK, sent, hub

\* A step of the hub keeps the types.
LEMMA HubKeepsTypes ==
  ASSUME TypeOK, \/ HubChangesMode \/ LoseChange \/ HubRestart
                 \/ \E type \in {"status", "telemetry", "hello"} : HubSends(type)
  PROVE  TypeOK'
<1>1. UNCHANGED <<users, status, fg_send_buffer>>
  BY DEF HubChangesMode, LoseChange, HubRestart, HubSends, link, sent
<1>2. toHub' \in Seq(Changes) /\ Len(toHub') <= LinkCapacity
  BY Delivery DEF HubRestart, HubSends, link, sent, TypeOK
<1>3. toHost' \in Seq(Frames) /\ Len(toHost') <= LinkCapacity
  BY Departure DEF HubChangesMode, LoseChange, HubRestart, link, TypeOK
<1>4. hubMode' \in Mode \cup {NoMode}
  <2>1. CASE HubChangesMode
    <3>1. Head(toHub).mode \in Mode
      BY <2>1, Delivery DEF Changes
    <3> QED BY <2>1, <3>1 DEF HubChangesMode, TypeOK
  <2>2. CASE ~HubChangesMode
    BY <2>2 DEF LoseChange, HubRestart, HubSends, hub, TypeOK
  <2> QED BY <2>1, <2>2
<1>5. hubSession' \in Sessions
  BY SensorAssumption DEF HubChangesMode, LoseChange, HubRestart, HubSends, hub, TypeOK, Sessions
<1> QED BY <1>1, <1>2, <1>3, <1>4, <1>5 DEF TypeOK, users, status

\* Between them the actions are these.
LEMMA Steps ==
  ASSUME [Next]_vars
  PROVE  \/ \E u \in User : Getter(u) \/ \E m \in Mode : Get(u, m)
         \/ Flush \/ ReceiveStatus \/ ReceiveTelemetry \/ ReceiveHello \/ ClearStatus
         \/ HubChangesMode \/ LoseChange \/ HubRestart
         \/ \E type \in {"status", "telemetry", "hello"} : HubSends(type)
         \/ UNCHANGED vars
  BY DEF Next

\* Every step keeps the types.
LEMMA TypesKept == ASSUME TypeOK, [Next]_vars PROVE TypeOK'
<1>1. CASE UNCHANGED vars
  BY <1>1 DEF vars, users, status, link, sent, hub, TypeOK
<1>2. CASE Flush
  BY <1>2, Flushing DEF users, status, hub, TypeOK
<1> QED BY <1>1, <1>2, Steps, GetterKeepsTypes, ReceiverKeepsTypes, HubKeepsTypes

-----------------------------------------------------------------------------
(* Sessions. *)

\* Nothing has been sent in the first state.
LEMMA FreshAtFirst == Init => Fresh /\ StatusOfThisSession
<1> SUFFICES ASSUME Init PROVE Fresh /\ StatusOfThisSession
  OBVIOUS
<1>1. /\ toHub = <<>> /\ toHost = <<>> /\ fg_send_buffer = <<>>
      /\ fgSessionId = 1 /\ hubSession = 1
      /\ fgStatus.session = 0 /\ \A u \in User : sentIn[u] = 0
  BY DEF Init, Cleared
<1> QED BY <1>1 DEF Fresh, StatusOfThisSession, Arriving, Sent, Held

\* Getters ask in the session of the host.
LEMMA GetterKeepsFresh ==
  ASSUME TypeOK, Fresh, NEW u \in User, Getter(u) \/ \E m \in Mode : Get(u, m)
  PROVE  Fresh'
<1>1. UNCHANGED <<fgSessionId, toHost, hubSession, hubMode>> /\ Arriving' = Arriving
  BY GetterLeaves DEF status, hub, Arriving
<1>2. \A v \in User : sentIn'[v] <= fgSessionId
  <2>1. CASE SendChange(u) \/ FlushFails(u)
    <3>1. sentIn' = [sentIn EXCEPT ![u] = fgSessionId]
      BY <2>1 DEF SendChange, FlushFails
    <3> QED BY <3>1, Queues DEF Fresh, TypeOK
  <2>2. CASE ~SendChange(u) /\ ~FlushFails(u)
    BY <2>2, GetterLeaves DEF Fresh
  <2> QED BY <2>1, <2>2
<1>3. /\ \A c \in Ready(u) : c.session <= fgSessionId
      /\ \A i \in Held : fg_send_buffer[i].session <= fgSessionId
      /\ \A i \in Sent : toHub[i].session <= fgSessionId
  <2>1. Wanted(u).session <= fgSessionId
    BY Queues DEF Wanted
  <2> QED BY <2>1 DEF Ready, Fresh
<1>4. /\ \A i \in Sent' : toHub'[i].session <= fgSessionId
      /\ \A i \in Held' : fg_send_buffer'[i].session <= fgSessionId
  <2>1. CASE SendChange(u)
    <3>1. PICK n \in Sent' : /\ toHub'[n] = Wanted(u)
                             /\ \A i \in Sent : toHub'[i] = toHub[i]
                             /\ \A i \in Sent' : \/ i \in Sent \/ i = n
                                                 \/ \E j \in Held : toHub'[i] = fg_send_buffer[j]
      BY <2>1, Dispatch
    <3>2. \A i \in Sent' : i \in Sent \/ toHub'[i] \in Ready(u)
      BY <3>1 DEF Ready
    <3>3. fg_send_buffer' = <<>>
      BY <2>1 DEF SendChange
    <3>4. Held' = {}
      BY <3>3 DEF Held
    <3> QED BY <1>3, <3>1, <3>2, <3>4
  <2>2. CASE FlushFails(u)
    BY <1>3, <2>2, Halfway
  <2>3. CASE ~SendChange(u) /\ ~FlushFails(u)
    BY <1>3, <2>3, GetterLeaves DEF sent, Sent, Held
  <2> QED BY <2>1, <2>2, <2>3
<1> QED BY <1>1, <1>2, <1>4 DEF Fresh

\* The receiver goes on to the session of a HELLO; those of the frames behind it are
\* not earlier.
LEMMA ReceiverKeepsFresh ==
  ASSUME TypeOK, Fresh, ReceiveStatus \/ ReceiveTelemetry \/ ReceiveHello \/ ClearStatus
  PROVE  Fresh'
<1>1. /\ UNCHANGED <<sentIn, toHub, fg_send_buffer, hubSession, hubMode>>
      /\ Sent' = Sent /\ Held' = Held
  BY DEF ReceiveStatus, ReceiveTelemetry, ReceiveHello, ClearStatus, users, hub, link, sent,
         Sent, Held
<1>2. CASE ClearStatus
  BY <1>1, <1>2 DEF ClearStatus, link, Fresh, Arriving
<1>3. CASE ReceiveStatus \/ ReceiveTelemetry \/ ReceiveHello
  <2>1. /\ 1 \in Arriving /\ Head(toHost) = toHost[1]
        /\ \A i \in Arriving' : i \in Nat \ {0} /\ i + 1 \in Arriving /\ toHost'[i] = toHost[i + 1]
    BY <1>3, Arrival DEF ReceiveStatus, ReceiveTelemetry, ReceiveHello
  <2>2. /\ fgSessionId' = fgSessionId \/ fgSessionId' = toHost[1].session
        /\ fgSessionId \in Nat /\ fgSessionId' \in Nat /\ hubSession \in Nat
    BY <1>3, <2>1, Queues DEF ReceiveStatus, ReceiveTelemetry, ReceiveHello
  <2>3. /\ fgSessionId <= fgSessionId' /\ fgSessionId' <= hubSession
        /\ \A i \in Arriving' : /\ toHost'[i].session \in Nat
                                /\ fgSessionId' <= toHost'[i].session
                                /\ toHost'[i].session <= hubSession
    <3>1. \A i \in Arriving : /\ fgSessionId <= toHost[i].session /\ toHost[i].session <= hubSession
                              /\ toHost[i].session \in Nat
      BY Queues DEF Fresh
    <3>2. \A i \in Arriving' : toHost[1].session <= toHost'[i].session
      <4>1. \A i \in Arriving' : 1 < i + 1 /\ i + 1 \in Arriving /\ toHost'[i] = toHost[i + 1]
        BY <2>1
      <4> QED BY <2>1, <4>1 DEF Fresh
    <3>3. CASE fgSessionId' = fgSessionId
      BY <2>1, <2>2, <3>1, <3>3 DEF Fresh
    <3>4. CASE fgSessionId' = toHost[1].session
      BY <2>1, <2>2, <3>1, <3>2, <3>4 DEF Fresh
    <3> QED BY <2>2, <3>3, <3>4
  <2>4. \A i, j \in Arriving' : i < j => toHost'[i].session <= toHost'[j].session
    <3>1. \A i, j \in Arriving' : i < j => i + 1 < j + 1
      BY <2>1
    <3> QED BY <2>1, <3>1 DEF Fresh
  <2>5. /\ \A i \in Sent : toHub[i].session <= fgSessionId'
        /\ \A i \in Held : fg_send_buffer[i].session <= fgSessionId'
        /\ \A u \in User : sentIn[u] <= fgSessionId'
    BY <2>2, <2>3, Queues DEF Fresh
  <2>6. hubSession > fgSessionId' => hubMode = NoMode
    BY <2>2, <2>3 DEF Fresh
  <2>7. \A i \in Arriving' : /\ toHost'[i].session > fgSessionId' => toHost'[i].mode = NoMode
                             /\ toHost'[i].type = "telemetry" => toHost'[i].mode = Reflection
    BY <2>1, <2>2, <2>3 DEF Fresh
  <2>8. \A i \in Arriving' : toHost'[i].session \in fgSessionId'..hubSession
    BY <2>2, <2>3
  <2> QED BY <1>1, <2>3, <2>4, <2>5, <2>6, <2>7, <2>8 DEF Fresh
<1> QED BY <1>2, <1>3

\* The hub changes its mode in the session of the change, which the host knows.
LEMMA HubKeepsFresh ==
  ASSUME TypeOK, Fresh, \/ HubChangesMode \/ LoseChange \/ HubRestart
                        \/ \E type \in {"status", "telemetry", "hello"} : HubSends(type)
  PROVE  Fresh'
<1>1. UNCHANGED <<sentIn, fgSessionId, fg_send_buffer>> /\ Held' = Held
  BY DEF HubChangesMode, LoseChange, HubRestart, HubSends, users, status, link, sent, Held
<1>2. CASE HubChangesMode \/ LoseChange
  <2>1. UNCHANGED <<toHost, hubSession>> /\ Arriving' = Arriving
    BY <1>2 DEF HubChangesMode, LoseChange, hub, Arriving
  <2>2. /\ 1 \in Sent /\ Head(toHub) = toHub[1]
        /\ \A i \in Sent' : i + 1 \in Sent /\ toHub'[i] = toHub[i + 1]
    BY <1>2, Delivery
  <2>3. hubSession > fgSessionId => hubMode' = NoMode
    <3>1. hubSession > fgSessionId => toHub[1].session # hubSession
      BY <2>2, Queues DEF Fresh
    <3> QED BY <1>2, <2>2, <3>1 DEF HubChangesMode, LoseChange, hub, Fresh
  <2>4. \A i \in Sent' : toHub'[i].session <= fgSessionId
    BY <2>2 DEF Fresh
  <2> QED BY <1>1, <2>1, <2>3, <2>4 DEF Fresh
<1>3. CASE HubRestart
  <2>1. /\ UNCHANGED <<toHost, toHub>> /\ Arriving' = Arriving /\ Sent' = Sent
        /\ hubSession' = hubSession + 1 /\ hubMode' = NoMode
    BY <1>3 DEF HubRestart, link, sent, Arriving, Sent
  <2>2. /\ fgSessionId <= hubSession'
        /\ \A i \in Arriving : toHost[i].session \in fgSessionId..hubSession'
    BY <2>1, Queues DEF Fresh
  <2> QED BY <1>1, <2>1, <2>2 DEF Fresh
<1>4. ASSUME NEW type \in {"status", "telemetry", "hello"}, HubSends(type) PROVE Fresh'
  <2>1. UNCHANGED <<toHub, hubSession, hubMode>> /\ Sent' = Sent
    BY <1>4 DEF HubSends, hub, sent, Sent
  <2>2. PICK n \in Arriving' :
           /\ toHost'[n] = [type |-> type, session |-> hubSession, mode |-> hubMode]
           /\ \A i \in Arriving : toHost'[i] = toHost[i] /\ i \in Nat /\ i < n
           /\ \A i \in Arriving' : i \in Arriving \/ i = n
    BY <1>4, Departure
  <2>3. n \in Nat
    BY DEF Arriving
  <2>4. \A i \in Arriving' : toHost'[i].session \in fgSessionId..hubSession
    BY <2>2, Queues DEF Fresh
  <2>5. \A i, j \in Arriving' : i < j => toHost'[i].session <= toHost'[j].session
    <3> SUFFICES ASSUME NEW i \in Arriving', NEW j \in Arriving', i < j
                 PROVE  toHost'[i].session <= toHost'[j].session
      OBVIOUS
    <3>1. i \in Arriving
      <4>1. CASE i = n
        <5>1. \A k \in Arriving' : k <= n /\ k \in Nat
          BY <2>2, <2>3
        <5> QED BY <2>3, <4>1, <5>1
      <4> QED BY <2>2, <4>1
    <3>2. CASE j \in Arriving
      BY <2>2, <3>1, <3>2 DEF Fresh
    <3>3. CASE j = n
      <4>1. toHost[i].session <= hubSession
        BY <3>1, Queues DEF Fresh
      <4> QED BY <2>2, <3>1, <3>3, <4>1
    <3> QED BY <2>2, <3>2, <3>3
  <2>6. \A i \in Arriving' : /\ toHost'[i].session > fgSessionId => toHost'[i].mode = NoMode
                             /\ toHost'[i].type = "telemetry" => toHost'[i].mode = Reflection
    <3>1. /\ toHost'[n].session = hubSession /\ toHost'[n].mode = hubMode
          /\ toHost'[n].type = type
      BY <2>2
    <3>2. type = "telemetry" => hubMode = Reflection
      BY <1>4 DEF HubSends
    <3> QED BY <2>2, <3>1, <3>2 DEF Fresh
  <2> QED BY <1>1, <2>1, <2>4, <2>5, <2>6 DEF Fresh
<1> QED BY <1>2, <1>3, <1>4

\* Sessions keep their order.
LEMMA FreshKept == ASSUME TypeOK, Fresh, [Next]_vars PROVE Fresh'
<1>1. CASE UNCHANGED vars
  BY <1>1 DEF vars, users, status, link, sent, hub, Fresh, Sent, Held, Arriving
<1>2. CASE Flush
  <2>1. UNCHANGED <<fgSessionId, toHost, hubSession, hubMode, sentIn>> /\ Arriving' = Arriving
    BY <1>2, Flushing DEF users, status, hub, Arriving
  <2>2. /\ \A i \in Sent' : toHub'[i].session <= fgSessionId
        /\ \A i \in Held' : fg_send_buffer'[i].session <= fgSessionId
    BY <1>2, Flushing DEF Fresh
  <2> QED BY <2>1, <2>2 DEF Fresh
<1> QED BY <1>1, <1>2, Steps, GetterKeepsFresh, ReceiverKeepsFresh, HubKeepsFresh

\* Data of an earlier session is dropped, or zeroed before the receiver goes on.
LEMMA StatusOfThisSessionKept ==
  ASSUME TypeOK, StatusOfThisSession, [Next]_vars
  PROVE  StatusOfThisSession'
<1>1. CASE UNCHANGED status
  BY <1>1 DEF status, StatusOfThisSession
<1>2. CASE ReceiveStatus
  <2>1. /\ UNCHANGED <<fgSessionId, clearing>> /\ ~clearing
        /\ fgStatus' = fgStatus \/ (fgStatus'.session = Head(toHost).session /\ OfThisSession)
    BY <1>2, Arrival DEF ReceiveStatus
  <2> QED BY <2>1 DEF StatusOfThisSession, OfThisSession
<1>3. CASE ReceiveTelemetry
  <2>1. /\ UNCHANGED <<fgSessionId, clearing>> /\ ~clearing
        /\ fgStatus' = fgStatus \/ fgStatus'.session = fgSessionId
    BY <1>3, Arrival DEF ReceiveTelemetry, TypeOK, Entry
  <2> QED BY <2>1 DEF StatusOfThisSession
<1>4. CASE ReceiveHello
  <2>1. CASE OfThisSession
    <3>1. ~clearing /\ fgSessionId' = fgSessionId /\ fgStatus' = fgStatus
      BY <1>4, <2>1, Arrival DEF ReceiveHello, OfThisSession
    <3> QED BY <3>1 DEF StatusOfThisSession
  <2>2. CASE ~OfThisSession
    BY <1>4, <2>2 DEF ReceiveHello, StatusOfThisSession
  <2> QED BY <2>1, <2>2
<1>5. CASE ClearStatus
  BY <1>5 DEF ClearStatus, Cleared, StatusOfThisSession
<1>6. \/ UNCHANGED status
      \/ ReceiveStatus \/ ReceiveTelemetry \/ ReceiveHello \/ ClearStatus
  BY Steps, GetterLeaves DEF Flush, HubChangesMode, LoseChange, HubRestart, HubSends, vars
<1> QED BY <1>1, <1>2, <1>3, <1>4, <1>5, <1>6

-----------------------------------------------------------------------------
(* Modes. *)

\* Nothing is measured in the first state.
LEMMA UndisturbedAtFirst == Init => Unasked /\ Alone /\ Agreed /\ Relied /\ HeldIsOld
<1> SUFFICES ASSUME Init PROVE Unasked /\ Alone /\ Agreed /\ Relied /\ HeldIsOld
  OBVIOUS
<1>1. /\ \A u \in User : pc[u] = "idle"
      /\ toHub = <<>> /\ toHost = <<>> /\ fg_send_buffer = <<>> /\ hubMode = NoMode
      /\ ~clearing /\ fgStatus = [cmd |-> NoMode, data |-> Zero, session |-> 0]
  BY DEF Init, Cleared
<1>2. Shown = fgStatus /\ Matches(Shown) /\ Shown.cmd = NoMode
  BY <1>1 DEF Shown, Matches, Measured
<1>3. Settled(NoMode)
  BY <1>1 DEF Settled, Arriving, Sent
<1>4. HeldIsOld
  BY <1>1 DEF HeldIsOld, Held
<1> QED BY <1>1, <1>2, <1>3, <1>4 DEF Unasked, Alone, Agreed, Steady, Relied, Pending

\* What getters do but send a change is not seen by the hub.
LEMMA ElsewhereIsAgreed ==
  ASSUME UNCHANGED <<status, toHost, toHub, hub>>
  PROVE  /\ UNCHANGED <<fgStatus, fgSessionId, clearing, Shown>>
         /\ Steady => Steady'
         /\ \A m, w : Turning(m, w) => Turning(m, w)'
<1>1. UNCHANGED <<fgStatus, fgSessionId, clearing, toHost, toHub, hubSession, hubMode>>
  BY DEF status, hub
<1>2. UNCHANGED <<Shown, Arriving, Sent>>
  BY <1>1 DEF Shown, Arriving, Sent
<1>3. Steady => Steady'
  BY <1>1, <1>2 DEF Steady, Matches, Measured, Settled, Current, Change
<1>4. ASSUME NEW m, NEW w, Turning(m, w) PROVE Turning(m, w)'
  BY <1>1, <1>2, <1>4 DEF Turning, Current, Change
<1> QED BY <1>1, <1>2, <1>3, <1>4

\* A getter begins when no other is under way.
LEMMA GetKeepsModes ==
  ASSUME TypeOK, Alone, Agreed, Relied, NEW u \in User, NEW m \in Mode, Get(u, m),
         ~disturbed'
  PROVE  Alone' /\ Agreed' /\ Relied'
<1>1. /\ \A v \in User : pc[v] = "idle"
      /\ pc' = [pc EXCEPT ![u] = "check"] /\ UNCHANGED <<status, toHost, toHub, hub>>
  BY DEF Get, Goto, link, sent
<1>2. \A v \in User : pc'[v] = IF v = u THEN "check" ELSE "idle"
  BY <1>1 DEF TypeOK
<1>3. Alone'
  BY <1>2 DEF Alone
<1>4. Steady
  BY <1>1 DEF Agreed, Pending
<1>5. Steady' /\ UNCHANGED <<fgStatus, fgSessionId, clearing, Shown>>
  BY <1>1, <1>4, ElsewhereIsAgreed
<1>6. Relied'
  BY <1>1, <1>2, <1>5 DEF Relied, Pending, Matches, Measured
<1> QED BY <1>3, <1>5, <1>6 DEF Agreed

\* The change of mode goes to a hub that is in another mode.
LEMMA SendChangeKeepsModes ==
  ASSUME TypeOK, Fresh, Alone, Agreed, Relied, HeldIsOld, NEW u \in User, SendChange(u)
  PROVE  Alone' /\ Agreed' /\ Relied'
<1>1. /\ pc[u] = "send" /\ pc' = [pc EXCEPT ![u] = "wait"]
      /\ sentIn' = [sentIn EXCEPT ![u] = fgSessionId]
      /\ UNCHANGED <<want, status, toHost, hub>>
  BY DEF SendChange, Goto
<1>2. UNCHANGED <<fgStatus, fgSessionId, clearing, hubSession, hubMode, Shown, Arriving>>
  BY <1>1 DEF status, hub, Shown, Arriving
<1>3. \A v \in User \ {u} : pc[v] = "idle" /\ pc'[v] = "idle"
  BY <1>1 DEF Alone, TypeOK
<1>4. pc'[u] = "wait" /\ sentIn'[u] = fgSessionId
  BY <1>1 DEF TypeOK
<1>5. Steady
  BY <1>1, <1>3 DEF Agreed, Pending
<1>6. Shown.cmd # want[u] /\ fgStatus.cmd # want[u]
  <2>1. fgStatus.cmd # want[u] /\ want[u] # NoMode
    BY <1>1, SensorAssumption DEF Relied, TypeOK
  <2> QED BY <2>1 DEF Shown, Cleared
<1>7. Turning(Shown.cmd, want[u])'
  <2>1. PICK n \in Sent' : /\ n \notin Sent /\ toHub'[n] = Wanted(u)
                           /\ \A i \in Sent : toHub'[i] = toHub[i]
                           /\ \A i \in Sent' : \/ i \in Sent \/ i = n
                                               \/ \E j \in Held : toHub'[i] = fg_send_buffer[j]
    BY Dispatch
  <2>2. /\ \A i \in Arriving : Current(i) => toHost[i].mode = Shown.cmd
        /\ hubSession = fgSessionId => hubMode = Shown.cmd
        /\ \A i \in Sent : toHub[i].session # fgSessionId
    BY <1>5 DEF Steady, Settled, Change
  <2>3. toHub'[n].mode = want[u] /\ \A i \in Sent' : Change(i)' => i = n
    BY <1>2, <2>1, <2>2 DEF Change, Wanted, HeldIsOld
  <2>4. \A i \in Arriving : Current(i)' <=> Current(i)
    BY <1>1, <1>2 DEF Current
  <2> HIDE DEF Shown
  <2> QED BY <1>1, <1>2, <1>6, <2>2, <2>3, <2>4 DEF Turning
<1>8. Alone' /\ Pending(u)'
  BY <1>2, <1>3, <1>4 DEF Alone, Pending
<1>9. Relied'
  <2>1. \A v \in User : pc'[v] \in {"idle", "wait"} /\ (pc'[v] = "wait" => v = u)
    BY <1>3, <1>4
  <2> QED BY <1>1, <1>2, <1>4, <1>6, <2>1 DEF Relied, Pending
<1> QED BY <1>1, <1>2, <1>6, <1>7, <1>8, <1>9 DEF Agreed

\* The other steps of a getter: one that gives up on a change that may still be
\* reported disturbs the others; one that goes on has seen the mode it wants.
LEMMA GetterKeepsModes ==
  ASSUME TypeOK, Alone, Agreed, Relied, NEW u \in User, Getter(u), ~SendChange(u),
         ~FlushFails(u), ~disturbed'
  PROVE  Alone' /\ Agreed' /\ Relied'
<1>1. /\ UNCHANGED <<status, toHost, toHub, hub, want, sentIn>> /\ pc[u] # "idle"
      /\ \A v \in User \ {u} : pc[v] = "idle" /\ pc'[v] = "idle"
  <2>1. UNCHANGED <<status, toHost, toHub, hub, sentIn>>
    BY GetterLeaves DEF sent
  <2>2. want' = want /\ pc[u] # "idle"
    BY DEF Getter, CheckMode, SendFails, ModeReported, WaitTimesOut, ReadData
  <2>3. \A v \in User \ {u} : pc'[v] = pc[v]
    BY GetterLeaves DEF TypeOK
  <2> QED BY <2>1, <2>2, <2>3 DEF Alone
<1>2. UNCHANGED <<fgStatus, fgSessionId, clearing, Shown>>
  BY <1>1, ElsewhereIsAgreed
<1>3. Alone'
  BY <1>1 DEF Alone
<1>4. /\ pc'[u] \in {"idle", "read", "send"}
      /\ pc'[u] = "read" => fgStatus.cmd = want[u]
      /\ pc'[u] = "send" => fgStatus.cmd # want[u]
  BY <1>1 DEF Getter, CheckMode, SendFails, ModeReported, WaitTimesOut, ReadData, Goto,
              ReturnZero, TypeOK
<1>5. pc[u] = "wait" => (fgStatus.cmd = want[u]) \/ (sentIn[u] # fgSessionId /\ ~clearing)
  <2>1. CASE WaitTimesOut(u)
    BY <2>1 DEF WaitTimesOut, UnderWay
  <2>2. CASE ~WaitTimesOut(u)
    BY <2>2 DEF Getter, CheckMode, SendFails, ModeReported, ReadData
  <2> QED BY <2>1, <2>2
<1>6. Steady
  <2> SUFFICES ASSUME Pending(u), Shown.cmd # want[u] PROVE FALSE
    BY <1>1 DEF Agreed, Pending
  <2>1. pc[u] = "wait" /\ fgStatus.cmd = want[u]
    BY <1>5 DEF Pending
  <2>2. ~clearing
    BY <2>1 DEF Relied
  <2> QED BY <2>1, <2>2 DEF Shown
<1>7. Steady'
  BY <1>1, <1>6, ElsewhereIsAgreed
<1>8. Relied'
  <2>1. clearing => Matches(fgStatus)
    BY <1>1, <1>5 DEF Relied
  <2>2. \A v \in User : ~(pc'[v] = "wait")
    BY <1>1, <1>4
  <2>3. Matches(fgStatus)' = Matches(fgStatus)
    BY <1>2 DEF Matches, Measured
  <2> QED BY <1>1, <1>2, <1>4, <2>1, <2>2, <2>3 DEF Relied, Pending
<1> QED BY <1>3, <1>7, <1>8 DEF Agreed

\* What was said of the frames holds of those behind the first one.
LEMMA ArrivalKeepsSettled ==
  ASSUME TypeOK, NEW type, Receiving(type), UNCHANGED <<fgSessionId, toHub, hub>>
  PROVE  /\ \A m : Settled(m) => Settled(m)'
         /\ \A m, w : Turning(m, w) => Turning(m, w)'
         /\ \A m, w : Turning(m, w) /\ m # w /\ Current(1) /\ toHost[1].mode = w => Settled(w)'
<1>1. UNCHANGED <<fgSessionId, toHub, hubSession, hubMode, Sent>>
  BY DEF hub, Sent
<1>2. /\ 1 \in Arriving
      /\ \A i \in Arriving' : /\ i \in Nat \ {0} /\ i + 1 \in Arriving /\ i + 1 > 1
                              /\ toHost'[i] = toHost[i + 1]
                              /\ Current(i)' => Current(i + 1)
  <2>1. /\ 1 \in Arriving
        /\ \A i \in Arriving' : /\ i \in Nat \ {0} /\ i + 1 \in Arriving
                                /\ toHost'[i] = toHost[i + 1]
    BY Arrival
  <2> QED BY <1>1, <2>1 DEF Current
<1>3. \A i \in Sent : Change(i)' <=> Change(i)
  BY <1>1 DEF Change
<1>4. ASSUME NEW m, Settled(m) PROVE Settled(m)'
  BY <1>1, <1>2, <1>3, <1>4 DEF Settled
<1>5. ASSUME NEW m, NEW w, Turning(m, w) PROVE Turning(m, w)'
  <2>1. \A i \in Arriving' : Current(i)' => toHost'[i].mode \in {m, w}
    BY <1>2, <1>5 DEF Turning
  <2>2. ASSUME NEW i \in Arriving', NEW j \in Arriving', Current(i)', Current(j)', i < j,
               toHost'[i].mode = w
        PROVE  toHost'[j].mode = w
    <3>1. i + 1 < j + 1
      BY <1>2, <2>2
    <3> QED BY <1>2, <1>5, <2>2, <3>1 DEF Turning
  <2>3. hubSession = fgSessionId =>
          /\ hubMode \in {m, w}
          /\ \A i \in Arriving' : Current(i)' /\ toHost'[i].mode = w => hubMode = w
    BY <1>2, <1>5 DEF Turning
  <2>4. \A i \in Sent : Change(i) =>
          /\ toHub[i].mode = w
          /\ \A j \in Sent : Change(j) => j = i
          /\ \A j \in Arriving' : Current(j)' => toHost'[j].mode = m
          /\ hubSession = fgSessionId => hubMode = m
    BY <1>2, <1>5 DEF Turning
  <2> QED BY <1>1, <1>3, <2>1, <2>2, <2>3, <2>4 DEF Turning
<1>6. ASSUME NEW m, NEW w, Turning(m, w), m # w, Current(1), toHost[1].mode = w
      PROVE  Settled(w)'
  <2>1. \A i \in Arriving' : Current(i)' => toHost'[i].mode = w
    BY <1>2, <1>6 DEF Turning
  <2>2. hubSession = fgSessionId => hubMode = w
    BY <1>2, <1>6 DEF Turning
  <2>3. \A i \in Sent : ~Change(i)
    BY <1>2, <1>6 DEF Turning
  <2> QED BY <1>1, <1>3, <2>1, <2>2, <2>3 DEF Settled
<1> QED BY <1>4, <1>5, <1>6

\* A status frame of this session shows what the hub has measured.
LEMMA ReceiveStatusKeepsModes ==
  ASSUME TypeOK, Alone, Agreed, Relied, ReceiveStatus
  PROVE  Alone' /\ Agreed' /\ Relied'
<1>1. /\ Receiving("status") /\ ~clearing /\ 1 \in Arriving /\ Head(toHost) = toHost[1]
      /\ UNCHANGED <<pc, want, sentIn, fgSessionId, clearing, toHub, hub>>
  BY Arrival DEF ReceiveStatus, Receiving, users, sent
<1>2. /\ ~Current(1) => fgStatus' = fgStatus
      /\ Current(1) => /\ fgStatus'.cmd = toHost[1].mode
                       /\ fgStatus'.data = Measured(toHost[1].mode)
  BY <1>1 DEF ReceiveStatus, OfThisSession, Current, Measured
<1>3. Shown = fgStatus /\ Shown' = fgStatus'
  BY <1>1 DEF Shown
<1>4. CASE Steady
  <2>1. fgStatus'.cmd = fgStatus.cmd /\ Matches(fgStatus)'
    BY <1>1, <1>2, <1>3, <1>4 DEF Steady, Settled, Matches, Measured
  <2>2. \A m : Settled(m) => Settled(m)'
    BY <1>1, ArrivalKeepsSettled
  <2>3. Steady'
    BY <1>3, <1>4, <2>1, <2>2 DEF Steady, Settled, Current, Change
  <2> QED BY <1>1, <2>1, <2>3 DEF Alone, Agreed, Relied, Pending
<1>5. ASSUME NEW u \in User, Pending(u), Shown.cmd # want[u], Turning(Shown.cmd, want[u])
      PROVE  Alone' /\ Agreed' /\ Relied'
  <2>1. Alone' /\ Relied'
    <3>1. \A v \in User : pc[v] \notin {"send", "read"}
      BY <1>5 DEF Alone, Pending
    <3> QED BY <1>1, <3>1 DEF Alone, Relied, Pending
  <2>2. CASE Current(1) /\ toHost[1].mode = want[u]
    <3>1. fgStatus'.cmd = want[u] /\ Matches(fgStatus)'
      BY <1>2, <2>2 DEF Matches, Measured
    <3>2. Settled(want[u])'
      BY <1>1, <1>5, <2>2, ArrivalKeepsSettled
    <3>3. Steady'
      BY <1>1, <1>3, <3>1, <3>2 DEF Steady, Settled, Current, Change
    <3> QED BY <2>1, <3>3 DEF Agreed
  <2>3. CASE ~(Current(1) /\ toHost[1].mode = want[u])
    <3>1. fgStatus'.cmd = fgStatus.cmd
      BY <1>1, <1>2, <1>3, <1>5, <2>3 DEF Turning
    <3>2. Turning(Shown.cmd, want[u])'
      <4> DEFINE m == Shown.cmd
                 w == want[u]
      <4>1. Shown'.cmd = m /\ want'[u] = w
        BY <1>1, <1>3, <3>1
      <4>2. \A x, y : Turning(x, y) => Turning(x, y)'
        BY <1>1, ArrivalKeepsSettled
      <4> QED BY <1>1, <1>5, <4>1, <4>2 DEF Turning, Current, Change
    <3> QED BY <1>1, <1>3, <1>5, <2>1, <3>1, <3>2 DEF Agreed, Pending
  <2> QED BY <2>2, <2>3
<1> QED BY <1>4, <1>5 DEF Agreed

\* Drive telemetry comes from a hub that measures the reflection.
LEMMA ReceiveTelemetryKeepsModes ==
  ASSUME TypeOK, Fresh, Alone, Agreed, Relied, ReceiveTelemetry
  PROVE  Alone' /\ Agreed' /\ Relied'
<1>1. /\ Receiving("telemetry") /\ ~clearing /\ 1 \in Arriving /\ Head(toHost) = toHost[1]
      /\ toHost[1].mode = Reflection
      /\ UNCHANGED <<pc, want, sentIn, fgSessionId, clearing, toHub, hub>>
  BY Arrival DEF ReceiveTelemetry, Receiving, users, sent, Fresh
<1>2. /\ ~Current(1) => fgStatus' = fgStatus
      /\ Current(1) /\ fgStatus.data \in {Zero, Reflection} => fgStatus'.data = Reflection
      /\ fgStatus'.cmd = fgStatus.cmd
  BY <1>1 DEF ReceiveTelemetry, OfThisSession, Current, TypeOK, Entry
<1>3. Shown = fgStatus /\ Shown' = fgStatus'
  BY <1>1 DEF Shown
<1>4. Alone' /\ Relied'
  BY <1>1, <1>2 DEF Alone, Relied, Pending
<1>5. \A m, w : (Settled(m) => Settled(m)') /\ (Turning(m, w) => Turning(m, w)')
  BY <1>1, ArrivalKeepsSettled
<1>6. CASE Steady
  <2>1. Matches(fgStatus)'
    <3>1. CASE Current(1)
      <4>1. fgStatus.cmd = Reflection /\ fgStatus.data = Reflection /\ Reflection # NoMode
        BY <1>1, <1>3, <1>6, <3>1, SensorAssumption DEF Steady, Settled, Matches, Measured
      <4> QED BY <1>2, <3>1, <4>1 DEF Matches, Measured
    <3>2. CASE ~Current(1)
      BY <1>2, <1>3, <1>6, <3>2 DEF Steady, Matches, Measured
    <3> QED BY <3>1, <3>2
  <2>2. Steady'
    BY <1>2, <1>3, <1>5, <1>6, <2>1 DEF Steady, Settled, Current, Change
  <2> QED BY <1>4, <2>2 DEF Agreed
<1>7. ASSUME NEW u \in User, Pending(u), Shown.cmd # want[u], Turning(Shown.cmd, want[u])
      PROVE  Agreed'
  <2>1. Shown'.cmd = Shown.cmd /\ want'[u] = want[u]
    BY <1>1, <1>2, <1>3
  <2>2. Turning(Shown.cmd, want[u])'
    <3>1. PICK m, w : m = Shown.cmd /\ w = want[u]
      OBVIOUS
    <3>2. Turning(m, w)'
      BY <1>5, <1>7, <3>1
    <3> QED BY <2>1, <3>1, <3>2 DEF Turning, Current, Change
  <2> QED BY <1>1, <1>7, <2>1, <2>2 DEF Agreed, Pending
<1> QED BY <1>4, <1>6, <1>7 DEF Agreed

\* In a new session the hub is in no mode, and nobody has asked for one.
LEMMA NewSession ==
  ASSUME TypeOK, Fresh, ReceiveHello, fgSessionId' # fgSessionId
  PROVE  Settled(NoMode)' /\ HeldIsOld'
<1>1. /\ Receiving("hello") /\ UNCHANGED <<toHub, fg_send_buffer, hub, Sent, Held>>
      /\ fgSessionId' = toHost[1].session /\ 1 \in Arriving
  BY Arrival DEF ReceiveHello, sent, Sent, Held
<1>2. /\ fgSessionId' \in Nat /\ fgSessionId \in Nat /\ hubSession \in Nat
      /\ fgSessionId' > fgSessionId
  BY <1>1, Queues DEF Fresh
<1>3. \A i \in Arriving' : Current(i)' => toHost'[i].mode = NoMode
  <2>1. \A i \in Arriving' : i + 1 \in Arriving /\ toHost'[i] = toHost[i + 1]
    BY <1>1, Arrival
  <2> QED BY <1>2, <2>1 DEF Fresh, Current
<1>4. hubSession = fgSessionId' => hubMode = NoMode
  BY <1>2 DEF Fresh
<1>5. \A i \in Sent' : ~Change(i)'
  BY <1>1, <1>2, Queues DEF Fresh, Sent, Change
<1>6. HeldIsOld'
  BY <1>1, <1>2, Queues DEF Fresh, HeldIsOld
<1> QED BY <1>1, <1>3, <1>4, <1>5, <1>6 DEF Settled, hub

\* What was shown is now zeroed; what getters of the last session wait for is not shown.
LEMMA ReceiveHelloKeepsModes ==
  ASSUME TypeOK, Fresh, Alone, Agreed, Relied, ReceiveHello
  PROVE  Alone' /\ Agreed' /\ Relied'
<1>1. /\ Receiving("hello") /\ ~clearing /\ 1 \in Arriving /\ Head(toHost) = toHost[1]
      /\ fgSessionId' = toHost[1].session /\ (clearing' <=> fgSessionId' # fgSessionId)
      /\ UNCHANGED <<pc, want, sentIn, fgStatus, toHub, hub>>
  BY Arrival DEF ReceiveHello, Receiving, users, sent, OfThisSession
<1>2. Shown = fgStatus
  BY <1>1 DEF Shown
<1>3. Alone'
  BY <1>1 DEF Alone
<1>4. CASE fgSessionId' = fgSessionId
  <2>1. ~clearing' /\ Shown' = Shown
    BY <1>1, <1>2, <1>4 DEF Shown
  <2>2. \A m, w : (Settled(m) => Settled(m)') /\ (Turning(m, w) => Turning(m, w)')
    BY <1>1, <1>4, ArrivalKeepsSettled
  <2>3. Steady => Steady'
    BY <2>1, <2>2 DEF Steady, Matches, Measured, Settled, Current, Change
  <2>4. ASSUME NEW u \in User, Pending(u), Shown.cmd # want[u], Turning(Shown.cmd, want[u])
        PROVE  Agreed'
    <3>1. Shown'.cmd = Shown.cmd /\ want'[u] = want[u]
      BY <1>1, <2>1
    <3>2. Turning(Shown.cmd, want[u])'
      <4>1. PICK m, w : m = Shown.cmd /\ w = want[u]
        OBVIOUS
      <4>2. Turning(m, w)'
        BY <2>2, <2>4, <4>1
      <4> QED BY <3>1, <4>1, <4>2 DEF Turning, Current, Change
    <3> QED BY <1>1, <1>4, <2>4, <3>1, <3>2 DEF Agreed, Pending
  <2>5. Relied'
    BY <1>1, <2>1 DEF Relied, Pending
  <2> QED BY <1>3, <2>3, <2>4, <2>5 DEF Agreed
<1>5. CASE fgSessionId' # fgSessionId
  <2>1. /\ fgSessionId' \in Nat /\ fgSessionId \in Nat /\ hubSession \in Nat
        /\ fgSessionId' > fgSessionId
    BY <1>1, <1>5, Queues DEF Fresh
  <2>2. clearing' /\ Shown' = Cleared
    BY <1>1, <1>5 DEF Shown
  <2>3. Settled(NoMode)'
    BY <1>5, NewSession
  <2>4. Steady'
    BY <2>2, <2>3 DEF Steady, Matches, Measured, Cleared, Settled, Current, Change
  <2>5. \A u \in User : ~Pending(u)'
    BY <1>1, <2>1, Queues DEF Fresh, Pending
  <2>6. Matches(fgStatus) \/ \E u \in User : pc[u] = "wait" /\ fgStatus.cmd # want[u]
    BY <1>2 DEF Agreed, Steady, Pending
  <2>7. Relied'
    BY <1>1, <2>5, <2>6 DEF Relied, Matches, Measured
  <2> QED BY <1>3, <2>4, <2>7 DEF Agreed
<1> QED BY <1>4, <1>5

\* The zeroing was shown already.
LEMMA ClearStatusKeepsModes ==
  ASSUME TypeOK, Alone, Agreed, Relied, ClearStatus
  PROVE  Alone' /\ Agreed' /\ Relied'
<1>1. /\ clearing /\ ~clearing' /\ fgStatus' = Cleared
      /\ UNCHANGED <<pc, want, sentIn, fgSessionId, toHub, toHost, hub>>
  BY DEF ClearStatus, link, sent
<1>2. Shown' = Shown
  BY <1>1 DEF Shown
<1>3. UNCHANGED <<Arriving, Sent, hubSession, hubMode, pc, want, sentIn>>
  BY <1>1 DEF Arriving, Sent, hub
<1>4. Steady => Steady'
  BY <1>1, <1>2, <1>3 DEF Steady, Matches, Measured, Settled, Current, Change
<1>5. \A m, w : Turning(m, w) => Turning(m, w)'
  BY <1>1, <1>3 DEF Turning, Current, Change
<1>6. ASSUME NEW u \in User, Pending(u), Shown.cmd # want[u], Turning(Shown.cmd, want[u])
      PROVE  Agreed'
  <2>1. Turning(Shown.cmd, want[u])'
    <3>1. PICK m, w : m = Shown.cmd /\ w = want[u]
      OBVIOUS
    <3>2. Turning(m, w)'
      BY <1>5, <1>6, <3>1
    <3> QED BY <1>2, <1>3, <3>1, <3>2 DEF Turning, Current, Change
  <2> QED BY <1>1, <1>2, <1>3, <1>6, <2>1 DEF Agreed, Pending
<1>7. Agreed'
  BY <1>4, <1>6 DEF Agreed
<1>8. Relied'
  <2>1. \A u \in User : want[u] # NoMode
    BY SensorAssumption DEF TypeOK
  <2>2. fgStatus'.cmd = NoMode
    BY <1>1 DEF Cleared
  <2> QED BY <1>1, <1>3, <2>1, <2>2 DEF Relied, Pending
<1>9. Alone'
  BY <1>3 DEF Alone
<1> QED BY <1>7, <1>8, <1>9

\* A step of the hub or the link, or a flush that is not a getter's.
Unseen ==
  /\ UNCHANGED <<users, status>>
  /\ \A m : Settled(m) => Settled(m)'
  /\ \A m, w : m # w /\ Turning(m, w) => Turning(m, w)'

\* What the hub does is not seen by the getters until the receiver shows it.
LEMMA HubIsNotSeen ==
  ASSUME Alone, Agreed, Relied, Unseen
  PROVE  Alone' /\ Agreed' /\ Relied'
<1>1. UNCHANGED <<pc, want, sentIn, fgStatus, fgSessionId, clearing, Shown>>
  BY DEF Unseen, users, status, Shown
<1>2. Alone' /\ Relied'
  BY <1>1 DEF Alone, Relied, Pending, Matches, Measured
<1>3. Steady => Steady'
  BY <1>1 DEF Unseen, Steady, Matches, Measured, Settled, Current, Change
<1>4. ASSUME NEW u \in User, Pending(u), Shown.cmd # want[u], Turning(Shown.cmd, want[u])
      PROVE  Agreed'
  <2>1. PICK m, w : m = Shown.cmd /\ w = want[u]
    OBVIOUS
  <2>2. Turning(m, w)'
    BY <1>4, <2>1 DEF Unseen
  <2>3. Turning(Shown.cmd, want[u])'
    BY <1>1, <2>1, <2>2 DEF Turning, Current, Change
  <2> QED BY <1>1, <1>4, <2>3 DEF Agreed, Pending
<1> QED BY <1>2, <1>3, <1>4 DEF Agreed

\* The hub carries out a change of this session, or drops one of an earlier session, or the
\* link loses it.
LEMMA HubChangesUnseen ==
  ASSUME TypeOK, Fresh, HubChangesMode \/ LoseChange
  PROVE  Unseen
<1>1. UNCHANGED <<users, status, toHost, hubSession, fgSessionId, Arriving>>
  BY DEF HubChangesMode, LoseChange, status, hub, Arriving
<1>2. /\ 1 \in Sent /\ Head(toHub) = toHub[1]
      /\ \A i \in Sent' : /\ i \in Nat \ {0} /\ i + 1 \in Sent /\ i + 1 # 1
                          /\ toHub'[i] = toHub[i + 1]
  BY Delivery
<1>3. \A i \in Arriving : Current(i)' <=> Current(i)
  BY <1>1 DEF Current
<1>4. \A i \in Sent' : Change(i)' => Change(i + 1)
  BY <1>1, <1>2 DEF Change
<1>5. /\ hubMode' \in {hubMode, toHub[1].mode}
      /\ ~Change(1) => hubMode' = hubMode
  <2>1. ~Change(1) => toHub[1].session # hubSession
    BY <1>2, Queues DEF Fresh, Change
  <2> QED BY <1>2, <2>1 DEF HubChangesMode, LoseChange, hub, Change
<1>6. ASSUME NEW m, Settled(m) PROVE Settled(m)'
  <2>1. ~Change(1)
    BY <1>2, <1>6 DEF Settled
  <2> QED BY <1>1, <1>2, <1>3, <1>4, <1>5, <1>6, <2>1 DEF Settled
<1>7. ASSUME NEW m, NEW w, m # w, Turning(m, w) PROVE Turning(m, w)'
  <2>1. CASE Change(1)
    <3>1. /\ toHub[1].mode = w /\ \A i \in Sent : Change(i) => i = 1
          /\ \A j \in Arriving : Current(j) => toHost[j].mode = m
      BY <1>2, <1>7, <2>1 DEF Turning
    <3>2. \A i \in Sent' : ~Change(i)'
      BY <1>2, <1>4, <3>1
    <3>3. hubSession = fgSessionId => hubMode' \in {m, w}
      BY <1>2, <1>5, <1>7, <2>1, <3>1 DEF Turning
    <3> QED BY <1>1, <1>3, <1>7, <3>1, <3>2, <3>3 DEF Turning
  <2>2. CASE ~Change(1)
    <3>1. hubMode' = hubMode
      BY <1>5, <2>2
    <3>2. ASSUME NEW i \in Sent', Change(i)'
          PROVE  /\ toHub'[i].mode = w
                 /\ \A j \in Sent' : Change(j)' => j = i
                 /\ \A j \in Arriving : Current(j) => toHost[j].mode = m
                 /\ hubSession = fgSessionId => hubMode = m
      <4>1. i + 1 \in Sent /\ Change(i + 1) /\ toHub'[i] = toHub[i + 1]
        BY <1>2, <1>4, <3>2
      <4>2. \A j \in Sent : Change(j) => j = i + 1
        BY <1>7, <4>1 DEF Turning
      <4>3. \A j \in Sent' : Change(j)' => j = i
        <5> SUFFICES ASSUME NEW j \in Sent', Change(j)' PROVE j = i
          OBVIOUS
        <5>1. j + 1 = i + 1 /\ i \in Nat /\ j \in Nat
          BY <1>2, <1>4, <4>2
        <5> QED BY <5>1
      <4> QED BY <1>7, <4>1, <4>3 DEF Turning
    <3>3. /\ \A i \in Arriving : Current(i) => toHost[i].mode \in {m, w}
          /\ \A i, j \in Arriving :
               Current(i) /\ Current(j) /\ i < j /\ toHost[i].mode = w => toHost[j].mode = w
          /\ hubSession = fgSessionId =>
               /\ hubMode \in {m, w}
               /\ \A i \in Arriving : Current(i) /\ toHost[i].mode = w => hubMode = w
      BY <1>7 DEF Turning
    <3> QED BY <1>1, <1>3, <3>1, <3>2, <3>3 DEF Turning
  <2> QED BY <2>1, <2>2
<1> QED BY <1>1, <1>6, <1>7 DEF Unseen

\* A hub that starts again is no longer in the session of the host.
LEMMA HubRestartUnseen ==
  ASSUME TypeOK, Fresh, HubRestart
  PROVE  Unseen
<1>1. /\ UNCHANGED <<users, status, toHost, toHub, fgSessionId, Arriving, Sent>>
      /\ hubSession' # fgSessionId
  BY Queues DEF HubRestart, status, link, sent, Arriving, Sent, Fresh
<1>2. ASSUME NEW m, Settled(m) PROVE Settled(m)'
  BY <1>1, <1>2 DEF Settled, Current, Change
<1>3. ASSUME NEW m, NEW w, Turning(m, w) PROVE Turning(m, w)'
  BY <1>1, <1>3 DEF Turning, Current, Change
<1> QED BY <1>1, <1>2, <1>3 DEF Unseen

\* What the hub sends says the mode it is in.
LEMMA HubSendsUnseen ==
  ASSUME TypeOK, NEW type \in {"status", "telemetry", "hello"}, HubSends(type)
  PROVE  Unseen
<1>1. UNCHANGED <<users, status, toHub, fgSessionId, hubSession, hubMode, Sent>>
  BY DEF HubSends, status, hub, sent, Sent
<1>2. PICK n \in Arriving' :
        /\ toHost'[n] = [type |-> type, session |-> hubSession, mode |-> hubMode]
        /\ \A i \in Arriving : toHost'[i] = toHost[i] /\ i \in Nat /\ i < n
        /\ \A i \in Arriving' : i \in Arriving \/ i = n
  BY Departure
<1>3. /\ toHost'[n].mode = hubMode /\ (Current(n)' => hubSession = fgSessionId)
      /\ \A i \in Arriving : Current(i)' => Current(i)
  BY <1>1, <1>2 DEF Current
<1>4. \A i \in Sent : Change(i)' <=> Change(i)
  BY <1>1 DEF Change
<1>5. ASSUME NEW m, Settled(m) PROVE Settled(m)'
  BY <1>1, <1>2, <1>3, <1>4, <1>5 DEF Settled
<1>6. ASSUME NEW m, NEW w, Turning(m, w) PROVE Turning(m, w)'
  <2>1. \A i \in Arriving' : Current(i)' => toHost'[i].mode \in {m, w}
    BY <1>2, <1>3, <1>6 DEF Turning
  <2>2. ASSUME NEW i \in Arriving', NEW j \in Arriving', Current(i)', Current(j)', i < j,
               toHost'[i].mode = w
        PROVE  toHost'[j].mode = w
    <3>1. i \in Arriving
      <4>1. n \in Nat /\ \A k \in Arriving' : k \in Nat /\ k <= n
        BY <1>2 DEF Arriving
      <4> QED BY <1>2, <2>2, <4>1
    <3>2. CASE j \in Arriving
      BY <1>2, <1>3, <1>6, <2>2, <3>1, <3>2 DEF Turning
    <3>3. CASE j = n
      BY <1>2, <1>3, <1>6, <2>2, <3>1, <3>3 DEF Turning
    <3> QED BY <1>2, <3>2, <3>3
  <2>3. hubSession = fgSessionId =>
          /\ hubMode \in {m, w}
          /\ \A i \in Arriving' : Current(i)' /\ toHost'[i].mode = w => hubMode = w
    BY <1>2, <1>3, <1>6 DEF Turning
  <2>4. \A i \in Sent : Change(i) =>
          /\ toHub[i].mode = w
          /\ \A j \in Sent : Change(j) => j = i
          /\ \A j \in Arriving' : Current(j)' => toHost'[j].mode = m
          /\ hubSession = fgSessionId => hubMode = m
    BY <1>2, <1>3, <1>6 DEF Turning
  <2> QED BY <1>1, <1>4, <2>1, <2>2, <2>3, <2>4 DEF Turning
<1> QED BY <1>1, <1>5, <1>6 DEF Unseen

\* What a flush sends late is not of this session.
LEMMA FlushUnseen ==
  ASSUME TypeOK, HeldIsOld, Flush
  PROVE  Unseen
<1>1. UNCHANGED <<users, status, toHost, hubSession, hubMode, fgSessionId, Arriving>>
  BY Flushing DEF status, hub, Arriving
<1>2. \A i \in Sent' : Change(i)' => Change(i)
  BY <1>1, Flushing DEF HeldIsOld, Change
<1>3. \A i \in Arriving : Current(i)' <=> Current(i)
  BY <1>1 DEF Current
<1>4. \A i \in Sent' : Change(i)' => i \in Sent /\ toHub'[i] = toHub[i]
  BY <1>1, Flushing DEF HeldIsOld, Change
<1>5. ASSUME NEW m, Settled(m) PROVE Settled(m)'
  BY <1>1, <1>2, <1>3, <1>4, <1>5 DEF Settled
<1>6. ASSUME NEW m, NEW w, Turning(m, w) PROVE Turning(m, w)'
  BY <1>1, <1>2, <1>3, <1>4, <1>6 DEF Turning
<1> QED BY <1>1, <1>5, <1>6 DEF Unseen

\* The send buffer stays old unless a getter's flush fails.
LEMMA HeldStaysOld ==
  ASSUME TypeOK, Fresh, HeldIsOld, [Next]_vars, \A u \in User : ~FlushFails(u)
  PROVE  HeldIsOld'
<1>1. CASE UNCHANGED <<fg_send_buffer, fgSessionId>>
  BY <1>1 DEF HeldIsOld, Held
<1>2. ASSUME NEW u \in User, SendChange(u) PROVE HeldIsOld'
  <2>1. fg_send_buffer' = <<>>
    BY <1>2 DEF SendChange
  <2>2. Held' = {}
    BY <2>1 DEF Held
  <2> QED BY <2>2 DEF HeldIsOld
<1>3. CASE Flush
  <2>1. fgSessionId' = fgSessionId
    BY <1>3, Flushing DEF status
  <2> QED BY <1>3, <2>1, Flushing DEF HeldIsOld
<1>4. CASE ReceiveHello /\ fgSessionId' # fgSessionId
  BY <1>4, NewSession
<1>5. \/ UNCHANGED <<fg_send_buffer, fgSessionId>> \/ Flush \/ \E u \in User : SendChange(u)
      \/ ReceiveHello /\ fgSessionId' # fgSessionId
  <2>1. ASSUME NEW u \in User, Getter(u) \/ \E m \in Mode : Get(u, m), ~SendChange(u)
        PROVE  UNCHANGED <<fg_send_buffer, fgSessionId>>
    BY <2>1, GetterLeaves DEF status, sent
  <2> QED BY <2>1, Steps DEF ReceiveStatus, ReceiveTelemetry, ReceiveHello, ClearStatus,
            HubChangesMode, LoseChange, HubRestart, HubSends, vars, status, link, sent
<1> QED BY <1>1, <1>2, <1>3, <1>4, <1>5

\* As long as nobody asks for a mode in this session, the hub is in none.
LEMMA UnaskedKept ==
  ASSUME TypeOK, Fresh, Unasked, [Next]_vars
  PROVE  Unasked'
<1> SUFFICES ASSUME \A u \in User : sentIn'[u] # fgSessionId'
             PROVE  Settled(NoMode)' /\ HeldIsOld'
  BY DEF Unasked
<1>1. ASSUME NEW u \in User PROVE ~SendChange(u) /\ ~FlushFails(u)
  <2>1. SendChange(u) \/ FlushFails(u) => /\ sentIn' = [sentIn EXCEPT ![u] = fgSessionId]
                                         /\ fgSessionId' = fgSessionId
    BY DEF SendChange, FlushFails, status
  <2> QED BY <2>1 DEF TypeOK
<1>2. CASE ReceiveHello /\ fgSessionId' # fgSessionId
  BY <1>2, NewSession
<1>3. CASE ~(ReceiveHello /\ fgSessionId' # fgSessionId)
  <2>1. UNCHANGED <<sentIn, fgSessionId>>
    <3>1. ASSUME NEW u \in User, Getter(u) \/ \E m \in Mode : Get(u, m)
          PROVE  UNCHANGED <<sentIn, fgSessionId>>
      BY <1>1, <3>1, GetterLeaves DEF status
    <3>2. CASE Flush
      BY <3>2, Flushing DEF users, status
    <3> QED BY <1>3, <3>1, <3>2, Steps DEF ReceiveStatus, ReceiveTelemetry, ReceiveHello,
              ClearStatus, HubChangesMode, LoseChange, HubRestart, HubSends, vars, users, status
  <2>2. Settled(NoMode) /\ HeldIsOld
    BY <2>1 DEF Unasked
  <2>3. HeldIsOld'
    BY <1>1, <2>2, HeldStaysOld
  <2>4. ASSUME UNCHANGED <<toHost, toHub, hub>> PROVE Settled(NoMode)'
    <3>1. UNCHANGED <<Arriving, Sent, hubSession, hubMode>>
      BY <2>4 DEF Arriving, Sent, hub
    <3> QED BY <2>1, <2>2, <2>4, <3>1 DEF Settled, Current, Change
  <2>5. ASSUME NEW u \in User, Getter(u) \/ \E m \in Mode : Get(u, m) PROVE Settled(NoMode)'
    BY <1>1, <2>4, <2>5, GetterLeaves DEF sent
  <2>6. ASSUME NEW type, Receiving(type), UNCHANGED <<toHub, hub>> PROVE Settled(NoMode)'
    BY <2>1, <2>2, <2>6, ArrivalKeepsSettled
  <2>7. CASE ReceiveStatus \/ ReceiveTelemetry \/ ReceiveHello
    <3>1. UNCHANGED <<toHub, hub>>
      BY <2>7 DEF ReceiveStatus, ReceiveTelemetry, ReceiveHello, sent
    <3>2. Receiving("status") \/ Receiving("telemetry") \/ Receiving("hello")
      BY <2>7 DEF ReceiveStatus, ReceiveTelemetry, ReceiveHello
    <3> QED BY <2>3, <2>6, <3>1, <3>2
  <2>8. CASE ClearStatus \/ UNCHANGED vars
    <3>1. UNCHANGED <<toHost, toHub, hub>>
      BY <2>8 DEF ClearStatus, vars, link, sent
    <3> QED BY <2>3, <2>4, <3>1
  <2>9. ASSUME Unseen PROVE Settled(NoMode)'
    BY <2>2, <2>9 DEF Unseen
  <2> QED BY <2>2, <2>3, <2>5, <2>7, <2>8, <2>9, Steps, HubChangesUnseen, HubRestartUnseen,
             HubSendsUnseen, FlushUnseen
<1> QED BY <1>2, <1>3

\* What was disturbed is in order again only in a new session in which nothing was begun.
LEMMA DisturbedStays ==
  ASSUME [Next]_vars, disturbed, ~disturbed' PROVE ClearStatus /\ Untouched
<1>1. ASSUME NEW u \in User, Getter(u) PROVE FALSE
  BY <1>1 DEF Getter, CheckMode, SendChange, SendFails, FlushFails, ModeReported, WaitTimesOut,
              ReadData
<1>2. ASSUME NEW u \in User, NEW m \in Mode, Get(u, m) PROVE FALSE
  BY <1>2 DEF Get
<1> QED BY <1>1, <1>2, Steps DEF Flush, ReceiveStatus, ReceiveTelemetry, ReceiveHello, ClearStatus,
                     HubChangesMode, LoseChange, HubRestart, HubSends, users, vars

\* There, the entry, the hub and the link are as at the beginning.
LEMMA UntouchedIsOrder ==
  ASSUME TypeOK, Unasked, ClearStatus, Untouched
  PROVE  Alone' /\ Agreed' /\ Relied' /\ HeldIsOld'
<1>1. /\ ~clearing' /\ fgStatus' = Cleared
      /\ UNCHANGED <<pc, sentIn, fgSessionId, toHub, toHost, fg_send_buffer, hub>>
  BY DEF ClearStatus, link, sent
<1>2. \A u \in User : pc'[u] = "idle"
  BY <1>1 DEF Untouched
<1>3. Settled(NoMode) /\ HeldIsOld
  BY DEF Unasked, Untouched
<1>4. UNCHANGED <<Arriving, Sent, Held, hubSession, hubMode>>
  BY <1>1 DEF Arriving, Sent, Held, hub
<1>5. Settled(NoMode)' /\ HeldIsOld'
  BY <1>1, <1>3, <1>4 DEF Settled, Current, Change, HeldIsOld
<1>6. Shown' = Cleared
  BY <1>1 DEF Shown
<1>7. Steady'
  BY <1>5, <1>6 DEF Steady, Matches, Measured, Cleared, Settled, Current, Change
<1> QED BY <1>1, <1>2, <1>5, <1>7 DEF Alone, Agreed, Relied, Pending

\* Every step keeps what is shown and what is to come in agreement.
LEMMA UndisturbedKept ==
  ASSUME TypeOK, Fresh, Unasked, Undisturbed, [Next]_vars
  PROVE  Undisturbed'
<1> SUFFICES ASSUME ~disturbed' PROVE Alone' /\ Agreed' /\ Relied' /\ HeldIsOld'
  BY DEF Undisturbed
<1>1. CASE disturbed
  BY <1>1, DisturbedStays, UntouchedIsOrder
<1>2. CASE ~disturbed
  <2>1. Alone /\ Agreed /\ Relied /\ HeldIsOld
    BY <1>2 DEF Undisturbed
  <2>2. \A u \in User : ~FlushFails(u)
    BY DEF FlushFails
  <2>3. HeldIsOld'
    BY <2>1, <2>2, HeldStaysOld
  <2>4. CASE UNCHANGED vars
    <3>1. UNCHANGED <<pc, want, sentIn, fgStatus, fgSessionId, clearing, toHub, toHost,
                      hubSession, hubMode>>
      BY <2>4 DEF vars, users, status, link, sent, hub
    <3>2. UNCHANGED <<Arriving, Sent, users, status>>
      BY <2>4, <3>1 DEF Arriving, Sent, vars
    <3>3. ASSUME NEW m, Settled(m) PROVE Settled(m)'
      BY <3>1, <3>2, <3>3 DEF Settled, Current, Change
    <3>4. ASSUME NEW m, NEW w, Turning(m, w) PROVE Turning(m, w)'
      BY <3>1, <3>2, <3>4 DEF Turning, Current, Change
    <3>5. Unseen
      BY <3>2, <3>3, <3>4 DEF Unseen
    <3> QED BY <2>1, <2>3, <3>5, HubIsNotSeen
  <2>5. CASE HubChangesMode \/ LoseChange \/ HubRestart \/ Flush
             \/ \E type \in {"status", "telemetry", "hello"} : HubSends(type)
    <3>1. Unseen
      BY <2>1, <2>5, HubChangesUnseen, HubRestartUnseen, HubSendsUnseen, FlushUnseen
    <3> QED BY <2>1, <2>3, <3>1, HubIsNotSeen
  <2> QED BY <2>1, <2>2, <2>3, <2>4, <2>5, Steps, GetKeepsModes, SendChangeKeepsModes,
             GetterKeepsModes, ReceiveStatusKeepsModes, ReceiveTelemetryKeepsModes,
             ReceiveHelloKeepsModes, ClearStatusKeepsModes
<1> QED BY <1>1, <1>2

-----------------------------------------------------------------------------
(* The theorems. *)

\* Every behaviour keeps the inductive invariant.
THEOREM Invariance == Spec => []Inductive
<1>1. Init => Inductive
  BY TypesAtFirst, FreshAtFirst, UndisturbedAtFirst DEF Inductive, Undisturbed
<1>2. Inductive /\ [Next]_vars => Inductive'
  BY TypesKept, FreshKept, StatusOfThisSessionKept, UnaskedKept, UndisturbedKept DEF Inductive
<1> QED BY <1>1, <1>2, PTL DEF Spec

\* The entry of the port, the getters, the queues and the hub keep their types, and the
\* queues their capacities (DELAYED_SENSOR_COMMON, process_command).
THEOREM TypeCorrect == Spec => []TypeOK
<1>1. Inductive => TypeOK
  BY DEF Inductive
<1> QED BY <1>1, Invariance, PTL

\* Unless it has still to be zeroed, the status block holds data of the session of the
\* host only, whatever frames of other sessions arrive (process_command,
\* process_hello_payload).
THEOREM NoStatusOfBefore == Spec => []StatusOfThisSession
<1>1. Inductive => StatusOfThisSession
  BY DEF Inductive
<1> QED BY <1>1, Invariance, PTL

\* A getter that was not disturbed returns data of the mode it is for, or zeros, for any
\* number of modes, restarts of the hub and frames in flight (DELAYED_SENSOR_COMMON).
THEOREM GettersGetTheirMode == Spec => UndisturbedGetterGetsItsMode
<1>1. Inductive /\ [Next]_vars =>
        [\A u \in User : Reads(u) /\ ~disturbed => result'[u] \in {want[u], Zero}]_vars
  <2> SUFFICES ASSUME Inductive, Next, NEW u \in User, Reads(u), ~disturbed
               PROVE  result'[u] \in {want[u], Zero}
    OBVIOUS
  <2>1. Alone /\ Agreed /\ Relied /\ TypeOK
    BY DEF Inductive, Undisturbed
  <2>2. ReadData(u)
    <3>1. pc[u] = "read" /\ pc'[u] = "idle"
      BY DEF Reads
    <3>2. pc' # pc
      BY <3>1
    <3>3. PICK v \in User : Getter(v) \/ \E m \in Mode : Get(v, m)
      BY <3>2 DEF Next, Flush, ReceiveStatus, ReceiveTelemetry, ReceiveHello, ClearStatus,
                  HubChangesMode, LoseChange, HubRestart, HubSends, users
    <3>4. v = u
      BY <2>1, <3>1, <3>3, GetterLeaves DEF TypeOK
    <3> QED BY <3>1, <3>3, <3>4 DEF Getter, Get, CheckMode, SendChange, SendFails,
                                    FlushFails, ModeReported, WaitTimesOut
  <2>3. result'[u] = fgStatus.data /\ pc[u] = "read"
    BY <2>1, <2>2 DEF ReadData, TypeOK
  <2>4. \A v \in User : pc[v] # "wait"
    BY <2>1, <2>3 DEF Alone
  <2>5. Matches(fgStatus)
    <3>1. CASE clearing
      BY <2>1, <2>4, <3>1 DEF Relied
    <3>2. CASE ~clearing
      BY <2>1, <2>4, <3>2 DEF Agreed, Steady, Shown, Pending
    <3> QED BY <3>1, <3>2
  <2> QED BY <2>1, <2>3, <2>5 DEF Relied, Matches, Measured
<1> QED BY <1>1, Invariance, PTL DEF Spec, UndisturbedGetterGetsItsMode
=============================================================================

--------------------------- MODULE RaspikeMotorProofs ---------------------------
(***************************************************************************)
(* The four properties of a motor, for any users, powers and limits and    *)
(* for links of any capacity: its types (TypeOK), counts that are not      *)
(* older than a reset that was answered by 1 (CountOfThisReset), stops     *)
(* that hold (StopHolds) and the power read back (PowerIsApplied).         *)
(***************************************************************************)
EXTENDS RaspikeMotor, TLAPS

Commands == Drives \cup Requests
Moves    == (-100..100) \cup {Speed}

\* Values a command can carry.
Carries(frame) ==
  /\ frame.cmd = "MOT_POW" => frame.value \in -100..100
  /\ frame.cmd = "MOT_SPD" => frame.value = Speed
  /\ frame.cmd = "MOT_STU" => frame.value \in {0, 1}

Command == {frame \in [cmd : Commands, value : Int, id : Nat] : Carries(frame)}
Ack     == [type : {"ack"}, id : Nat, data : Int]
Report  == [type : {"report"}, valid : BOOLEAN, count : Nat, power : -100..100]
Call    == [cmd : Commands \cup {"none"}, value : Int, id : Nat, tries : 0..2,
            answer : Int, waiting : BOOLEAN, resets : Nat, alone : BOOLEAN]

Shapes ==
  /\ TypeOK
  /\ op \in [User -> Call] /\ \A u \in User : Carries(op[u])
  /\ saved \in [User -> Int]
  /\ toHub \in Seq(Command) /\ toHost \in Seq(Ack \cup Report)
  /\ promised \subseteq Nat /\ calls \in Nat

Sent     == 1..Len(toHub)
Arriving == 1..Len(toHost)

\* The call each user is in, and the frames of a request that is under way: they
\* are told from all others by the number of the call.
Numbers ==
  /\ \A i \in Sent : toHub[i].id < calls
  /\ \A i \in Arriving : toHost[i].type = "ack" => toHost[i].id < calls
  /\ \A u \in User : pc[u] \in {"drive", "ask"} => op[u].id < calls
  /\ \A u, v \in User : pc[u] = "ask" /\ pc[v] = "drive" => op[u].id # op[v].id
  /\ \A u \in User : pc[u] = "ask" => op[u].cmd \in Requests /\ request_mutex = u
  /\ \A u \in User : pc[u] = "drive" => op[u].cmd \in Drives
  /\ \A u \in User, i \in Sent :
       pc[u] = "ask" /\ toHub[i].id = op[u].id => toHub[i].cmd = op[u].cmd

-----------------------------------------------------------------------------
(* Resets. *)

\* The hub has reset the count n times, and measured after it what it reports from now on.
Since(n) ==
  /\ hub.resets >= n
  /\ \A j \in Arriving : toHost[j].type = "report" => toHost[j].count >= n

Resets(u) == pc[u] = "ask" /\ op[u].cmd = "MOT_RST"

\* u knows that the hub has reset the count for it.
Knows(u) == pc[u] = "zero" \/ (Resets(u) /\ ~op[u].waiting /\ op[u].answer = 1)

\* The i-th frame on the way to the host tells it.
Confirms(u, i) ==
  /\ Resets(u) /\ op[u].waiting
  /\ toHost[i].type = "ack" /\ toHost[i].id = op[u].id /\ toHost[i].data = 1

\* What is measured before a reset is ahead of the answer to it.
Counted ==
  /\ \A n \in promised : Since(n) /\ (status.count = Zeroed \/ status.count >= n)
  /\ \A u \in User : Knows(u) => Since(op[u].resets)
  /\ \A u \in User : Resets(u) => hub.resets + 1 >= op[u].resets
  /\ \A u \in User, i \in Arriving : Confirms(u, i) =>
       /\ hub.resets >= op[u].resets
       /\ \A j \in Arriving : j > i /\ toHost[j].type = "report" =>
            toHost[j].count >= op[u].resets

-----------------------------------------------------------------------------
(* Stops. *)

NoDriveSent == \A i \in Sent : toHub[i].cmd \notin Drives
Still       == hub.drive = Off /\ NoDriveSent

\* u stops the motor and nobody has sent a drive command since.
Stops(u) == pc[u] = "ask" /\ op[u].cmd = "MOT_STP" /\ op[u].alone

\* u has its answer, and it is not a refusal; or such an answer is on its way to the host.
Answered(u)   == ~op[u].waiting /\ op[u].answer \in {0, 1}
Answers(u, i) == /\ toHost[i].type = "ack" /\ toHost[i].id = op[u].id
                 /\ toHost[i].data \in {0, 1}

\* Every drive command is ahead of the stop; none is left once the stop is executed.
Stopped ==
  /\ halted => Still
  /\ \A u \in User : Stops(u) =>
       /\ \A i, j \in Sent : toHub[i].id = op[u].id /\ toHub[j].cmd \in Drives => j < i
       /\ Answered(u) => Still
       /\ \A i \in Arriving : Answers(u, i) => Still

-----------------------------------------------------------------------------
(* Powers. *)

\* The drive command that will be executed last.
LastDrive(i) ==
  i \in Sent /\ toHub[i].cmd \in Drives
  /\ \A j \in Sent : j > i => toHub[j].cmd \notin Drives

\* A power that is noted is being sent, on its way, or applied.
Applied ==
  /\ ~raced => \A u, v \in User : pc[u] = "drive" /\ pc[v] = "drive" => u = v
  /\ ~raced /\ ~dropped /\ pdev.cmd = "MOT_POW" =>
       \/ \E u \in User : pc[u] = "drive" /\ op[u].value = pdev.power
       \/ /\ \A u \in User : pc[u] # "drive"
          /\ \/ \E i \in Sent : LastDrive(i) /\ toHub[i].value = pdev.power
             \/ NoDriveSent /\ hub.drive \in {pdev.power, Off}

Inductive == Shapes /\ Numbers /\ Counted /\ Stopped /\ Applied

-----------------------------------------------------------------------------
(* Types and numbers. *)

\* A power is clamped into the range the hub accepts.
LEMMA ClampInRange == \A power \in Int : Clamp(power) \in -100..100
  BY DEF Clamp

\* A new call is well formed, whatever its command and value.
LEMMA NewCall ==
  ASSUME Shapes, NEW cmd \in Commands, NEW value \in Int,
         Carries([cmd |-> cmd, value |-> value])
  PROVE  /\ NewOp(cmd, value) \in Call /\ Carries(NewOp(cmd, value))
         /\ NewOp(cmd, value).id = calls /\ NewOp(cmd, value).cmd = cmd
         /\ NewOp(cmd, value).waiting /\ NewOp(cmd, value).value = value
<1>1. (IF cmd = "MOT_RST" THEN hub.resets + 1 ELSE 0) \in Nat
  BY DEF Shapes, TypeOK
<1>2. calls \in Nat
  BY DEF Shapes
<1> QED BY <1>1, <1>2 DEF NewOp, Call, Carries

\* What a user sends is a command.
LEMMA FrameIsCommand ==
  ASSUME Shapes, NEW u \in User, op[u].cmd \in Commands
  PROVE  Frame(u) \in Command
  BY DEF Shapes, Frame, Command, Call, Carries

\* Between them the actions are these.
LEMMA Steps ==
  ASSUME MotorAssumption, Shapes, [Next]_vars
  PROVE  \/ \E u \in User, power \in Power : SetPower(u, power)
         \/ \E u \in User : SetSpeed(u)
         \/ \E u \in User : SendDrive(u)
         \/ \E u \in User : DriveFails(u)
         \/ \E u \in User, cmd \in Requests, value \in Int :
              Carries([cmd |-> cmd, value |-> value]) /\ Ask(u, cmd, value)
         \/ \E u \in User : Attempt(u)
         \/ \E u \in User : AttemptFails(u)
         \/ \E u \in User : EndRequest(u)
         \/ \E u \in User : ZeroCount(u)
         \/ ReceiveAck \/ ReceiveReport
         \/ HubExecute \/ HubRefuse \/ HubReport \/ LoseCommand \/ LoseReport
         \/ UNCHANGED vars
<1>1. ASSUME NEW u \in User
      PROVE  /\ Setup(u) => \E value \in {0, 1} : Ask(u, "MOT_STU", value)
             /\ SetDutyLimit(u) => \E value \in Int : Ask(u, "MOT_SET_DTY", value)
             /\ RestoreDutyLimit(u) => \E value \in Int : Ask(u, "MOT_RST_DTY", value)
             /\ ResetCount(u) => Ask(u, "MOT_RST", 0)
             /\ Stop(u) => Ask(u, "MOT_STP", 0)
  <2>1. Limit \subseteq Int /\ saved[u] \in Int
    BY <1>1 DEF MotorAssumption, Shapes
  <2> QED BY <2>1 DEF Setup, ResetCount, Stop, SetDutyLimit, RestoreDutyLimit
<1>2. ASSUME NEW u \in User,
             Setup(u) \/ ResetCount(u) \/ Stop(u) \/ SetDutyLimit(u) \/ RestoreDutyLimit(u)
      PROVE  \E cmd \in Requests, value \in Int :
               Carries([cmd |-> cmd, value |-> value]) /\ Ask(u, cmd, value)
  <2>1. \A value \in Int : \A cmd \in Requests \ {"MOT_STU"} :
          Carries([cmd |-> cmd, value |-> value])
    BY DEF Carries, Requests
  <2>2. \A value \in {0, 1} : Carries([cmd |-> "MOT_STU", value |-> value])
    BY DEF Carries
  <2> QED BY <1>1, <1>2, <2>1, <2>2 DEF Requests
<1> QED BY <1>2 DEF Next

\* The first state.
LEMMA ShapesAtFirst == ASSUME MotorAssumption, Init PROVE Shapes /\ Numbers
<1> USE DEF Init, Off, Sent, Arriving, Drives
<1>1. PICK l \in Limit : /\ saved = [u \in User |-> l] /\ l \in Int
                        /\ hub = [resets |-> 0, drive |-> Off, limit |-> l]
  BY DEF MotorAssumption
<1>2. hub \in [resets : Nat, drive : (-100..100) \cup {Speed}, limit : Int]
  BY <1>1
<1>3. TypeOK
  <2>1. pdev \in [cmd : Drives \cup {"none"}, power : -100..100]
    OBVIOUS
  <2>2. status \in [count : Nat \cup {Zeroed}, power : -100..100]
    OBVIOUS
  <2>3. request_mutex \in User \cup {Nobody} /\ pc \in [User -> {"idle", "drive", "ask", "zero"}]
    OBVIOUS
  <2>4. Len(toHub) <= LinkCapacity /\ Len(toHost) <= LinkCapacity
    BY DEF MotorAssumption
  <2>5. {halted, raced, dropped} \subseteq BOOLEAN
    OBVIOUS
  <2> QED BY <1>2, <2>1, <2>2, <2>3, <2>4, <2>5 DEF TypeOK
<1>4. op \in [User -> Call] /\ \A u \in User : Carries(op[u])
  BY DEF Call, Commands, Carries
<1>5. Shapes BY <1>1, <1>3, <1>4 DEF Shapes
<1>6. Numbers BY DEF Numbers
<1> QED BY <1>5, <1>6

\* What is left of a queue whose first element is taken.
LEMMA Taken ==
  ASSUME NEW S, NEW s \in Seq(S), s # <<>>
  PROVE  /\ Tail(s) \in Seq(S) /\ Len(Tail(s)) = Len(s) - 1 /\ Len(s) \in Nat \ {0}
         /\ Head(s) = s[1] /\ s[1] \in S
         /\ \A i \in 1..Len(Tail(s)) : Tail(s)[i] = s[i + 1] /\ i + 1 \in 1..Len(s)
  OBVIOUS

\* A queue to which an element is added.
LEMMA Added ==
  ASSUME NEW S, NEW s \in Seq(S), NEW e \in S
  PROVE  /\ Append(s, e) \in Seq(S) /\ Len(Append(s, e)) = Len(s) + 1 /\ Len(s) \in Nat
         /\ \A i \in 1..Len(s) : Append(s, e)[i] = s[i] /\ i \in 1..Len(s) + 1
         /\ Append(s, e)[Len(s) + 1] = e
         /\ \A i \in 1..Len(s) + 1 : i \in 1..Len(s) \/ i = Len(s) + 1
  OBVIOUS

\* A call that begins has a number of its own.
LEMMA BeginningKeepsNumbers ==
  ASSUME MotorAssumption, Shapes, Numbers, NEW u \in User,
         NEW cmd \in Commands, NEW value \in Int, NEW label \in {"drive", "ask"},
         Carries([cmd |-> cmd, value |-> value]), Start(u), Goto(u, label),
         op' = [op EXCEPT ![u] = NewOp(cmd, value)],
         label = "drive" => cmd \in Drives /\ request_mutex' = request_mutex,
         label = "ask" => cmd \in Requests /\ request_mutex = Nobody /\ request_mutex' = u,
         UNCHANGED <<toHub, toHost>>
  PROVE  /\ op' \in [User -> Call] /\ \A v \in User : Carries(op[v])'
         /\ pc' \in [User -> {"idle", "drive", "ask", "zero"}]
         /\ calls' \in Nat /\ Numbers'
<1>1. NewOp(cmd, value) \in Call /\ Carries(NewOp(cmd, value))
  BY NewCall
<1>2. op' \in [User -> Call] /\ \A v \in User : Carries(op[v])'
  BY <1>1 DEF Shapes
<1>3. /\ pc' \in [User -> {"idle", "drive", "ask", "zero"}]
      /\ calls \in Nat /\ calls' = calls + 1
      /\ toHub \in Seq(Command) /\ toHost \in Seq(Ack \cup Report)
  BY DEF Shapes, TypeOK, Goto, Start
<1>4. /\ op'[u].id = calls /\ op'[u].cmd = cmd /\ pc'[u] = label
      /\ \A v \in User : v # u => op'[v] = op[v] /\ pc'[v] = pc[v]
  BY DEF Shapes, TypeOK, Goto, NewOp
<1>5. \A i \in Sent : toHub[i].id \in Nat
  BY <1>3 DEF Sent, Command
<1>6. \A i \in Arriving : toHost[i].type = "ack" => toHost[i].id \in Nat
  BY <1>3 DEF Arriving, Ack, Report
<1>7. \A v \in User : op[v].id \in Nat
  BY DEF Shapes, Call
<1>8. \A v \in User : label = "ask" => pc[v] # "ask"
  BY DEF Numbers, MotorAssumption
<1>9. Numbers'
  <2>1. (\A i \in Sent : toHub[i].id < calls)'
    BY <1>3, <1>5 DEF Numbers, Sent
  <2>2. (\A i \in Arriving : toHost[i].type = "ack" => toHost[i].id < calls)'
    BY <1>3, <1>6 DEF Numbers, Arriving
  <2>3. (\A v \in User : pc[v] \in {"drive", "ask"} => op[v].id < calls)'
    BY <1>3, <1>4, <1>7 DEF Numbers
  <2>4. (\A v, w \in User : pc[v] = "ask" /\ pc[w] = "drive" => op[v].id # op[w].id)'
    BY <1>3, <1>4, <1>7 DEF Numbers
  <2>5. (\A v \in User : pc[v] = "ask" => op[v].cmd \in Requests /\ request_mutex = v)'
    BY <1>4, <1>8 DEF Numbers
  <2>6. (\A v \in User : pc[v] = "drive" => op[v].cmd \in Drives)'
    BY <1>4 DEF Numbers
  <2>7. (\A v \in User, i \in Sent :
           pc[v] = "ask" /\ toHub[i].id = op[v].id => toHub[i].cmd = op[v].cmd)'
    <3> SUFFICES ASSUME NEW v \in User, NEW i \in Sent,
                        pc'[v] = "ask", toHub[i].id = op'[v].id
                 PROVE  toHub[i].cmd = op'[v].cmd
      BY DEF Sent
    <3>1. toHub[i].id < calls /\ toHub[i].id \in Nat
      BY <1>5 DEF Numbers
    <3>2. v # u
      BY <1>3, <1>4, <3>1
    <3> QED BY <1>4, <3>2 DEF Numbers
  <2> QED BY <2>1, <2>2, <2>3, <2>4, <2>5, <2>6, <2>7 DEF Numbers
<1> QED BY <1>2, <1>3, <1>9

\* A power or speed is noted.
LEMMA NotingKeepsShapes ==
  ASSUME MotorAssumption, Shapes, Numbers, NEW u \in User,
         SetSpeed(u) \/ \E power \in Power : SetPower(u, power)
  PROVE  Shapes' /\ Numbers'
<1>1. PICK cmd \in Drives, value \in Moves :
        /\ cmd = "MOT_POW" => value \in -100..100
        /\ cmd = "MOT_SPD" => value = Speed
        /\ op' = [op EXCEPT ![u] = NewOp(cmd, value)]
        /\ pdev' \in [cmd : Drives \cup {"none"}, power : -100..100]
  <2>1. CASE SetSpeed(u)
    BY <2>1 DEF SetSpeed, Drives, Moves, Shapes, TypeOK
  <2>2. ASSUME NEW power \in Power, SetPower(u, power)
        PROVE  /\ op' = [op EXCEPT ![u] = NewOp("MOT_POW", Clamp(power))]
               /\ pdev' \in [cmd : Drives \cup {"none"}, power : -100..100]
               /\ Clamp(power) \in -100..100
    BY <2>2, ClampInRange DEF SetPower, Drives, MotorAssumption
  <2> QED BY <2>1, <2>2 DEF Drives, Moves
<1>2. /\ Start(u) /\ Goto(u, "drive")
      /\ UNCHANGED <<status, request_mutex, saved, toHub, toHost, hub, promised, halted>>
  BY DEF SetSpeed, SetPower
<1>3. raced' \in BOOLEAN /\ dropped' \in BOOLEAN
  BY DEF SetSpeed, SetPower
<1>4. value \in Int /\ cmd \in Commands /\ Carries([cmd |-> cmd, value |-> value])
  BY <1>1 DEF Moves, Speed, Commands, Carries, Drives
<1>5. /\ op' \in [User -> Call] /\ \A v \in User : Carries(op[v])'
      /\ pc' \in [User -> {"idle", "drive", "ask", "zero"}]
      /\ calls' \in Nat /\ Numbers'
  BY <1>1, <1>2, <1>4, BeginningKeepsNumbers
<1>6. TypeOK'
  BY <1>1, <1>2, <1>3, <1>5 DEF Shapes, TypeOK
<1> QED BY <1>2, <1>5, <1>6 DEF Shapes

\* A request takes the mutex.
LEMMA AskingKeepsShapes ==
  ASSUME MotorAssumption, Shapes, Numbers, NEW u \in User, NEW cmd \in Requests,
         NEW value \in Int, Carries([cmd |-> cmd, value |-> value]), Ask(u, cmd, value)
  PROVE  Shapes' /\ Numbers'
<1>1. /\ op' \in [User -> Call] /\ \A v \in User : Carries(op[v])'
      /\ pc' \in [User -> {"idle", "drive", "ask", "zero"}]
      /\ calls' \in Nat /\ Numbers'
  <2>1. cmd \in Commands
    BY DEF Commands
  <2> QED BY <2>1, BeginningKeepsNumbers DEF Ask
<1>2. TypeOK'
  BY <1>1 DEF Ask, Shapes, TypeOK, past
<1> QED BY <1>1, <1>2 DEF Shapes, Ask, past

\* What is sent is of the sender's call; other users' calls have other numbers.
LEMMA SendingKeepsNumbers ==
  ASSUME Shapes, Numbers, NEW u \in User, pc[u] \in {"drive", "ask"},
         toHub' = Append(toHub, Frame(u)),
         \A v \in User : pc'[v] \in {"drive", "ask"} => pc'[v] = pc[v],
         \A v \in User : op'[v].id = op[v].id /\ op'[v].cmd = op[v].cmd,
         \A v \in User : pc'[v] = "ask" => request_mutex' = request_mutex,
         UNCHANGED <<toHost, calls>>
  PROVE  toHub' \in Seq(Command) /\ Len(toHub') = Len(toHub) + 1 /\ Numbers'
<1>1. op[u].cmd \in Commands /\ op[u].id < calls
  BY DEF Numbers, Commands
<1>2. Frame(u) \in Command /\ Frame(u).id = op[u].id /\ Frame(u).cmd = op[u].cmd
  BY <1>1, FrameIsCommand DEF Frame
<1>3. /\ toHub' \in Seq(Command) /\ Len(toHub') = Len(toHub) + 1 /\ Len(toHub) \in Nat
      /\ \A i \in Sent' : (i \in Sent /\ toHub'[i] = toHub[i]) \/ toHub'[i] = Frame(u)
  BY <1>2, Added DEF Shapes, Sent
<1>4. \A v \in User : pc[v] = "ask" /\ op[v].id = op[u].id => v = u
  BY DEF Numbers
<1>5. Numbers'
  BY <1>1, <1>2, <1>3, <1>4 DEF Numbers, Sent, Arriving
<1> QED BY <1>3, <1>5

\* Frames to the hub: a drive command, or an attempt of a request.
LEMMA SendingKeepsShapes ==
  ASSUME MotorAssumption, Shapes, Numbers, NEW u \in User, SendDrive(u) \/ Attempt(u)
  PROVE  Shapes' /\ Numbers'
<1>1. /\ pc[u] \in {"drive", "ask"} /\ toHub' = Append(toHub, Frame(u))
      /\ Len(toHub) < LinkCapacity /\ LinkCapacity \in Nat
      /\ UNCHANGED <<toHost, request_mutex, calls, pdev, status, hub, saved, promised,
                     raced, dropped>>
  BY DEF SendDrive, Attempt, bounds, past, MotorAssumption
<1>2. /\ pc' \in [User -> {"idle", "drive", "ask", "zero"}]
      /\ \A v \in User : pc'[v] \in {"drive", "ask"} => pc'[v] = pc[v]
  BY DEF SendDrive, Attempt, Goto, Shapes, TypeOK
<1>3. op' \in [User -> Call]
  <2>1. CASE SendDrive(u)
    BY <2>1 DEF SendDrive, Shapes, Call
  <2>2. CASE Attempt(u)
    <3>1. op[u].tries + 1 \in 0..2 /\ op[u] \in Call
      BY <2>2 DEF Attempt, Shapes, Call
    <3>2. [op[u] EXCEPT !.tries = @ + 1] \in Call
      BY <3>1 DEF Call
    <3> QED BY <2>2, <3>2 DEF Attempt, Shapes
  <2> QED BY <2>1, <2>2
<1>4. \A v \in User : /\ op'[v].id = op[v].id /\ op'[v].cmd = op[v].cmd
                      /\ op'[v].value = op[v].value
  <2>1. CASE SendDrive(u)
    <3>1. op' = [v \in User |-> [op[v] EXCEPT !.alone = FALSE]]
      BY <2>1 DEF SendDrive
    <3> QED BY <3>1 DEF Shapes, Call
  <2>2. CASE Attempt(u)
    BY <2>2 DEF Attempt, Shapes, Call
  <2> QED BY <2>1, <2>2
<1>5. toHub' \in Seq(Command) /\ Len(toHub') = Len(toHub) + 1 /\ Numbers'
  BY <1>1, <1>2, <1>4, SendingKeepsNumbers
<1>6. halted' \in BOOLEAN
  BY DEF SendDrive, Attempt, past, Shapes, TypeOK
<1>7. TypeOK'
  BY <1>1, <1>2, <1>5, <1>6 DEF Shapes, TypeOK
<1>8. \A v \in User : Carries(op[v])'
  BY <1>4 DEF Shapes, Carries
<1> QED BY <1>1, <1>3, <1>5, <1>7, <1>8 DEF Shapes

\* A user finishes its call.
LEMMA FinishingKeepsShapes ==
  ASSUME MotorAssumption, Shapes, Numbers, NEW u \in User,
         DriveFails(u) \/ EndRequest(u) \/ ZeroCount(u)
  PROVE  Shapes' /\ Numbers'
<1>1. UNCHANGED <<toHub, toHost, op, calls, pdev, hub, raced>>
  BY DEF DriveFails, EndRequest, ZeroCount, bounds
<1>2. PICK label \in {"idle", "zero"} : pc' = [pc EXCEPT ![u] = label]
  BY DEF DriveFails, EndRequest, ZeroCount, Goto
<1>3. \A v \in User : v # u /\ pc[v] = "ask" => UNCHANGED request_mutex
  BY DEF DriveFails, EndRequest, Returns, ZeroCount, Numbers
<1>4. saved' \in [User -> Int]
  <2>1. Result(u) \in Int
    BY DEF Result, ETIMEDOUT, Shapes, Call
  <2> QED BY <2>1 DEF DriveFails, EndRequest, Returns, ZeroCount, Shapes
<1>5. status' \in [count : Nat \cup {Zeroed}, power : -100..100]
  <2>1. status \in [count : Nat \cup {Zeroed}, power : -100..100]
    BY DEF Shapes, TypeOK
  <2>2. status' = status \/ status' = [status EXCEPT !.count = Zeroed]
    BY DEF DriveFails, EndRequest, ZeroCount
  <2> QED BY <2>1, <2>2
<1>6. request_mutex' \in User \cup {Nobody} /\ promised' \subseteq Nat
  <2>1. op[u].resets \in Nat
    BY DEF Shapes, Call
  <2> QED BY <2>1 DEF DriveFails, EndRequest, Returns, ZeroCount, Promise, Shapes, TypeOK
<1>7. halted' \in BOOLEAN
  <2>1. CASE DriveFails(u) \/ ZeroCount(u)
    BY <2>1 DEF DriveFails, ZeroCount, Shapes, TypeOK
  <2>2. CASE EndRequest(u)
    BY <2>2, Zenon DEF EndRequest
  <2> QED BY <2>1, <2>2
<1>8. dropped' \in BOOLEAN
  BY DEF DriveFails, EndRequest, ZeroCount, Shapes, TypeOK
<1>9. TypeOK'
  BY <1>1, <1>2, <1>5, <1>6, <1>7, <1>8 DEF Shapes, TypeOK
<1>10. Numbers'
  <2>1. \A v \in User : v # u => pc'[v] = pc[v]
    BY <1>2 DEF Shapes, TypeOK
  <2>2. pc'[u] \notin {"drive", "ask"}
    BY <1>2 DEF Shapes, TypeOK
  <2> QED BY <1>1, <1>3, <2>1, <2>2 DEF Numbers, Sent, Arriving
<1> QED BY <1>1, <1>4, <1>6, <1>9, <1>10 DEF Shapes

\* A send fails: its frame goes out or not, and its request ends.
LEMMA AttemptFailsKeepsShapes ==
  ASSUME MotorAssumption, Shapes, Numbers, NEW u \in User, AttemptFails(u)
  PROVE  Shapes' /\ Numbers'
<1>1. /\ pc[u] = "ask" /\ request_mutex' = Nobody /\ pc' = [pc EXCEPT ![u] = "idle"]
      /\ toHub' = toHub \/ (Len(toHub) < LinkCapacity /\ toHub' = Append(toHub, Frame(u)))
      /\ UNCHANGED <<toHost, op, calls, pdev, status, hub, past>>
  BY DEF AttemptFails, Returns, Goto
<1>2. saved' \in [User -> Int]
  BY DEF AttemptFails, Returns, ETIMEDOUT, Shapes
<1>3. \A v \in User : /\ pc'[v] \in {"drive", "ask"} => pc'[v] = pc[v]
                      /\ pc'[v] # "ask"
  <2>1. \A v \in User : pc[v] = "ask" => v = u
    BY <1>1 DEF Numbers
  <2> QED BY <1>1, <2>1 DEF Shapes, TypeOK
<1>4. toHub' \in Seq(Command) /\ Len(toHub') <= LinkCapacity /\ Numbers'
  <2>1. CASE toHub' = toHub
    BY <1>1, <1>3, <2>1 DEF Numbers, Sent, Arriving, Shapes, TypeOK
  <2>2. CASE Len(toHub) < LinkCapacity /\ toHub' = Append(toHub, Frame(u))
    <3>1. toHub' \in Seq(Command) /\ Len(toHub') = Len(toHub) + 1 /\ Numbers'
      BY <1>1, <1>3, <2>2, SendingKeepsNumbers
    <3>2. Len(toHub) \in Nat /\ LinkCapacity \in Nat
      BY DEF Shapes, MotorAssumption
    <3> QED BY <2>2, <3>1, <3>2
  <2> QED BY <1>1, <2>1, <2>2
<1>5. pc' \in [User -> {"idle", "drive", "ask", "zero"}]
  BY <1>1 DEF Shapes, TypeOK
<1>6. TypeOK'
  BY <1>1, <1>4, <1>5 DEF Shapes, TypeOK, past
<1> QED BY <1>1, <1>2, <1>4, <1>6 DEF Shapes, past

\* The receiver takes a frame, or it is lost.
LEMMA ReceivingKeepsShapes ==
  ASSUME MotorAssumption, Shapes, Numbers, ReceiveAck \/ ReceiveReport \/ LoseReport
  PROVE  Shapes' /\ Numbers'
<1>1. /\ toHost # <<>> /\ toHost' = Tail(toHost)
      /\ UNCHANGED <<pdev, request_mutex, pc, saved, toHub, hub, past, calls>>
  BY DEF ReceiveAck, ReceiveReport, LoseReport, host, bounds
<1>2. /\ toHost' \in Seq(Ack \cup Report) /\ Len(toHost') = Len(toHost) - 1
      /\ Len(toHost) \in Nat \ {0} /\ Head(toHost) \in Ack \cup Report
      /\ \A i \in Arriving' : \E j \in Arriving : toHost'[i] = toHost[j]
  BY <1>1, Taken DEF Shapes, Arriving
<1>3. /\ op' \in [User -> Call]
      /\ \A v \in User : /\ op'[v].id = op[v].id /\ op'[v].cmd = op[v].cmd
                         /\ op'[v].value = op[v].value
  <2>1. CASE ReceiveAck
    <3>1. Head(toHost).data \in Int
      BY <1>2, <2>1 DEF ReceiveAck, Ack, Report
    <3>2. \A v \in User : [op[v] EXCEPT !.answer = Head(toHost).data, !.waiting = FALSE]
                            \in Call
      BY <3>1 DEF Shapes, Call
    <3> QED BY <2>1, <3>2 DEF ReceiveAck, Shapes, Call
  <2>2. CASE ReceiveReport \/ LoseReport
    BY <2>2 DEF ReceiveReport, LoseReport, host, Shapes
  <2> QED BY <2>1, <2>2
<1>4. status' \in [count : Nat \cup {Zeroed}, power : -100..100]
  <2>1. CASE ReceiveReport
    <3>1. Head(toHost) \in Report
      BY <1>2, <2>1 DEF ReceiveReport, Ack, Report
    <3> QED BY <2>1, <3>1 DEF ReceiveReport, Report, Shapes, TypeOK
  <2>2. CASE ReceiveAck \/ LoseReport
    BY <2>2 DEF ReceiveAck, LoseReport, Shapes, TypeOK
  <2> QED BY <2>1, <2>2
<1>5. TypeOK'
  BY <1>1, <1>2, <1>4 DEF Shapes, TypeOK, past, MotorAssumption
<1>6. Numbers'
  BY <1>1, <1>2, <1>3 DEF Numbers, Sent, Arriving
<1>7. \A v \in User : Carries(op[v])'
  BY <1>3 DEF Shapes, Carries
<1> QED BY <1>1, <1>2, <1>3, <1>5, <1>6, <1>7 DEF Shapes, past

\* What the hub does with a command.
LEMMA Execution ==
  ASSUME MotorAssumption, Shapes, NEW frame \in Command
  PROVE  /\ Executed(frame) \in [resets : Nat, drive : Moves, limit : Int]
         /\ Executed(frame).resets >= hub.resets
         /\ frame.cmd = "MOT_RST" => Executed(frame).resets = hub.resets + 1
         /\ frame.cmd \in Drives => Executed(frame).drive = frame.value
         /\ frame.cmd = "MOT_STP" => Executed(frame).drive = Off
         /\ frame.cmd \notin Drives \cup {"MOT_STP"} => Executed(frame).drive = hub.drive
<1>1. hub \in [resets : Nat, drive : Moves, limit : Int] /\ Off \in Moves
  BY DEF Shapes, TypeOK, Moves, Off
<1>2. /\ frame.cmd \in Commands /\ frame.value \in Int
      /\ frame.cmd \in Drives => frame.value \in Moves
      /\ frame.cmd = "MOT_STU" => frame.value \in {0, 1}
  BY DEF Command, Carries, Moves, Drives
<1>3. CASE frame.cmd \in Drives
  <2>1. Executed(frame) = [hub EXCEPT !.drive = frame.value]
    BY <1>3 DEF Executed, Drives
  <2> QED BY <1>1, <1>2, <1>3, <2>1 DEF Drives
<1>4. CASE frame.cmd = "MOT_STP"
  <2>1. Executed(frame) = [hub EXCEPT !.drive = Off]
    BY <1>4 DEF Executed, Drives
  <2> QED BY <1>1, <1>4, <2>1 DEF Drives
<1>5. CASE frame.cmd = "MOT_RST"
  <2>1. Executed(frame) = [hub EXCEPT !.resets = @ + 1]
    BY <1>5 DEF Executed, Drives
  <2> QED BY <1>1, <1>5, <2>1 DEF Drives
<1>6. CASE frame.cmd = "MOT_STU"
  <2>1. Executed(frame) = [hub EXCEPT !.resets = @ + frame.value]
    BY <1>6 DEF Executed, Drives
  <2> QED BY <1>1, <1>2, <1>6, <2>1 DEF Drives
<1>7. CASE frame.cmd \notin Drives \cup {"MOT_STP", "MOT_RST", "MOT_STU"}
  <2>1. Executed(frame) = [hub EXCEPT !.limit = frame.value]
    BY <1>7 DEF Executed, Drives
  <2> QED BY <1>1, <1>2, <1>7, <2>1 DEF Drives
<1> QED BY <1>3, <1>4, <1>5, <1>6, <1>7

\* What the hub sends: nothing, an answer to the command before it, or a report.
LEMMA HubSends ==
  ASSUME MotorAssumption, Shapes, Numbers, HubExecute \/ HubRefuse \/ HubReport
  PROVE  \/ toHost' = toHost
         \/ /\ Len(toHost) < LinkCapacity
            /\ \E e \in Ack \cup Report :
                 /\ toHost' = Append(toHost, e)
                 /\ \/ e.type = "report" /\ e.count = hub.resets /\ HubReport
                    \/ /\ e.type = "ack" /\ toHub # <<>> /\ e.id = Head(toHub).id
                       /\ e.id < calls
                       /\ HubExecute \/ e.data = Refused
<1>1. ASSUME NEW answer \in Int, Acknowledge(answer), toHub # <<>>
      PROVE  \E e \in Ack \cup Report :
               /\ toHost' = Append(toHost, e)
               /\ e.type = "ack" /\ e.id = Head(toHub).id /\ e.id < calls /\ e.data = answer
  <2>1. Head(toHub).id \in Nat /\ Head(toHub).id < calls
    BY <1>1, Taken DEF Shapes, Numbers, Sent, Command
  <2> DEFINE e == [type |-> "ack", id |-> Head(toHub).id, data |-> answer]
  <2>2. e \in Ack /\ e.type = "ack" /\ e.id = Head(toHub).id /\ e.data = answer
    BY <2>1 DEF Ack
  <2>3. toHost' = Append(toHost, e)
    BY <1>1 DEF Acknowledge
  <2> HIDE DEF e
  <2> QED BY <2>1, <2>2, <2>3
<1>2. CASE HubExecute
  <2>1. toHub # <<>> /\ Len(toHost) < LinkCapacity
        /\ (toHost' = toHost \/ \E answer \in Int : Acknowledge(answer))
    <3>1. hub.limit \in Int
      BY DEF Shapes, TypeOK
    <3> QED BY <1>2, <3>1 DEF HubExecute
  <2> QED BY <1>1, <1>2, <2>1
<1>3. CASE HubRefuse
  <2>1. toHub # <<>> /\ Len(toHost) < LinkCapacity /\ Acknowledge(Refused)
    BY <1>3 DEF HubRefuse
  <2>2. Refused \in Int
    BY DEF Refused
  <2> QED BY <1>1, <2>1, <2>2
<1>4. CASE HubReport
  <2> DEFINE power == IF hub.drive = Speed THEN Off ELSE hub.drive
             e(valid) == [type |-> "report", valid |-> valid, count |-> hub.resets,
                          power |-> power]
  <2>1. power \in -100..100 /\ hub.resets \in Nat
    BY DEF Shapes, TypeOK, Off, Speed
  <2>2. PICK valid \in BOOLEAN : toHost' = Append(toHost, e(valid))
    BY <1>4 DEF HubReport
  <2> HIDE DEF power
  <2>3. e(valid) \in Report /\ e(valid).type = "report" /\ e(valid).count = hub.resets
    BY <2>1 DEF Report
  <2>4. Len(toHost) < LinkCapacity
    BY <1>4 DEF HubReport
  <2> HIDE DEF e
  <2> QED BY <1>4, <2>2, <2>3, <2>4
<1> QED BY <1>2, <1>3, <1>4

\* The hub executes a command, refuses it or reports, or a command is lost.
LEMMA HubKeepsShapes ==
  ASSUME MotorAssumption, Shapes, Numbers,
         HubExecute \/ HubRefuse \/ HubReport \/ LoseCommand
  PROVE  Shapes' /\ Numbers'
<1>1. UNCHANGED <<host, status, promised, halted, raced, calls>>
  BY DEF HubExecute, HubRefuse, HubReport, LoseCommand, past, bounds
<1>2. \/ toHub' = toHub
      \/ toHub # <<>> /\ toHub' = Tail(toHub)
  BY DEF HubExecute, HubRefuse, HubReport, LoseCommand
<1>3. /\ toHub' \in Seq(Command) /\ Len(toHub') <= LinkCapacity
      /\ \A i \in Sent' : \E j \in Sent : toHub'[i] = toHub[j]
  <2>1. CASE toHub' = toHub
    BY <2>1 DEF Shapes, TypeOK, Sent
  <2>2. CASE toHub # <<>> /\ toHub' = Tail(toHub)
    BY <2>2, Taken DEF Shapes, TypeOK, MotorAssumption, Sent
  <2> QED BY <1>2, <2>1, <2>2
<1>4. hub' \in [resets : Nat, drive : (-100..100) \cup {Speed}, limit : Int]
  <2>1. CASE HubExecute
    <3>1. toHub # <<>> /\ Head(toHub) \in Command
      BY <2>1, Taken DEF HubExecute, Shapes
    <3> QED BY <2>1, <3>1, Execution DEF HubExecute, Moves
  <2>2. CASE HubRefuse \/ HubReport \/ LoseCommand
    BY <2>2 DEF HubRefuse, HubReport, LoseCommand, Shapes, TypeOK
  <2> QED BY <2>1, <2>2
<1>5. \/ toHost' = toHost
      \/ /\ Len(toHost) < LinkCapacity
         /\ \E e \in Ack \cup Report :
              /\ toHost' = Append(toHost, e)
              /\ e.type = "ack" => e.id < calls
  <2>1. CASE LoseCommand
    BY <2>1 DEF LoseCommand
  <2>2. CASE HubExecute \/ HubRefuse \/ HubReport
    BY <2>2, HubSends
  <2> QED BY <2>1, <2>2
<1>6. /\ toHost' \in Seq(Ack \cup Report) /\ Len(toHost') <= LinkCapacity
      /\ \A i \in Arriving' : toHost'[i].type = "ack" => toHost'[i].id < calls
  <2>1. CASE toHost' = toHost
    BY <2>1 DEF Shapes, TypeOK, Arriving, Numbers
  <2>2. ASSUME NEW e \in Ack \cup Report, toHost' = Append(toHost, e),
               Len(toHost) < LinkCapacity, e.type = "ack" => e.id < calls
        PROVE  /\ toHost' \in Seq(Ack \cup Report) /\ Len(toHost') <= LinkCapacity
               /\ \A i \in Arriving' : toHost'[i].type = "ack" => toHost'[i].id < calls
    <3>1. toHost \in Seq(Ack \cup Report) /\ LinkCapacity \in Nat
      BY DEF Shapes, MotorAssumption
    <3> QED BY <2>2, <3>1, Added DEF Arriving, Numbers
  <2> QED BY <1>5, <2>1, <2>2
<1>7. TypeOK'
  <2>1. dropped' \in BOOLEAN
    <3>1. CASE LoseCommand
      BY <3>1, Zenon DEF LoseCommand
    <3>2. CASE HubExecute \/ HubRefuse \/ HubReport
      BY <3>2 DEF HubExecute, HubRefuse, HubReport, past, Shapes, TypeOK
    <3> QED BY <3>1, <3>2
  <2> QED BY <1>1, <1>3, <1>4, <1>6, <2>1 DEF Shapes, TypeOK, host
<1>8. Numbers'
  <2>1. \A i \in Sent' : toHub'[i].id < calls
    BY <1>3 DEF Numbers
  <2>2. \A u \in User, i \in Sent' :
          pc[u] = "ask" /\ toHub'[i].id = op[u].id => toHub'[i].cmd = op[u].cmd
    BY <1>3 DEF Numbers
  <2>3. UNCHANGED <<pc, op, calls, request_mutex>>
    BY <1>1 DEF host
  <2>4. \A i \in Arriving' : toHost'[i].type = "ack" => toHost'[i].id < calls
    BY <1>6
  <2> QED BY <2>1, <2>2, <2>3, <2>4 DEF Numbers
<1> QED BY <1>1, <1>3, <1>6, <1>7, <1>8 DEF Shapes, host

\* Every step keeps the types and the numbers.
LEMMA ShapesKept ==
  ASSUME MotorAssumption, Shapes, Numbers, [Next]_vars
  PROVE  Shapes' /\ Numbers'
<1>1. CASE UNCHANGED vars
  BY <1>1 DEF vars, host, past, bounds, Shapes, TypeOK, Numbers, Sent, Arriving
<1> QED BY <1>1, Steps, NotingKeepsShapes, AskingKeepsShapes, SendingKeepsShapes,
           FinishingKeepsShapes, AttemptFailsKeepsShapes, ReceivingKeepsShapes, HubKeepsShapes

-----------------------------------------------------------------------------
(* Resets. *)

\* Nothing was reset in the first state.
LEMMA CountedAtFirst == ASSUME MotorAssumption, Init PROVE Counted
<1>1. promised = {} /\ \A u \in User : pc[u] = "idle"
  BY DEF Init
<1> QED BY <1>1 DEF Counted, Knows, Resets, Confirms

\* Resets are numbered.
LEMMA Numbered ==
  ASSUME Shapes
  PROVE  /\ hub.resets \in Nat /\ \A u \in User : op[u].resets \in Nat
         /\ \A n \in promised : n \in Nat
         /\ \A i \in Arriving : toHost[i].type = "report" => toHost[i].count \in Nat
<1>1. hub.resets \in Nat /\ \A n \in promised : n \in Nat
  BY DEF Shapes, TypeOK
<1>2. \A u \in User : op[u].resets \in Nat
  BY DEF Shapes, Call
<1>3. \A i \in Arriving : toHost[i] \in Ack \cup Report
  BY DEF Shapes, Arriving
<1> QED BY <1>1, <1>2, <1>3 DEF Ack, Report

\* Since(n) in the next state.
Later(n) ==
  /\ hub'.resets >= n
  /\ \A j \in Arriving' : toHost'[j].type = "report" => toHost'[j].count >= n

\* In this step u learns nothing of its reset, or begins a call.
Untold(u) ==
  /\ op'[u].resets = op[u].resets
  /\ Knows(u)' => Knows(u)
  /\ Resets(u)' => Resets(u)
  /\ \A i \in Arriving : Confirms(u, i)' => Confirms(u, i)
Begins(u) ==
  /\ ~Knows(u)' /\ \A i \in Arriving : ~Confirms(u, i)'
  /\ Resets(u)' => op'[u].resets = hub.resets + 1

\* Nothing changes for a step in which nobody learns of a reset.
LEMMA ElsewhereKeepsCounted ==
  ASSUME Shapes, Counted, UNCHANGED <<toHost, hub, promised, status>>,
         \A u \in User : Untold(u) \/ Begins(u)
  PROVE  Counted'
<1>1. Arriving' = Arriving /\ \A n : Since(n) => Later(n)
  BY DEF Arriving, Since, Later
<1>2. \A n \in promised' : Later(n) /\ (status'.count = Zeroed \/ status'.count >= n)
  BY <1>1 DEF Counted
<1>3. ASSUME NEW u \in User, Knows(u)' PROVE Later(op'[u].resets)
  <2>1. Since(op[u].resets) /\ op'[u].resets = op[u].resets
    BY <1>3 DEF Untold, Begins, Counted
  <2> QED BY <1>1, <2>1
<1>4. ASSUME NEW u \in User, Resets(u)' PROVE hub'.resets + 1 >= op'[u].resets
  BY <1>4, Numbered DEF Untold, Begins, Counted
<1>5. ASSUME NEW u \in User, NEW i \in Arriving', Confirms(u, i)'
      PROVE  /\ hub'.resets >= op'[u].resets
             /\ \A j \in Arriving' : j > i /\ toHost'[j].type = "report" =>
                  toHost'[j].count >= op'[u].resets
  <2>1. op'[u].resets = op[u].resets /\ Confirms(u, i) /\ i \in Arriving
    BY <1>1, <1>5 DEF Untold, Begins
  <2> QED BY <1>1, <2>1 DEF Counted
<1> QED BY <1>2, <1>3, <1>4, <1>5 DEF Counted, Since, Later

\* Commands, and requests that begin or end, tell nobody of a reset: a new call has a
\* number that no answer has.
LEMMA CallsKeepCounted ==
  ASSUME MotorAssumption, Shapes, Numbers, Counted, NEW u \in User,
         \/ SetSpeed(u) \/ \E power \in Power : SetPower(u, power)
         \/ SendDrive(u) \/ DriveFails(u)
         \/ \E cmd \in Requests, value \in Int :
              Carries([cmd |-> cmd, value |-> value]) /\ Ask(u, cmd, value)
         \/ Attempt(u) \/ AttemptFails(u) \/ EndRequest(u)
  PROVE  Counted'
<1>1. UNCHANGED <<toHost, hub, promised, status>>
  BY DEF SetSpeed, SetPower, SendDrive, DriveFails, Ask, Attempt, AttemptFails, EndRequest,
         past
<1>2. \A v \in User \ {u} :
        /\ pc'[v] = pc[v] /\ op'[v].cmd = op[v].cmd /\ op'[v].waiting = op[v].waiting
        /\ op'[v].answer = op[v].answer /\ op'[v].id = op[v].id
        /\ op'[v].resets = op[v].resets
  <2>1. CASE SendDrive(u)
    <3>1. op' = [v \in User |-> [op[v] EXCEPT !.alone = FALSE]] /\ pc' = [pc EXCEPT ![u] = "idle"]
      BY <2>1 DEF SendDrive, Goto
    <3>2. DOMAIN pc = User
      BY DEF Shapes, TypeOK
    <3>3. \A v \in User : op[v] \in Call
      BY DEF Shapes
    <3>4. \A v \in User \ {u} : pc'[v] = pc[v]
      <4>1. pc' = [pc EXCEPT ![u] = "idle"]
        BY <3>1
      <4> QED BY <3>2, <4>1
    <3>5. \A v \in User : op'[v] = [op[v] EXCEPT !.alone = FALSE]
      BY <3>1
    <3>6. ASSUME NEW v \in User
          PROVE  /\ op'[v].cmd = op[v].cmd /\ op'[v].waiting = op[v].waiting
                 /\ op'[v].answer = op[v].answer /\ op'[v].id = op[v].id
                 /\ op'[v].resets = op[v].resets
      <4>1. op[v] \in Call /\ op'[v] = [op[v] EXCEPT !.alone = FALSE]
        BY <3>3, <3>5
      <4> QED BY <4>1 DEF Call
    <3> QED BY <3>4, <3>6
  <2>2. CASE ~SendDrive(u)
    <3>1. /\ \E label : pc' = [pc EXCEPT ![u] = label]
          /\ op' = op \/ \E o : op' = [op EXCEPT ![u] = o]
      <4>1. CASE Attempt(u)
        <5>1. pc' = [pc EXCEPT ![u] = pc[u]]
          BY <4>1 DEF Attempt, Shapes, TypeOK
        <5>2. op' = [op EXCEPT ![u] = [op[u] EXCEPT !.tries = @ + 1]]
          BY <4>1 DEF Attempt, Shapes
        <5> QED BY <5>1, <5>2
      <4>2. CASE ~Attempt(u)
        BY <2>2, <4>2 DEF SetSpeed, SetPower, DriveFails, Ask, AttemptFails, EndRequest, Goto
      <4> QED BY <4>1, <4>2
    <3>2. \A v \in User \ {u} : pc'[v] = pc[v] /\ op'[v] = op[v]
      <4>1. DOMAIN pc = User /\ DOMAIN op = User
        BY DEF Shapes, TypeOK
      <4> QED BY <3>1, <4>1
    <3> QED BY <3>2
  <2> QED BY <2>1, <2>2
<1>3. Untold(u) \/ Begins(u)
  <2>1. CASE \/ SetSpeed(u) \/ \E power \in Power : SetPower(u, power)
             \/ SendDrive(u) \/ DriveFails(u)
    <3>1. pc'[u] \in {"idle", "drive"}
      BY <2>1 DEF SetSpeed, SetPower, SendDrive, DriveFails, Start, Goto, Shapes, TypeOK
    <3> QED BY <3>1 DEF Begins, Knows, Confirms, Resets
  <2>2. ASSUME NEW cmd \in Requests, NEW value \in Int, Ask(u, cmd, value),
               Carries([cmd |-> cmd, value |-> value])
        PROVE  Begins(u)
    <3>1. /\ pc'[u] = "ask" /\ op'[u] = NewOp(cmd, value) /\ toHost' = toHost
      BY <2>2 DEF Ask, Goto, Shapes, TypeOK
    <3>2. op'[u].waiting /\ op'[u].id = calls /\ op'[u].cmd = cmd
      BY <2>2, <3>1, NewCall DEF Commands
    <3>3. \A i \in Arriving : toHost[i].type = "ack" => toHost[i].id # calls
      <4> SUFFICES ASSUME NEW i \in Arriving, toHost[i].type = "ack"
                   PROVE  toHost[i].id # calls
        OBVIOUS
      <4>1. toHost[i].id < calls /\ toHost[i] \in Ack \cup Report
        BY DEF Numbers, Shapes, Arriving
      <4>2. toHost[i].id \in Nat /\ calls \in Nat
        BY <4>1 DEF Ack, Report, Shapes
      <4> QED BY <4>1, <4>2
    <3>4. cmd = "MOT_RST" => op'[u].resets = hub.resets + 1
      BY <3>1 DEF NewOp
    <3> QED BY <3>1, <3>2, <3>3, <3>4 DEF Begins, Knows, Resets, Confirms
  <2>3. CASE Attempt(u)
    <3>1. /\ pc' = pc /\ toHost' = toHost /\ op'[u].cmd = op[u].cmd
          /\ op'[u].waiting = op[u].waiting /\ op'[u].answer = op[u].answer
          /\ op'[u].id = op[u].id /\ op'[u].resets = op[u].resets
      BY <2>3 DEF Attempt, Shapes, Call
    <3> QED BY <3>1 DEF Untold, Knows, Resets, Confirms
  <2>4. CASE AttemptFails(u)
    <3>1. pc'[u] = "idle"
      BY <2>4 DEF AttemptFails, Goto, Shapes, TypeOK
    <3> QED BY <3>1 DEF Begins, Knows, Confirms, Resets
  <2>5. CASE EndRequest(u)
    <3>1. /\ pc[u] = "ask" /\ op' = op
          /\ pc'[u] = IF op[u].cmd = "MOT_RST" /\ Result(u) = 1 THEN "zero" ELSE "idle"
      BY <2>5 DEF EndRequest, Goto, Shapes, TypeOK
    <3>2. Result(u) = 1 <=> ~op[u].waiting /\ op[u].answer = 1
      BY DEF Result, ETIMEDOUT
    <3> QED BY <3>1, <3>2 DEF Untold, Knows, Resets, Confirms
  <2> QED BY <2>1, <2>2, <2>3, <2>4, <2>5
<1>4. \A v \in User \ {u} : Untold(v)
  BY <1>1, <1>2 DEF Untold, Knows, Resets, Confirms
<1> QED BY <1>1, <1>3, <1>4, ElsewhereKeepsCounted

\* A reset that was known is reported to the caller, when the count is zeroed.
LEMMA ZeroCountKeepsCounted ==
  ASSUME MotorAssumption, Shapes, Counted, NEW u \in User, ZeroCount(u)
  PROVE  Counted'
<1>1. /\ pc[u] = "zero" /\ pc' = [pc EXCEPT ![u] = "idle"]
      /\ promised' = promised \cup {op[u].resets} /\ status'.count = Zeroed
      /\ UNCHANGED <<op, toHost, hub>>
  BY DEF ZeroCount, Promise, Goto, Shapes, TypeOK
<1>2. \A v \in User : pc'[v] = pc[v] \/ pc'[v] = "idle"
  BY <1>1 DEF Shapes, TypeOK
<1>3. Arriving' = Arriving /\ \A n : Since(n) => Later(n)
  BY <1>1 DEF Arriving, Since, Later
<1>4. Since(op[u].resets)
  BY <1>1 DEF Counted, Knows
<1>5. \A n \in promised' : Later(n) /\ status'.count = Zeroed
  BY <1>1, <1>3, <1>4 DEF Counted
<1>6. \A v \in User : /\ Knows(v)' => Knows(v)
                      /\ Resets(v)' => Resets(v)
                      /\ \A i \in Arriving : Confirms(v, i)' => Confirms(v, i)
  BY <1>1, <1>2 DEF Knows, Resets, Confirms
<1> QED BY <1>1, <1>3, <1>5, <1>6 DEF Counted, Since, Later

\* A frame arrives at the host: the others move up.
LEMMA Arrival ==
  ASSUME Shapes, toHost # <<>>, toHost' = Tail(toHost)
  PROVE  /\ 1 \in Arriving /\ Head(toHost) = toHost[1] /\ toHost[1] \in Ack \cup Report
         /\ \A i \in Arriving' : /\ i \in Nat \ {0} /\ i + 1 \in Arriving
                                 /\ toHost'[i] = toHost[i + 1]
<1>1. toHost \in Seq(Ack \cup Report)
  BY DEF Shapes
<1> QED BY <1>1, Taken DEF Arriving

\* The first frame is taken: those behind it keep what was said of them, and it may tell
\* a user of its reset.
LEMMA ArrivalKeepsCounted ==
  ASSUME Shapes, Counted, toHost # <<>>, toHost' = Tail(toHost), UNCHANGED <<hub, promised>>,
         \A n \in promised : status'.count = Zeroed \/ status'.count >= n,
         \A u \in User : /\ op'[u].resets = op[u].resets
                         /\ Resets(u)' => Resets(u)
                         /\ Knows(u)' => Knows(u) \/ Confirms(u, 1)
                         /\ \A i \in Arriving' : Confirms(u, i)' => Confirms(u, i + 1)
  PROVE  Counted'
<1>1. /\ 1 \in Arriving
      /\ \A i \in Arriving' : /\ i \in Nat \ {0} /\ i + 1 \in Arriving /\ i + 1 > 1
                              /\ toHost'[i] = toHost[i + 1]
  <2>1. \A i \in Nat \ {0} : i + 1 > 1
    OBVIOUS
  <2> QED BY <2>1, Arrival
<1>2. \A n : Since(n) => Later(n)
  BY <1>1 DEF Since, Later
<1>3. \A n \in promised' : Later(n) /\ (status'.count = Zeroed \/ status'.count >= n)
  BY <1>2 DEF Counted
<1>4. ASSUME NEW u \in User, Knows(u)' PROVE Later(op'[u].resets)
  <2>1. CASE Knows(u)
    BY <1>2, <2>1 DEF Counted
  <2>2. CASE Confirms(u, 1)
    <3>1. /\ hub.resets >= op[u].resets
          /\ \A j \in Arriving : j > 1 /\ toHost[j].type = "report" =>
               toHost[j].count >= op[u].resets
      BY <1>1, <2>2 DEF Counted
    <3> QED BY <1>1, <3>1 DEF Later
  <2> QED BY <1>4, <2>1, <2>2
<1>5. ASSUME NEW u \in User, NEW i \in Arriving', Confirms(u, i)'
      PROVE  /\ hub'.resets >= op'[u].resets
             /\ \A j \in Arriving' : j > i /\ toHost'[j].type = "report" =>
                  toHost'[j].count >= op'[u].resets
  <2>1. Confirms(u, i + 1) /\ i + 1 \in Arriving
    BY <1>1, <1>5
  <2>2. /\ hub.resets >= op[u].resets
        /\ \A j \in Arriving : j > i + 1 /\ toHost[j].type = "report" =>
             toHost[j].count >= op[u].resets
    BY <2>1 DEF Counted
  <2>3. \A j \in Arriving' : j > i => j + 1 > i + 1
    BY <1>1
  <2> QED BY <1>1, <2>2, <2>3
<1> QED BY <1>3, <1>4, <1>5 DEF Counted, Since, Later

\* Who gets the answer to its reset knows of it.
LEMMA ReceiveAckKeepsCounted ==
  ASSUME MotorAssumption, Shapes, Counted, ReceiveAck
  PROVE  Counted'
<1>1. /\ toHost # <<>> /\ toHost' = Tail(toHost) /\ toHost[1].type = "ack"
      /\ Head(toHost) = toHost[1]
      /\ \A i \in Arriving' : toHost'[i] = toHost[i + 1]
  BY Arrival DEF ReceiveAck
<1>2. UNCHANGED <<status, pc, hub, promised>>
  BY DEF ReceiveAck, past
<1>3. ASSUME NEW u \in User
      PROVE  /\ op'[u].id = op[u].id /\ op'[u].cmd = op[u].cmd /\ op'[u].resets = op[u].resets
             /\ \/ op'[u] = op[u]
                \/ /\ op[u].waiting /\ toHost[1].id = op[u].id
                   /\ op'[u].answer = toHost[1].data /\ ~op'[u].waiting
  <2>1. op[u] \in Call
    BY DEF Shapes
  <2>2. CASE OfRequest(u, Head(toHost))
    <3>1. op'[u] = [op[u] EXCEPT !.answer = toHost[1].data, !.waiting = FALSE]
      BY <1>1, <2>2 DEF ReceiveAck
    <3> QED BY <1>1, <2>1, <2>2, <3>1 DEF Call, OfRequest
  <2>3. CASE ~OfRequest(u, Head(toHost))
    BY <2>3 DEF ReceiveAck
  <2> QED BY <2>2, <2>3
<1>4. ASSUME NEW u \in User
      PROVE  /\ Resets(u)' => Resets(u)
             /\ Knows(u)' => Knows(u) \/ Confirms(u, 1)
             /\ \A i \in Arriving' : Confirms(u, i)' => Confirms(u, i + 1)
  BY <1>1, <1>2, <1>3 DEF Resets, Knows, Confirms
<1>5. \A n \in promised : status'.count = Zeroed \/ status'.count >= n
  BY <1>2 DEF Counted
<1> QED BY <1>1, <1>2, <1>3, <1>4, <1>5, ArrivalKeepsCounted

\* What is reported was measured after all resets that are known; a frame may be lost.
LEMMA ReportsKeepCounted ==
  ASSUME MotorAssumption, Shapes, Counted, ReceiveReport \/ LoseReport
  PROVE  Counted'
<1>1. /\ toHost # <<>> /\ toHost' = Tail(toHost) /\ UNCHANGED <<pc, op, promised, hub>>
      /\ 1 \in Arriving /\ Head(toHost) = toHost[1]
      /\ \A i \in Arriving' : toHost'[i] = toHost[i + 1]
  BY Arrival DEF ReceiveReport, LoseReport, host, past
<1>2. ASSUME NEW n \in promised PROVE status'.count = Zeroed \/ status'.count >= n
  <2>1. CASE status' = status
    BY <2>1 DEF Counted
  <2>2. CASE ReceiveReport /\ Head(toHost).valid
    <3>1. status'.count = toHost[1].count /\ toHost[1].type = "report"
      BY <1>1, <2>2 DEF ReceiveReport
    <3> QED BY <1>1, <3>1 DEF Counted, Since
  <2> QED BY <2>1, <2>2 DEF ReceiveReport, LoseReport
<1>3. ASSUME NEW u \in User
      PROVE  /\ Resets(u)' => Resets(u)
             /\ Knows(u)' => Knows(u)
             /\ \A i \in Arriving' : Confirms(u, i)' => Confirms(u, i + 1)
  BY <1>1 DEF Resets, Knows, Confirms
<1> QED BY <1>1, <1>2, <1>3, ArrivalKeepsCounted

\* The hub executes a command, which may reset the count, and answers or not; or it
\* reports: what it sends comes last.
LEMMA DepartureKeepsCounted ==
  ASSUME Shapes, Shapes', Counted, UNCHANGED <<pc, op, promised, status>>,
         hub'.resets >= hub.resets,
         \/ toHost' = toHost
         \/ \E e \in Ack \cup Report :
              /\ toHost' = Append(toHost, e)
              /\ e.type = "report" => e.count = hub'.resets
              /\ \A u \in User : Resets(u) /\ e.type = "ack" /\ e.id = op[u].id /\ e.data = 1 =>
                   hub'.resets >= hub.resets + 1
  PROVE  Counted'
<1>1. ASSUME NEW i \in Arriving'
      PROVE  \/ i \in Arriving /\ toHost'[i] = toHost[i]
             \/ /\ i = Len(toHost) + 1
                /\ toHost'[i].type = "report" => toHost'[i].count = hub'.resets
                /\ \A u \in User : Confirms(u, i)' => hub'.resets >= hub.resets + 1
  <2>1. CASE toHost' = toHost
    BY <2>1 DEF Arriving
  <2>2. ASSUME NEW e \in Ack \cup Report, toHost' = Append(toHost, e),
               e.type = "report" => e.count = hub'.resets,
               \A u \in User : Resets(u) /\ e.type = "ack" /\ e.id = op[u].id /\ e.data = 1 =>
                 hub'.resets >= hub.resets + 1
        PROVE  \/ i \in Arriving /\ toHost'[i] = toHost[i]
               \/ /\ i = Len(toHost) + 1
                  /\ toHost'[i].type = "report" => toHost'[i].count = hub'.resets
                  /\ \A u \in User : Confirms(u, i)' => hub'.resets >= hub.resets + 1
    <3>1. (i \in Arriving /\ toHost'[i] = toHost[i]) \/ (i = Len(toHost) + 1 /\ toHost'[i] = e)
      BY <2>2, Added DEF Shapes, Arriving
    <3> QED BY <2>2, <3>1 DEF Confirms, Resets
  <2> QED BY <2>1, <2>2
<1>2. Len(toHost) \in Nat /\ \A i \in Arriving : i \in Nat /\ i <= Len(toHost)
  BY DEF Shapes, Arriving
<1>3. hub.resets \in Nat /\ hub'.resets \in Nat /\ \A u \in User : op[u].resets \in Nat
  BY Numbered DEF Shapes, TypeOK
<1>4. ASSUME NEW n \in Nat, Since(n) PROVE Later(n)
  BY <1>1, <1>3, <1>4 DEF Since, Later
<1>5. \A n \in promised' : Later(n) /\ (status'.count = Zeroed \/ status'.count >= n)
  BY <1>4, Numbered DEF Counted
<1>6. \A u \in User : /\ Knows(u)' => Later(op'[u].resets)
                      /\ Resets(u)' => hub'.resets + 1 >= op'[u].resets
  BY <1>3, <1>4 DEF Counted, Knows, Resets
<1>7. ASSUME NEW u \in User, NEW i \in Arriving', Confirms(u, i)'
      PROVE  /\ hub'.resets >= op'[u].resets
             /\ \A j \in Arriving' : j > i /\ toHost'[j].type = "report" =>
                  toHost'[j].count >= op'[u].resets
  <2>1. CASE i \in Arriving /\ toHost'[i] = toHost[i]
    <3>1. Confirms(u, i)
      BY <1>7, <2>1 DEF Confirms, Resets
    <3>2. /\ hub.resets >= op[u].resets
          /\ \A j \in Arriving : j > i /\ toHost[j].type = "report" =>
               toHost[j].count >= op[u].resets
      BY <2>1, <3>1 DEF Counted
    <3>3. hub'.resets >= op[u].resets
      BY <1>3, <3>2
    <3> QED BY <1>1, <3>2, <3>3
  <2>2. CASE i = Len(toHost) + 1 /\ hub'.resets >= hub.resets + 1
    <3>1. \A j \in Arriving' : ~(j > i)
      BY <1>1, <1>2, <2>2
    <3>2. Resets(u)
      BY <1>7 DEF Confirms, Resets
    <3>3. hub'.resets >= op[u].resets
      BY <1>3, <2>2, <3>2 DEF Counted
    <3> QED BY <3>1, <3>3
  <2> QED BY <1>1, <1>7, <2>1, <2>2
<1> QED BY <1>5, <1>6, <1>7 DEF Counted, Since, Later

\* The hub reports, or executes a command or refuses it.
LEMMA HubKeepsCounted ==
  ASSUME MotorAssumption, Shapes, Shapes', Numbers, Counted,
         HubExecute \/ HubRefuse \/ HubReport
  PROVE  Counted'
<1>1. UNCHANGED <<pc, op, promised, status>>
  BY DEF HubExecute, HubRefuse, HubReport, host, past
<1>2. ASSUME HubExecute
      PROVE  /\ hub'.resets >= hub.resets
             /\ Head(toHub).cmd = "MOT_RST" => hub'.resets = hub.resets + 1
  <2>1. Head(toHub) \in Command /\ hub' = Executed(Head(toHub))
    BY <1>2, Taken DEF HubExecute, Shapes
  <2> QED BY <2>1, Execution
<1>3. HubRefuse \/ HubReport => hub' = hub
  BY DEF HubRefuse, HubReport
<1>4. hub'.resets >= hub.resets /\ hub.resets \in Nat /\ (HubReport => hub'.resets = hub.resets)
  BY <1>2, <1>3, Numbered DEF HubRefuse, HubReport
<1>5. ASSUME HubExecute, NEW u \in User, Resets(u), Head(toHub).id = op[u].id
      PROVE  hub'.resets >= hub.resets + 1
  <2>1. Head(toHub) = toHub[1] /\ 1 \in Sent
    BY <1>5, Taken DEF HubExecute, Shapes, Sent
  <2>2. Head(toHub).cmd = "MOT_RST"
    BY <1>5, <2>1 DEF Resets, Numbers
  <2> QED BY <1>2, <1>4, <1>5, <2>2
<1>6. \/ toHost' = toHost
      \/ \E e \in Ack \cup Report :
           /\ toHost' = Append(toHost, e)
           /\ e.type = "report" => e.count = hub'.resets
           /\ \A u \in User : Resets(u) /\ e.type = "ack" /\ e.id = op[u].id /\ e.data = 1 =>
                hub'.resets >= hub.resets + 1
  <2>1. ASSUME NEW e \in Ack \cup Report, toHost' = Append(toHost, e),
               \/ e.type = "report" /\ e.count = hub.resets /\ HubReport
               \/ /\ e.type = "ack" /\ toHub # <<>> /\ e.id = Head(toHub).id
                  /\ HubExecute \/ e.data = Refused
        PROVE  /\ e.type = "report" => e.count = hub'.resets
               /\ \A u \in User : Resets(u) /\ e.type = "ack" /\ e.id = op[u].id /\ e.data = 1 =>
                    hub'.resets >= hub.resets + 1
    BY <1>4, <1>5, <2>1 DEF Refused
  <2> QED BY <2>1, HubSends
<1> QED BY <1>1, <1>4, <1>6, DepartureKeepsCounted

\* No step makes a count older than a reset that was answered.
LEMMA CountedKept ==
  ASSUME MotorAssumption, Shapes, Numbers, Counted, [Next]_vars
  PROVE  Counted'
<1>1. Shapes'
  BY ShapesKept
<1>2. CASE LoseCommand \/ UNCHANGED vars
  <2>1. UNCHANGED <<toHost, hub, promised, status, pc, op>>
    BY <1>2 DEF LoseCommand, host, vars, past
  <2>2. \A u \in User : Untold(u)
    BY <2>1 DEF Untold, Knows, Resets, Confirms
  <2> QED BY <2>1, <2>2, ElsewhereKeepsCounted
<1> QED BY <1>1, <1>2, Steps, CallsKeepCounted, ZeroCountKeepsCounted,
           ReceiveAckKeepsCounted, ReportsKeepCounted, HubKeepsCounted

-----------------------------------------------------------------------------
(* Stops. *)

\* A command reaches the hub, or is lost: the others move up.
LEMMA Delivery ==
  ASSUME Shapes, toHub # <<>>, toHub' = Tail(toHub)
  PROVE  /\ 1 \in Sent /\ Head(toHub) = toHub[1] /\ toHub[1] \in Command
         /\ \A i \in Sent' : i \in Nat \ {0} /\ i + 1 \in Sent /\ toHub'[i] = toHub[i + 1]
         /\ \A i \in Sent : i # 1 => i - 1 \in Sent' /\ toHub[i] = toHub'[i - 1]
<1>1. toHub \in Seq(Command)
  BY DEF Shapes
<1> QED BY <1>1, Taken DEF Sent

\* What is sent comes behind all that was sent before.
LEMMA Dispatch ==
  ASSUME Shapes, NEW frame \in Command, toHub' = Append(toHub, frame)
  PROVE  /\ Len(toHub) \in Nat /\ Len(toHub) + 1 \in Sent' /\ toHub'[Len(toHub) + 1] = frame
         /\ \A i \in Sent : i \in Sent' /\ toHub'[i] = toHub[i] /\ i \in Nat /\ i <= Len(toHub)
         /\ \A i \in Sent' : i \in Sent \/ i = Len(toHub) + 1
<1>1. toHub \in Seq(Command)
  BY DEF Shapes
<1> QED BY <1>1, Added DEF Sent

\* Calls that begin or fail leave frames and drive alone; a new stop has no frame yet.
LEMMA BeginningKeepsStopped ==
  ASSUME MotorAssumption, Shapes, Numbers, Stopped, NEW u \in User,
         \/ SetSpeed(u) \/ \E power \in Power : SetPower(u, power)
         \/ \E cmd \in Requests, value \in Int : Ask(u, cmd, value)
         \/ DriveFails(u) \/ ZeroCount(u)
  PROVE  Stopped'
<1>1. UNCHANGED <<toHub, toHost, hub, halted>>
  BY DEF SetSpeed, SetPower, Ask, DriveFails, ZeroCount, past
<1>2. Still' = Still /\ Sent' = Sent /\ Arriving' = Arriving
  BY <1>1 DEF Still, NoDriveSent, Sent, Arriving
<1>3. \A v \in User \ {u} : pc'[v] = pc[v] /\ op'[v] = op[v]
  <2>1. \E label : pc' = [pc EXCEPT ![u] = label]
    BY DEF SetSpeed, SetPower, Ask, DriveFails, ZeroCount, Goto
  <2>2. op' = op \/ \E o : op' = [op EXCEPT ![u] = o]
    BY DEF SetSpeed, SetPower, Ask, DriveFails, ZeroCount
  <2>3. DOMAIN pc = User /\ DOMAIN op = User
    BY DEF Shapes, TypeOK
  <2> QED BY <2>1, <2>2, <2>3
<1>4. pc'[u] = "ask" => op'[u].id = calls /\ op'[u].waiting
  <2>1. ASSUME NEW cmd \in Requests, NEW value \in Int, Ask(u, cmd, value)
        PROVE  op'[u].id = calls /\ op'[u].waiting
    <3>1. op'[u] = NewOp(cmd, value)
      BY <2>1 DEF Ask, Shapes
    <3> QED BY <3>1 DEF NewOp
  <2>2. CASE ~\E cmd \in Requests, value \in Int : Ask(u, cmd, value)
    BY <2>2 DEF SetSpeed, SetPower, DriveFails, ZeroCount, Goto, Shapes, TypeOK
  <2> QED BY <2>1, <2>2
<1>5. /\ \A i \in Sent : toHub[i].id # calls
      /\ \A i \in Arriving : toHost[i].type = "ack" => toHost[i].id # calls
  <2>1. calls \in Nat /\ \A i \in Sent : toHub[i].id \in Nat
    BY DEF Shapes, Sent, Command
  <2>2. \A i \in Arriving : toHost[i].type = "ack" => toHost[i].id \in Nat
    BY DEF Shapes, Arriving, Ack, Report
  <2> QED BY <2>1, <2>2 DEF Numbers
<1>6. ASSUME NEW v \in User, Stops(v)'
      PROVE  /\ \A i, j \in Sent : toHub[i].id = op'[v].id /\ toHub[j].cmd \in Drives => j < i
             /\ Answered(v)' => Still
             /\ \A i \in Arriving : Answers(v, i)' => Still
  <2>1. CASE v = u
    BY <1>1, <1>4, <1>5, <1>6, <2>1 DEF Stops, Answered, Answers
  <2>2. CASE v # u
    BY <1>1, <1>3, <1>6, <2>2 DEF Stops, Stopped, Answered, Answers
  <2> QED BY <2>1, <2>2
<1> QED BY <1>1, <1>2, <1>6 DEF Stopped

\* A drive command ends every stop; an attempt of a stop comes behind the others.
LEMMA SendingKeepsStopped ==
  ASSUME MotorAssumption, Shapes, Numbers, Stopped, NEW u \in User,
         SendDrive(u) \/ Attempt(u) \/ AttemptFails(u)
  PROVE  Stopped'
<1>1. CASE SendDrive(u)
  <2>1. ~halted' /\ op' = [v \in User |-> [op[v] EXCEPT !.alone = FALSE]]
    BY <1>1 DEF SendDrive
  <2>2. \A v \in User : ~op'[v].alone
    BY <2>1 DEF Shapes, Call
  <2> QED BY <2>1, <2>2 DEF Stopped, Stops
<1>2. CASE (Attempt(u) \/ AttemptFails(u)) /\ toHub' = Append(toHub, Frame(u))
  <2>1. /\ pc[u] = "ask" /\ \A v \in User : pc'[v] = "ask" => pc[v] = "ask"
        /\ toHub' = Append(toHub, Frame(u))
        /\ UNCHANGED <<toHost, hub, halted>>
    BY <1>2 DEF Attempt, AttemptFails, Goto, past, Shapes, TypeOK
  <2>2. op[u].cmd \in Requests /\ Frame(u).cmd = op[u].cmd /\ Frame(u) \in Command
    BY <2>1, FrameIsCommand DEF Numbers, Commands, Frame
  <2>3. op[u].cmd \notin Drives
    BY <2>2 DEF Requests, Drives
  <2>4. Still' = Still
    BY <2>1, <2>2, <2>3, Dispatch DEF Still, NoDriveSent
  <2>5. \A v \in User : /\ op'[v].id = op[v].id /\ op'[v].cmd = op[v].cmd
                        /\ op'[v].waiting = op[v].waiting /\ op'[v].alone = op[v].alone
                        /\ op'[v].answer = op[v].answer
    <3>1. CASE AttemptFails(u)
      BY <3>1 DEF AttemptFails
    <3>2. CASE Attempt(u)
      BY <3>2 DEF Attempt, Shapes, Call
    <3> QED BY <1>2, <3>1, <3>2
  <2>6. ASSUME NEW v \in User, Stops(v), NEW i \in Sent', NEW j \in Sent',
               toHub'[i].id = op[v].id, toHub'[j].cmd \in Drives
        PROVE  j < i
    <3>1. j \in Sent /\ toHub[j].cmd \in Drives /\ j \in Nat /\ j <= Len(toHub)
      BY <2>1, <2>2, <2>3, <2>6, Dispatch
    <3>2. CASE i \in Sent
      BY <2>1, <2>2, <2>6, <3>1, <3>2, Dispatch DEF Stopped
    <3>3. CASE i = Len(toHub) + 1
      BY <3>1, <3>3, <2>1, <2>2, Dispatch
    <3> QED BY <2>1, <2>2, <3>2, <3>3, Dispatch
  <2>7. \A v \in User : Stops(v)' => Stops(v)
    BY <2>1, <2>5 DEF Stops
  <2>8. Arriving' = Arriving
    BY <2>1 DEF Arriving
  <2>9. ASSUME NEW v \in User, Stops(v)'
        PROVE  /\ \A i, j \in Sent' : toHub'[i].id = op'[v].id /\ toHub'[j].cmd \in Drives => j < i
               /\ Answered(v)' => Still
               /\ \A i \in Arriving : Answers(v, i)' => Still
    <3>1. Stops(v) /\ UNCHANGED toHost
      BY <2>1, <2>7, <2>9
    <3>2. Answered(v)' => Answered(v)
      BY <2>5 DEF Answered
    <3>3. \A i \in Arriving : Answers(v, i)' => Answers(v, i)
      BY <2>5, <3>1 DEF Answers
    <3>4. \A i, j \in Sent' : toHub'[i].id = op'[v].id /\ toHub'[j].cmd \in Drives => j < i
      BY <2>5, <2>6, <3>1
    <3> QED BY <3>1, <3>2, <3>3, <3>4 DEF Stopped
  <2>10. halted' => Still
    BY <2>1 DEF Stopped
  <2> QED BY <2>1, <2>4, <2>8, <2>9, <2>10 DEF Stopped
<1>3. CASE AttemptFails(u) /\ toHub' = toHub
  <2>1. UNCHANGED <<toHost, hub, halted, op>> /\ \A v \in User : pc'[v] = "ask" => pc[v] = "ask"
    BY <1>3 DEF AttemptFails, Goto, past, Shapes, TypeOK
  <2>2. Still' = Still /\ Sent' = Sent /\ Arriving' = Arriving
    BY <1>3, <2>1 DEF Still, NoDriveSent, Sent, Arriving
  <2> QED BY <1>3, <2>1, <2>2 DEF Stopped, Stops, Answered, Answers
<1> QED BY <1>1, <1>2, <1>3 DEF Attempt, AttemptFails

\* A stop that is reported done was executed, and nothing was sent since.
LEMMA EndRequestKeepsStopped ==
  ASSUME MotorAssumption, Shapes, Numbers, Stopped, NEW u \in User, EndRequest(u)
  PROVE  Stopped'
<1>1. /\ pc[u] = "ask" /\ UNCHANGED <<toHub, toHost, hub, op>>
      /\ halted' = (halted \/ (op[u].cmd = "MOT_STP" /\ Succeeded(u) /\ op[u].alone))
  BY DEF EndRequest
<1>2. Still' = Still /\ Sent' = Sent /\ Arriving' = Arriving
  BY <1>1 DEF Still, NoDriveSent, Sent, Arriving
<1>3. \A v \in User : pc'[v] = "ask" => pc[v] = "ask"
  BY DEF EndRequest, Goto, Shapes, TypeOK
<1>4. halted' => Still
  <2>1. CASE halted
    BY <2>1 DEF Stopped
  <2>2. CASE op[u].cmd = "MOT_STP" /\ Succeeded(u) /\ op[u].alone
    <3>1. Answered(u)
      BY <2>2 DEF Answered, Succeeded, Result, ETIMEDOUT
    <3> QED BY <1>1, <2>2, <3>1 DEF Stopped, Stops
  <2> QED BY <1>1, <2>1, <2>2
<1> QED BY <1>1, <1>2, <1>3, <1>4 DEF Stopped, Stops, Answered, Answers

\* The acknowledgement of a stop arrives when the motor is still.
LEMMA ReceivingKeepsStopped ==
  ASSUME MotorAssumption, Shapes, Numbers, Stopped, ReceiveAck \/ ReceiveReport \/ LoseReport
  PROVE  Stopped'
<1>1. toHost # <<>> /\ toHost' = Tail(toHost) /\ UNCHANGED <<pc, toHub, hub, halted>>
  BY DEF ReceiveAck, ReceiveReport, LoseReport, host, past
<1>2. Still' = Still /\ Sent' = Sent
  BY <1>1 DEF Still, NoDriveSent, Sent
<1>3. \A v \in User : /\ op'[v].id = op[v].id /\ op'[v].cmd = op[v].cmd
                      /\ op'[v].alone = op[v].alone
                      /\ \/ op'[v].waiting = op[v].waiting /\ op'[v].answer = op[v].answer
                         \/ /\ toHost[1].type = "ack" /\ toHost[1].id = op[v].id
                            /\ op'[v].answer = toHost[1].data
  <2>1. CASE ReceiveAck
    <3> SUFFICES ASSUME NEW v \in User
                 PROVE  /\ op'[v].id = op[v].id /\ op'[v].cmd = op[v].cmd
                        /\ op'[v].alone = op[v].alone
                        /\ \/ op'[v].waiting = op[v].waiting /\ op'[v].answer = op[v].answer
                           \/ /\ toHost[1].type = "ack" /\ toHost[1].id = op[v].id
                              /\ op'[v].answer = toHost[1].data
      OBVIOUS
    <3>1. op[v] \in Call /\ Head(toHost) = toHost[1] /\ Head(toHost).type = "ack"
      BY <1>1, <2>1, Arrival DEF ReceiveAck, Shapes
    <3>2. CASE OfRequest(v, Head(toHost))
      <4>1. op'[v] = [op[v] EXCEPT !.answer = Head(toHost).data, !.waiting = FALSE]
        BY <2>1, <3>2 DEF ReceiveAck
      <4> QED BY <3>1, <3>2, <4>1 DEF OfRequest, Call
    <3>3. CASE ~OfRequest(v, Head(toHost))
      <4>1. op'[v] = op[v]
        BY <2>1, <3>3 DEF ReceiveAck
      <4> QED BY <4>1
    <3> QED BY <3>2, <3>3
  <2>2. CASE ReceiveReport \/ LoseReport
    BY <2>2 DEF ReceiveReport, LoseReport, host
  <2> QED BY <2>1, <2>2
<1>4. ASSUME NEW v \in User, Stops(v)'
      PROVE  /\ Stops(v) /\ (Answered(v)' => Still)
             /\ \A i \in Arriving' : Answers(v, i)' => Still
  <2>1. Stops(v)
    BY <1>1, <1>3, <1>4 DEF Stops
  <2>2. Answered(v)' => Still
    <3>1. Answered(v)' => Answered(v) \/ Answers(v, 1)
      BY <1>3 DEF Answered, Answers
    <3> QED BY <1>1, <2>1, <3>1, Arrival DEF Stopped
  <2>3. \A i \in Arriving' : i + 1 \in Arriving /\ toHost'[i] = toHost[i + 1]
    BY <1>1, Arrival
  <2>4. op'[v].id = op[v].id
    BY <1>3
  <2>5. \A i \in Arriving : Answers(v, i) => Still
    BY <2>1 DEF Stopped
  <2>6. \A i \in Arriving' : Answers(v, i)' => Answers(v, i + 1)
    BY <2>3, <2>4 DEF Answers
  <2> QED BY <2>1, <2>2, <2>3, <2>5, <2>6
<1>5. ASSUME NEW v \in User, Stops(v)', NEW i \in Sent', NEW j \in Sent',
             toHub'[i].id = op'[v].id, toHub'[j].cmd \in Drives
      PROVE  j < i
  <2>1. i \in Sent /\ j \in Sent /\ toHub[i].id = op[v].id /\ toHub[j].cmd \in Drives
    BY <1>1, <1>2, <1>3, <1>5
  <2>2. Stops(v)
    BY <1>4, <1>5
  <2> QED BY <2>1, <2>2 DEF Stopped
<1>6. halted' => Still
  BY <1>1 DEF Stopped
<1> QED BY <1>2, <1>4, <1>5, <1>6 DEF Stopped

\* The hub executes commands in their order, so that nothing drives the motor after a
\* stop that comes behind every drive command.
LEMMA HubKeepsStopped ==
  ASSUME MotorAssumption, Shapes, Numbers, Stopped, HubExecute
  PROVE  Stopped'
<1> DEFINE frame == Head(toHub)
<1>1. /\ toHub # <<>> /\ toHub' = Tail(toHub) /\ hub' = Executed(frame)
      /\ UNCHANGED <<pc, op, halted>>
  BY DEF HubExecute, host, past
<1>2. /\ 1 \in Sent /\ frame = toHub[1] /\ frame \in Command
      /\ \A i \in Sent' : i \in Nat \ {0} /\ i + 1 \in Sent /\ toHub'[i] = toHub[i + 1]
  BY <1>1, Delivery
<1>3. Still => Still'
  <2> SUFFICES ASSUME Still PROVE hub'.drive = Off /\ \A i \in Sent' : toHub'[i].cmd \notin Drives
    BY DEF Still, NoDriveSent
  <2>1. frame.cmd \notin Drives /\ hub.drive = Off
    BY <1>2 DEF Still, NoDriveSent
  <2>2. hub'.drive = Off
    BY <1>1, <1>2, <2>1, Execution
  <2> QED BY <1>2, <2>2 DEF Still, NoDriveSent
<1>4. ASSUME NEW v \in User, Stops(v), frame.id = op[v].id
      PROVE  Still'
  <2>1. frame.cmd = "MOT_STP"
    BY <1>2, <1>4 DEF Stops, Numbers
  <2>2. hub'.drive = Off
    BY <1>1, <1>2, <2>1, Execution
  <2>3. \A j \in Sent : toHub[j].cmd \in Drives => j < 1
    BY <1>2, <1>4 DEF Stopped
  <2>4. ASSUME NEW i \in Sent' PROVE toHub'[i].cmd \notin Drives
    <3>1. /\ i \in Nat \ {0} /\ i + 1 \in Sent
          /\ toHub'[i] = toHub[i + 1]
      BY <1>2
    <3>2. toHub[i + 1].cmd \in Drives => i + 1 < 1
      BY <2>3, <3>1
    <3>3. ~(i + 1 < 1)
      BY <3>1
    <3> QED BY <3>1, <3>2, <3>3
  <2> QED BY <2>2, <2>4 DEF Still, NoDriveSent
<1>5. \A i \in Arriving' : toHost'[i].type = "ack" =>
        \/ i \in Arriving /\ toHost'[i] = toHost[i]
        \/ toHost'[i].id = frame.id
  <2>1. CASE toHost' = toHost
    BY <2>1 DEF Arriving
  <2>2. ASSUME NEW e \in Ack \cup Report, toHost' = Append(toHost, e),
               e.type = "ack" => e.id = frame.id
        PROVE  \A i \in Arriving' : toHost'[i].type = "ack" =>
                 \/ i \in Arriving /\ toHost'[i] = toHost[i]
                 \/ toHost'[i].id = frame.id
    <3>1. toHost \in Seq(Ack \cup Report)
      BY DEF Shapes
    <3> QED BY <2>2, <3>1, Added DEF Arriving
  <2>3. \/ toHost' = toHost
        \/ \E e \in Ack \cup Report :
             toHost' = Append(toHost, e) /\ (e.type = "ack" => e.id = frame.id)
    BY HubSends
  <2> QED BY <2>1, <2>2, <2>3
<1>6. ASSUME NEW v \in User, Stops(v)
      PROVE  /\ \A i, j \in Sent' : toHub'[i].id = op[v].id /\ toHub'[j].cmd \in Drives => j < i
             /\ Answered(v)' => Still'
             /\ \A i \in Arriving' : Answers(v, i)' => Still'
  <2>1. ASSUME NEW i \in Sent', NEW j \in Sent', toHub'[i].id = op[v].id,
               toHub'[j].cmd \in Drives
        PROVE  j < i
    <3>1. j + 1 < i + 1
      BY <1>2, <1>6, <2>1 DEF Stopped
    <3> QED BY <1>2, <3>1
  <2>2. \A i \in Arriving' : Answers(v, i)' => Still'
    BY <1>1, <1>3, <1>4, <1>5, <1>6 DEF Stopped, Answers
  <2>3. Answered(v)' => Still'
    BY <1>1, <1>3, <1>6 DEF Stopped, Answered
  <2> QED BY <2>1, <2>2, <2>3
<1> QED BY <1>1, <1>3, <1>6 DEF Stopped, Stops

\* Losing or refusing a command, or sending a report, drives nothing.
LEMMA OthersKeepStopped ==
  ASSUME MotorAssumption, Shapes, Numbers, Stopped, ~HubExecute,
         HubRefuse \/ HubReport \/ LoseCommand \/ UNCHANGED vars
  PROVE  Stopped'
<1>1. UNCHANGED <<pc, op, halted, hub>>
  BY DEF HubRefuse, HubReport, LoseCommand, host, past, vars
<1>2. \A v \in User, i \in Arriving' : Answers(v, i)' => i \in Arriving /\ Answers(v, i)
  <2>1. CASE toHost' = toHost
    BY <1>1, <2>1 DEF Arriving, Answers
  <2>2. ASSUME NEW e \in Ack \cup Report, toHost' = Append(toHost, e),
               e.type = "report" \/ e.data = Refused
        PROVE  \A v \in User, i \in Arriving' : Answers(v, i)' => i \in Arriving /\ Answers(v, i)
    <3>1. \A i \in Arriving' : (i \in Arriving /\ toHost'[i] = toHost[i]) \/ toHost'[i] = e
      BY <2>2, Added DEF Shapes, Arriving
    <3> SUFFICES ASSUME NEW v \in User, NEW i \in Arriving', Answers(v, i)'
                 PROVE  i \in Arriving /\ Answers(v, i)
      OBVIOUS
    <3>2. toHost'[i].type = "ack" /\ toHost'[i].data # Refused /\ op' = op
      BY <1>1 DEF Answers, Refused
    <3>3. i \in Arriving /\ toHost'[i] = toHost[i]
      BY <2>2, <3>1, <3>2
    <3> QED BY <3>2, <3>3 DEF Answers
  <2>3. \/ toHost' = toHost
        \/ \E e \in Ack \cup Report :
             toHost' = Append(toHost, e) /\ (e.type = "report" \/ e.data = Refused)
    BY HubSends DEF LoseCommand, vars
  <2> QED BY <2>1, <2>2, <2>3
<1>3. \/ toHub' = toHub /\ Sent' = Sent
      \/ \A i \in Sent' : i \in Nat \ {0} /\ i + 1 \in Sent /\ toHub'[i] = toHub[i + 1]
  BY Delivery DEF HubRefuse, HubReport, LoseCommand, vars, Sent
<1>4. Still => Still'
  BY <1>1, <1>3 DEF Still, NoDriveSent
<1>5. ASSUME NEW v \in User, Stops(v), NEW i \in Sent', NEW j \in Sent',
             toHub'[i].id = op[v].id, toHub'[j].cmd \in Drives
      PROVE  j < i
  <2>1. CASE toHub' = toHub /\ Sent' = Sent
    BY <1>5, <2>1 DEF Stopped
  <2>2. CASE \A k \in Sent' : k \in Nat \ {0} /\ k + 1 \in Sent /\ toHub'[k] = toHub[k + 1]
    <3>1. j + 1 < i + 1
      BY <1>5, <2>2 DEF Stopped
    <3> QED BY <2>2, <3>1
  <2> QED BY <1>3, <2>1, <2>2
<1> QED BY <1>1, <1>2, <1>4, <1>5 DEF Stopped, Stops, Answered

\* No step undoes a stop.
LEMMA StoppedKept ==
  ASSUME MotorAssumption, Shapes, Numbers, Stopped, [Next]_vars
  PROVE  Stopped'
  BY Steps, BeginningKeepsStopped, SendingKeepsStopped, EndRequestKeepsStopped,
     ReceivingKeepsStopped, HubKeepsStopped, OthersKeepStopped

-----------------------------------------------------------------------------
(* Powers. *)

\* Who is sending a drive command, and its value, are as before.
Sending == \A v \in User : /\ pc'[v] = "drive" <=> pc[v] = "drive"
                           /\ pc[v] = "drive" => op'[v].value = op[v].value

\* Requests and what arrives at the host do not concern the drive commands.
LEMMA RequestsLeaveSending ==
  ASSUME MotorAssumption, Shapes, Numbers,
         \/ \E u \in User : \/ Attempt(u) \/ AttemptFails(u) \/ EndRequest(u) \/ ZeroCount(u)
                            \/ \E cmd \in Requests, value \in Int : Ask(u, cmd, value)
         \/ ReceiveAck \/ ReceiveReport \/ LoseReport
         \/ HubExecute \/ HubRefuse \/ HubReport \/ LoseCommand \/ UNCHANGED vars
  PROVE  Sending /\ UNCHANGED <<pdev, raced>>
<1>1. ASSUME NEW u \in User,
             \/ Attempt(u) \/ AttemptFails(u) \/ EndRequest(u) \/ ZeroCount(u)
             \/ \E cmd \in Requests, value \in Int : Ask(u, cmd, value)
      PROVE  Sending
  <2>1. pc[u] # "drive" /\ pc'[u] # "drive" /\ \A v \in User \ {u} : pc'[v] = pc[v]
    BY <1>1 DEF Attempt, AttemptFails, EndRequest, ZeroCount, Ask, Start, Goto, Shapes, TypeOK
  <2>2. \A v \in User \ {u} : op'[v] = op[v]
    BY <1>1 DEF Attempt, AttemptFails, EndRequest, ZeroCount, Ask, Shapes
  <2> QED BY <2>1, <2>2 DEF Sending
<1>2. ASSUME ReceiveAck PROVE Sending
  <2>1. pc' = pc
    BY <1>2 DEF ReceiveAck
  <2>2. ASSUME NEW v \in User PROVE op'[v].value = op[v].value
    <3>1. op[v] \in Call
      BY DEF Shapes
    <3>2. \/ op'[v] = [op[v] EXCEPT !.answer = Head(toHost).data, !.waiting = FALSE]
          \/ op'[v] = op[v]
      BY <1>2 DEF ReceiveAck
    <3> QED BY <3>1, <3>2 DEF Call
  <2> QED BY <2>1, <2>2 DEF Sending
<1>3. ASSUME \/ ReceiveReport \/ LoseReport \/ HubExecute \/ HubRefuse \/ HubReport
             \/ LoseCommand \/ UNCHANGED vars
      PROVE  Sending
  BY <1>3 DEF ReceiveReport, LoseReport, HubExecute, HubRefuse, HubReport, LoseCommand, host,
              vars, Sending
<1>4. UNCHANGED <<pdev, raced>>
  BY DEF Attempt, AttemptFails, EndRequest, ZeroCount, Ask, ReceiveAck, ReceiveReport,
         LoseReport, HubExecute, HubRefuse, HubReport, LoseCommand, host, past, vars
<1> QED BY <1>1, <1>2, <1>3, <1>4

\* A power or a speed is noted: unless another is being sent, it is the only one.
LEMMA NotingKeepsApplied ==
  ASSUME MotorAssumption, Shapes, Applied, NEW u \in User,
         SetSpeed(u) \/ \E power \in Power : SetPower(u, power)
  PROVE  Applied'
<1>1. /\ pc'[u] = "drive" /\ \A v \in User \ {u} : pc'[v] = pc[v]
      /\ pc[u] = "idle" /\ raced' = (\E v \in User : pc[v] = "drive")
  BY DEF SetSpeed, SetPower, Start, Goto, Shapes, TypeOK
<1>2. ~raced' => \A v, w \in User : pc'[v] = "drive" /\ pc'[w] = "drive" => v = w
  BY <1>1
<1>3. pdev'.cmd = "MOT_POW" => op'[u].value = pdev'.power
  <2>1. CASE SetSpeed(u)
    BY <2>1 DEF SetSpeed, Shapes, TypeOK
  <2>2. ASSUME NEW power \in Power, SetPower(u, power)
        PROVE  op'[u].value = pdev'.power
    <3>1. op'[u] = NewOp("MOT_POW", Clamp(power)) /\ pdev'.power = Clamp(power)
      BY <2>2 DEF SetPower, Shapes
    <3> QED BY <3>1 DEF NewOp
  <2> QED BY <2>1, <2>2
<1> QED BY <1>1, <1>2, <1>3 DEF Applied

\* The only command that is being sent becomes the last one on its way.
LEMMA SendDriveKeepsApplied ==
  ASSUME MotorAssumption, Shapes, Numbers, Applied, NEW u \in User, SendDrive(u)
  PROVE  Applied'
<1>1. /\ pc[u] = "drive" /\ pc'[u] = "idle" /\ \A v \in User \ {u} : pc'[v] = pc[v]
      /\ toHub' = Append(toHub, Frame(u)) /\ UNCHANGED <<pdev, raced, dropped>>
  BY DEF SendDrive, Goto, Shapes, TypeOK
<1>2. /\ op[u].cmd \in Drives /\ Frame(u) \in Command
      /\ Frame(u).cmd = op[u].cmd /\ Frame(u).value = op[u].value
  BY <1>1, FrameIsCommand DEF Numbers, Commands, Frame
<1>3. ~raced => \A v, w \in User : pc'[v] = "drive" /\ pc'[w] = "drive" => v = w
  BY <1>1 DEF Applied
<1>4. ASSUME ~raced, ~dropped, pdev.cmd = "MOT_POW"
      PROVE  /\ \A v \in User : pc'[v] # "drive"
             /\ \E i \in Sent' : LastDrive(i)' /\ toHub'[i].value = pdev.power
  <2>1. \A v \in User : pc[v] = "drive" => v = u
    BY <1>1, <1>4 DEF Applied
  <2>2. op[u].value = pdev.power
    BY <1>1, <1>4, <2>1 DEF Applied
  <2>3. PICK n \in Sent' : n = Len(toHub) + 1 /\ toHub'[n] = Frame(u) /\ n \in Nat
    BY <1>1, <1>2, Dispatch DEF Shapes
  <2>4. \A i \in Sent' : ~(i > n)
    BY <1>1, <1>2, <2>3, Dispatch
  <2>5. LastDrive(n)' /\ toHub'[n].value = pdev.power
    BY <1>2, <2>2, <2>3, <2>4 DEF LastDrive
  <2> QED BY <1>1, <2>1, <2>5
<1> QED BY <1>1, <1>3, <1>4 DEF Applied

\* A command that is not sent is no longer spoken of.
LEMMA DriveFailsKeepsApplied ==
  ASSUME MotorAssumption, Shapes, Applied, NEW u \in User, DriveFails(u)
  PROVE  Applied'
<1>1. /\ dropped' /\ raced' = raced
      /\ \A v \in User : pc'[v] = "drive" => pc[v] = "drive"
  BY DEF DriveFails, Goto, Shapes, TypeOK
<1> QED BY <1>1 DEF Applied

\* An attempt of a request comes behind the drive commands and is none.
LEMMA AttemptKeepsApplied ==
  ASSUME MotorAssumption, Shapes, Numbers, Applied, NEW u \in User,
         Attempt(u) \/ (AttemptFails(u) /\ toHub' # toHub)
  PROVE  Applied'
<1>1. Sending /\ UNCHANGED <<pdev, raced>>
  BY RequestsLeaveSending
<1>2. /\ pc[u] = "ask" /\ toHub' = Append(toHub, Frame(u)) /\ UNCHANGED <<hub, dropped>>
  BY DEF Attempt, AttemptFails, past
<1>3. Frame(u) \in Command /\ Frame(u).cmd \notin Drives
  BY <1>2, FrameIsCommand DEF Numbers, Commands, Frame, Drives, Requests
<1>4. ASSUME NEW i \in Sent, LastDrive(i)
      PROVE  i \in Sent' /\ LastDrive(i)' /\ toHub'[i] = toHub[i]
  BY <1>2, <1>3, <1>4, Dispatch DEF LastDrive
<1>5. NoDriveSent => NoDriveSent'
  BY <1>2, <1>3, Dispatch DEF NoDriveSent
<1>6. ~raced' => \A v, w \in User : pc'[v] = "drive" /\ pc'[w] = "drive" => v = w
  BY <1>1 DEF Sending, Applied
<1>7. ASSUME ~raced, ~dropped, pdev.cmd = "MOT_POW"
      PROVE  \/ \E v \in User : pc'[v] = "drive" /\ op'[v].value = pdev.power
             \/ /\ \A v \in User : pc'[v] # "drive"
                /\ \/ \E i \in Sent' : LastDrive(i)' /\ toHub'[i].value = pdev.power
                   \/ NoDriveSent' /\ hub'.drive \in {pdev.power, Off}
  <2>1. CASE \E v \in User : pc[v] = "drive" /\ op[v].value = pdev.power
    BY <1>1, <2>1 DEF Sending
  <2>2. ASSUME \A v \in User : pc[v] # "drive",
               NEW i \in Sent, LastDrive(i), toHub[i].value = pdev.power
        PROVE  /\ \A v \in User : pc'[v] # "drive"
               /\ i \in Sent' /\ LastDrive(i)' /\ toHub'[i].value = pdev.power
    BY <1>1, <1>4, <2>2 DEF Sending
  <2>3. ASSUME \A v \in User : pc[v] # "drive", NoDriveSent, hub.drive \in {pdev.power, Off}
        PROVE  /\ \A v \in User : pc'[v] # "drive"
               /\ NoDriveSent' /\ hub'.drive \in {pdev.power, Off}
    BY <1>1, <1>2, <1>5, <2>3 DEF Sending
  <2> QED BY <1>7, <2>1, <2>2, <2>3 DEF Applied
<1> QED BY <1>1, <1>2, <1>6, <1>7 DEF Applied

\* The hub applies the power that came last; a command that is lost is spoken of no
\* longer, if it drives the motor.
LEMMA HubKeepsApplied ==
  ASSUME MotorAssumption, Shapes, Numbers, Applied, HubExecute \/ HubRefuse \/ LoseCommand
  PROVE  Applied'
<1> DEFINE frame == Head(toHub)
<1>1. Sending /\ UNCHANGED <<pdev, raced>>
  BY RequestsLeaveSending
<1>2. /\ toHub # <<>> /\ toHub' = Tail(toHub)
      /\ ~dropped' => ~dropped
      /\ ~HubExecute /\ ~dropped' => frame.cmd \notin Drives /\ hub' = hub
      /\ HubExecute => hub' = Executed(frame)
  <2>1. LoseCommand \/ HubRefuse => hub' = hub
    BY DEF LoseCommand, HubRefuse
  <2>2. ASSUME LoseCommand, ~dropped' PROVE ~dropped /\ frame.cmd \notin Drives
    BY <2>2 DEF LoseCommand
  <2>3. HubExecute => hub' = Executed(frame) /\ dropped' = dropped
    BY DEF HubExecute, past
  <2>4. toHub # <<>> /\ toHub' = Tail(toHub)
    BY DEF HubExecute, HubRefuse, LoseCommand
  <2>5. HubRefuse => dropped' = dropped /\ frame.cmd \notin Drives
    BY DEF HubRefuse, past, Requests, Drives
  <2> QED BY <2>1, <2>2, <2>3, <2>4, <2>5
<1>3. /\ 1 \in Sent /\ frame = toHub[1] /\ frame \in Command
      /\ \A i \in Sent' : i \in Nat \ {0} /\ i + 1 \in Sent /\ toHub'[i] = toHub[i + 1]
      /\ \A i \in Sent : i # 1 => i - 1 \in Sent' /\ toHub[i] = toHub'[i - 1]
  BY <1>2, Delivery
<1>4. ASSUME ~dropped'
      PROVE  /\ frame.cmd \in Drives => hub'.drive = frame.value
             /\ frame.cmd \notin Drives => hub'.drive \in {hub.drive, Off}
  BY <1>2, <1>3, <1>4, Execution
<1>5. NoDriveSent => NoDriveSent' /\ frame.cmd \notin Drives
  BY <1>3 DEF NoDriveSent
<1>6. ASSUME ~dropped', NEW i \in Sent, LastDrive(i)
      PROVE  \/ NoDriveSent' /\ hub'.drive = toHub[i].value
             \/ \E j \in Sent' : LastDrive(j)' /\ toHub'[j] = toHub[i]
  <2>1. CASE i = 1
    <3>1. \A j \in Sent' : j + 1 > 1 /\ j + 1 \in Sent /\ toHub'[j] = toHub[j + 1]
      BY <1>3
    <3>2. NoDriveSent'
      BY <1>6, <2>1, <3>1 DEF NoDriveSent, LastDrive
    <3> QED BY <1>3, <1>4, <1>6, <2>1, <3>2 DEF LastDrive
  <2>2. CASE i # 1
    <3>1. i \in Nat
      BY DEF Sent
    <3>2. \A j \in Sent' : j > i - 1 => j + 1 > i
      BY <1>3, <3>1
    <3>3. PICK k \in Sent' : k = i - 1 /\ toHub[i] = toHub'[k]
      BY <1>3, <2>2
    <3>4. LastDrive(k)'
      BY <1>3, <1>6, <3>2, <3>3 DEF LastDrive
    <3> QED BY <3>3, <3>4
  <2> QED BY <2>1, <2>2
<1>7. ~raced' => \A v, w \in User : pc'[v] = "drive" /\ pc'[w] = "drive" => v = w
  BY <1>1 DEF Sending, Applied
<1>8. ASSUME ~raced, ~dropped', pdev.cmd = "MOT_POW"
      PROVE  \/ \E v \in User : pc'[v] = "drive" /\ op'[v].value = pdev.power
             \/ /\ \A v \in User : pc'[v] # "drive"
                /\ \/ \E i \in Sent' : LastDrive(i)' /\ toHub'[i].value = pdev.power
                   \/ NoDriveSent' /\ hub'.drive \in {pdev.power, Off}
  <2>1. CASE \E v \in User : pc[v] = "drive" /\ op[v].value = pdev.power
    BY <1>1, <2>1 DEF Sending
  <2>2. ASSUME \A v \in User : pc[v] # "drive",
               NEW i \in Sent, LastDrive(i), toHub[i].value = pdev.power
        PROVE  /\ \A v \in User : pc'[v] # "drive"
               /\ \/ \E j \in Sent' : LastDrive(j)' /\ toHub'[j].value = pdev.power
                  \/ NoDriveSent' /\ hub'.drive \in {pdev.power, Off}
    BY <1>1, <1>6, <1>8, <2>2 DEF Sending
  <2>3. ASSUME \A v \in User : pc[v] # "drive", NoDriveSent, hub.drive \in {pdev.power, Off}
        PROVE  /\ \A v \in User : pc'[v] # "drive"
               /\ NoDriveSent' /\ hub'.drive \in {pdev.power, Off}
    BY <1>1, <1>4, <1>5, <1>8, <2>3 DEF Sending
  <2> QED BY <1>2, <1>8, <2>1, <2>2, <2>3 DEF Applied
<1> QED BY <1>1, <1>7, <1>8 DEF Applied

\* Every step keeps the last power where it can be found.
LEMMA AppliedKept ==
  ASSUME MotorAssumption, Shapes, Numbers, Applied, [Next]_vars
  PROVE  Applied'
<1>1. CASE \/ \E u \in User : \/ AttemptFails(u) /\ toHub' = toHub
                              \/ EndRequest(u) \/ ZeroCount(u)
                              \/ \E cmd \in Requests, value \in Int : Ask(u, cmd, value)
           \/ ReceiveAck \/ ReceiveReport \/ LoseReport \/ HubReport \/ UNCHANGED vars
  <2>1. Sending /\ UNCHANGED <<pdev, raced>>
    BY <1>1, RequestsLeaveSending
  <2>2. UNCHANGED <<toHub, hub, dropped>>
    BY <1>1 DEF AttemptFails, EndRequest, ZeroCount, Ask, ReceiveAck, ReceiveReport,
                LoseReport, HubReport, past, vars
  <2>3. Sent' = Sent /\ NoDriveSent' = NoDriveSent /\ \A i \in Sent : LastDrive(i)' = LastDrive(i)
    BY <2>2 DEF Sent, NoDriveSent, LastDrive
  <2> QED BY <2>1, <2>2, <2>3 DEF Applied, Sending
<1> QED BY <1>1, Steps, NotingKeepsApplied, SendDriveKeepsApplied, DriveFailsKeepsApplied,
           AttemptKeepsApplied, HubKeepsApplied

-----------------------------------------------------------------------------
(* The theorems. *)

\* The inductive invariant holds in the first state.
LEMMA Initially == ASSUME MotorAssumption, Init PROVE Inductive
<1>1. toHub = <<>> /\ pdev.cmd = "none" /\ ~halted /\ \A u \in User : pc[u] = "idle"
  BY DEF Init
<1>2. Stopped /\ Applied
  BY <1>1 DEF Stopped, Stops, Applied
<1> QED BY <1>2, ShapesAtFirst, CountedAtFirst DEF Inductive

\* Every behaviour keeps the inductive invariant.
THEOREM Invariance == Spec => []Inductive
<1>1. Init => Inductive
  BY Initially, MotorAssumption
<1>2. Inductive /\ [Next]_vars => Inductive'
  BY ShapesKept, CountedKept, StoppedKept, AppliedKept, MotorAssumption DEF Inductive
<1> QED BY <1>1, <1>2, PTL DEF Spec

\* Powers, counts, threads, mutex and queues keep their types (pup_motor_* and the
\* receiver of raspike_motor.c).
THEOREM TypeCorrect == Spec => []TypeOK
<1>1. Inductive => TypeOK
  BY DEF Inductive, Shapes
<1> QED BY <1>1, Invariance, PTL

\* pup_motor_get_count returns no count from before a pup_motor_reset_count that the hub
\* has answered by 1, however many threads reset it and whatever is lost or repeated.
THEOREM NoCountOfBefore == Spec => []CountOfThisReset
<1>1. Inductive => CountOfThisReset
  BY DEF Inductive, Counted, CountOfThisReset, GetCount
<1> QED BY <1>1, Invariance, PTL

\* A stop that pup_motor_stop, _brake or _hold reported done, with no drive command
\* sent since its first attempt, holds until somebody sends one.
THEOREM StopIsKept == Spec => []StopHolds
<1>1. Inductive => StopHolds
  BY DEF Inductive, Stopped, StopHolds, Still
<1> QED BY <1>1, Invariance, PTL

\* pup_motor_get_power returns the power that the hub applies (or it was stopped),
\* once nothing is under way, unless drive commands raced or were lost.
THEOREM PowerReadIsApplied == Spec => []PowerIsApplied
<1>1. Inductive => PowerIsApplied
  <2> SUFFICES ASSUME Inductive, toHub = <<>>, \A u \in User : pc[u] = "idle",
                      pdev.cmd = "MOT_POW", ~raced, ~dropped
               PROVE  hub.drive \in {pdev.power, Off}
    BY DEF PowerIsApplied, Quiet, GetPower
  <2>1. Sent = {}
    BY DEF Sent
  <2> QED BY <2>1 DEF Inductive, Applied
<1> QED BY <1>1, Invariance, PTL
=============================================================================

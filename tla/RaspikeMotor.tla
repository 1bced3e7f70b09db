----------------------------- MODULE RaspikeMotor -----------------------------
(***************************************************************************)
(* One motor behind pup_motor_* (raspike_motor.c): what the host remembers *)
(* of it (the power last commanded, in the device entry; count and power   *)
(* last reported, in the status block), what the hub does with it, and the *)
(* two FIFO directions of the link between them; frames in flight include  *)
(* those that wait in the send buffer (RaspikeCom: InOrder).  Commands of  *)
(* a power or a speed are sent and forgotten; all others are acknowledged  *)
(* requests of two attempts, one at a time (see RaspikeRequest, of which   *)
(* this module keeps the frames and the mailbox).  The hub is not part of  *)
(* the repository: it executes a frame that arrives, also a repeated one,  *)
(* and answers 0 or 1, or it refuses it with another answer.               *)
(*                                                                         *)
(* A count is abstracted to how often the hub had reset it when it was     *)
(* measured; Zeroed is the 0 the host itself writes.                       *)
(***************************************************************************)
EXTENDS Integers, Sequences

CONSTANTS
  User,          \* application threads
  Nobody,        \* "no thread"
  Power,         \* arguments of pup_motor_set_power
  Limit,         \* duty limits of the hub
  MaxCalls,      \* bound: calls in a behaviour
  MaxReports,    \* bound: status and telemetry frames in a behaviour
  MaxLosses,     \* bound: frames lost, and sends that fail
  LinkCapacity   \* bound: frames in flight in either direction

\* Results: one error stands for all of them, ETIMEDOUT.
ETIMEDOUT == 110
Refused   == 2

Zeroed == -1
Off    == 0       \* stopped, coasting or held
Speed  == 1000    \* the hub regulates the speed
Clamp(power) == IF power < -100 THEN -100 ELSE IF power > 100 THEN 100 ELSE power

ASSUME MotorAssumption ==
  /\ Nobody \notin User
  /\ Power \subseteq Int \ {Off} /\ Limit \subseteq Nat
  /\ {MaxCalls, MaxReports, MaxLosses, LinkCapacity} \subseteq Nat

VARIABLES
  pdev,          \* the device entry: cmd and power
  status,        \* the status block: count and power of the motor
  request_mutex, \* who has a request under way
  pc, op,        \* where each user is, and its call
  saved,         \* what each user's last pup_motor_set_duty_limit returned
  toHub, toHost, \* frames in flight
  hub,           \* external: resets of the count, drive, duty limit
  promised,      \* history: how often the hub must have reset the count, by the calls of
                 \*          pup_motor_reset_count that were answered by 1
  halted,        \* history: a stop was reported done, and no drive was sent since
  raced,         \* history: two users gave the last drive commands together
  dropped,       \* history: a drive command was not sent, or lost
  calls, reports, losses   \* bounds: so far

host    == <<pdev, request_mutex, pc, op, saved>>
past    == <<promised, halted, raced, dropped>>
bounds  == <<calls, reports, losses>>
vars    == <<host, status, toHub, toHost, hub, past, bounds>>

Drives   == {"MOT_POW", "MOT_SPD"}
Requests == {"MOT_STU", "MOT_RST", "MOT_STP", "MOT_SET_DTY", "MOT_RST_DTY"}

\* answer is 0 while none was received; resets and alone are history: how often the count
\* has been reset when this call has reset it, and that no drive command was sent since
\* the first frame of the call.
NewOp(cmd, value) ==
  [cmd |-> cmd, value |-> value, id |-> calls, tries |-> 0, answer |-> 0, waiting |-> TRUE,
   resets |-> IF cmd = "MOT_RST" THEN hub.resets + 1 ELSE 0, alone |-> TRUE]

Init ==
  /\ pdev = [cmd |-> "none", power |-> 0]
  /\ status = [count |-> 0, power |-> Off]
  /\ request_mutex = Nobody
  /\ pc = [u \in User |-> "idle"]
  /\ op = [u \in User |-> [cmd |-> "none", value |-> 0, id |-> 0, tries |-> 0,
                           answer |-> 0, resets |-> 0, waiting |-> FALSE, alone |-> FALSE]]
  /\ \E l \in Limit : /\ saved = [u \in User |-> l]
                      /\ hub = [resets |-> 0, drive |-> Off, limit |-> l]
  /\ toHub = <<>> /\ toHost = <<>>
  /\ promised = {} /\ halted = FALSE /\ raced = FALSE /\ dropped = FALSE
  /\ calls = 0 /\ reports = 0 /\ losses = 0

Goto(u, label) == pc' = [pc EXCEPT ![u] = label]
Frame(u) == [cmd |-> op[u].cmd, value |-> op[u].value, id |-> op[u].id]

Start(u) == pc[u] = "idle" /\ calls < MaxCalls /\ calls' = calls + 1

-----------------------------------------------------------------------------
(* Commands that are sent and forgotten: the entry is written first, without *)
(* a lock, and the frame follows.                                           *)

\* Mutant: the power is remembered before it is clamped.
SetPowerUnclamped(u, power) ==
  /\ Start(u) /\ Goto(u, "drive")
  /\ pdev' = [cmd |-> "MOT_POW", power |-> power]
  /\ op' = [op EXCEPT ![u] = NewOp("MOT_POW", Clamp(power))]
  /\ raced' = (\E v \in User : pc[v] = "drive") /\ dropped' = FALSE
  /\ UNCHANGED <<status, request_mutex, saved, toHub, toHost, hub, promised, halted,
                 reports, losses>>

SetPower(u, power) ==
  /\ Start(u) /\ Goto(u, "drive")
  /\ pdev' = [cmd |-> "MOT_POW", power |-> Clamp(power)]
  /\ op' = [op EXCEPT ![u] = NewOp("MOT_POW", Clamp(power))]
  /\ raced' = (\E v \in User : pc[v] = "drive") /\ dropped' = FALSE
  /\ UNCHANGED <<status, request_mutex, saved, toHub, toHost, hub, promised, halted,
                 reports, losses>>

\* Mutant: the entry still says that a power was commanded.
SetSpeedUnnoted(u) ==
  /\ Start(u) /\ Goto(u, "drive")
  /\ op' = [op EXCEPT ![u] = NewOp("MOT_SPD", Speed)]
  /\ raced' = (\E v \in User : pc[v] = "drive") /\ dropped' = FALSE
  /\ UNCHANGED <<pdev, status, request_mutex, saved, toHub, toHost, hub, promised, halted,
                 reports, losses>>

SetSpeed(u) ==
  /\ Start(u) /\ Goto(u, "drive")
  /\ pdev' = [pdev EXCEPT !.cmd = "MOT_SPD"]
  /\ op' = [op EXCEPT ![u] = NewOp("MOT_SPD", Speed)]
  /\ raced' = (\E v \in User : pc[v] = "drive") /\ dropped' = FALSE
  /\ UNCHANGED <<status, request_mutex, saved, toHub, toHost, hub, promised, halted,
                 reports, losses>>

\* raspike_prot_send; on an error the entry stays as it was written. (If the frame goes
\* out in spite of it, as in AttemptFails, that is SendDrive.)
SendDrive(u) ==
  /\ pc[u] = "drive" /\ Len(toHub) < LinkCapacity
  /\ toHub' = Append(toHub, Frame(u))
  /\ halted' = FALSE /\ op' = [v \in User |-> [op[v] EXCEPT !.alone = FALSE]]
  /\ Goto(u, "idle")
  /\ UNCHANGED <<pdev, status, request_mutex, saved, toHost, hub, promised, raced,
                 dropped, bounds>>

DriveFails(u) ==
  /\ pc[u] = "drive" /\ losses < MaxLosses
  /\ losses' = losses + 1 /\ dropped' = TRUE
  /\ Goto(u, "idle")
  /\ UNCHANGED <<pdev, status, request_mutex, op, saved, toHub, toHost, hub, promised,
                 halted, raced, calls, reports>>

-----------------------------------------------------------------------------
(* Requests. *)

\* pup_motor_setup, _reset_count, _stop, _brake, _hold, _set_duty_limit and
\* _restore_duty_limit differ in the command, its payload, and what they do with
\* the answer.
Ask(u, cmd, value) ==
  /\ Start(u) /\ request_mutex = Nobody
  /\ request_mutex' = u
  /\ op' = [op EXCEPT ![u] = NewOp(cmd, value)]
  /\ Goto(u, "ask")
  /\ UNCHANGED <<pdev, status, saved, toHub, toHost, hub, past, reports, losses>>

Setup(u)            == \E reset_count \in {0, 1} : Ask(u, "MOT_STU", reset_count)
ResetCount(u)       == Ask(u, "MOT_RST", 0)
Stop(u)             == Ask(u, "MOT_STP", 0)
SetDutyLimit(u)     == \E limit \in Limit : Ask(u, "MOT_SET_DTY", limit)
RestoreDutyLimit(u) == op[u].cmd = "MOT_SET_DTY" /\ Ask(u, "MOT_RST_DTY", saved[u])

\* An attempt, unless an answer came before it; the second only after the deadline.
Attempt(u) ==
  /\ pc[u] = "ask" /\ op[u].waiting /\ op[u].tries < 2 /\ Len(toHub) < LinkCapacity
  /\ toHub' = Append(toHub, Frame(u))
  /\ op' = [op EXCEPT ![u].tries = @ + 1]
  /\ UNCHANGED <<pdev, status, request_mutex, pc, saved, toHost, hub, past, bounds>>

\* The request is over, with this result.
Returns(u, result) ==
  /\ request_mutex' = Nobody
  /\ saved' = IF op[u].cmd = "MOT_SET_DTY" THEN [saved EXCEPT ![u] = result] ELSE saved

\* A send that fails ends the request with an error. Its frame is gone, or it was written
\* before the flush of others failed, or stays in the send buffer and goes out later.
AttemptFails(u) ==
  /\ pc[u] = "ask" /\ op[u].waiting /\ op[u].tries < 2 /\ losses < MaxLosses
  /\ losses' = losses + 1
  /\ \/ toHub' = toHub
     \/ Len(toHub) < LinkCapacity /\ toHub' = Append(toHub, Frame(u))
  /\ Returns(u, -ETIMEDOUT)
  /\ Goto(u, "idle")
  /\ UNCHANGED <<pdev, status, op, toHost, hub, past, calls, reports>>

\* The answer, or an error at the second deadline.
Result(u) == IF op[u].waiting THEN -ETIMEDOUT ELSE op[u].answer

\* request_result_to_pbio
Succeeded(u) == Result(u) \in {0, 1}

EndRequest(u) ==
  /\ pc[u] = "ask"
  /\ op[u].waiting => op[u].tries = 2
  /\ Returns(u, Result(u))
  /\ Goto(u, IF op[u].cmd = "MOT_RST" /\ Result(u) = 1 THEN "zero" ELSE "idle")
  /\ halted' = (halted \/ (op[u].cmd = "MOT_STP" /\ Succeeded(u) /\ op[u].alone))
  /\ UNCHANGED <<pdev, status, op, toHub, toHost, hub, promised, raced, dropped, bounds>>

\* pup_motor_reset_count returns on an answer of 1.
Promise(u) == promised' = promised \cup {op[u].resets}

\* Mutant: the count is left to the next status frame.
ZeroCountNot(u) ==
  /\ pc[u] = "zero" /\ Goto(u, "idle")
  /\ Promise(u)
  /\ UNCHANGED <<pdev, status, request_mutex, op, saved, toHub, toHost, hub, halted,
                 raced, dropped, bounds>>

\* pup_motor_reset_count, when the hub has answered 1: the count reported before is
\* overwritten, so that nobody reads it again.
ZeroCount(u) ==
  /\ pc[u] = "zero" /\ Goto(u, "idle")
  /\ status' = [status EXCEPT !.count = Zeroed]
  /\ Promise(u)
  /\ UNCHANGED <<pdev, request_mutex, op, saved, toHub, toHost, hub, halted, raced,
                 dropped, bounds>>

\* pup_motor_get_power; pup_motor_get_count, _get_speed and _is_stalled read what
\* the hub reported last.
GetPower == IF pdev.cmd = "MOT_POW" THEN pdev.power ELSE status.power
GetCount == status.count

-----------------------------------------------------------------------------
(* The receiver. *)

\* Mutant: any acknowledgement of the port settles the request.
OfAnyRequest(u, frame) == pc[u] = "ask" /\ op[u].waiting

\* The acknowledgement is for the request that waits.
OfRequest(u, frame) == pc[u] = "ask" /\ op[u].waiting /\ frame.id = op[u].id

ReceiveAck ==
  /\ toHost # <<>> /\ Head(toHost).type = "ack"
  /\ LET frame == Head(toHost) IN
       op' = [u \in User |-> IF OfRequest(u, frame)
                             THEN [op[u] EXCEPT !.answer = frame.data, !.waiting = FALSE]
                             ELSE op[u]]
  /\ toHost' = Tail(toHost)
  /\ UNCHANGED <<pdev, status, request_mutex, pc, saved, toHub, hub, past, bounds>>

\* ALL_STATUS replaces what is known of the motor; DRIVE_TELEMETRY too, if one of its
\* slots is valid and names the motor's port.
ReceiveReport ==
  /\ toHost # <<>> /\ Head(toHost).type = "report"
  /\ status' = IF Head(toHost).valid
               THEN [count |-> Head(toHost).count, power |-> Head(toHost).power]
               ELSE status
  /\ toHost' = Tail(toHost)
  /\ UNCHANGED <<host, toHub, hub, past, bounds>>

-----------------------------------------------------------------------------
(* The hub and the link. *)

Executed(frame) ==
  CASE frame.cmd \in Drives -> [hub EXCEPT !.drive = frame.value]
    [] frame.cmd = "MOT_STP" -> [hub EXCEPT !.drive = Off]
    [] frame.cmd = "MOT_RST" -> [hub EXCEPT !.resets = @ + 1]
    [] frame.cmd = "MOT_STU" -> [hub EXCEPT !.resets = @ + frame.value]
    [] OTHER -> [hub EXCEPT !.limit = frame.value]

Acknowledge(answer) ==
  toHost' = Append(toHost, [type |-> "ack", id |-> Head(toHub).id, data |-> answer])

HubExecute ==
  /\ toHub # <<>> /\ Len(toHost) < LinkCapacity
  /\ hub' = Executed(Head(toHub))
  /\ IF Head(toHub).cmd \in Drives THEN UNCHANGED toHost
     ELSE IF Head(toHub).cmd = "MOT_SET_DTY" THEN Acknowledge(hub.limit)
     ELSE \E done \in {0, 1} : Acknowledge(done)
  /\ toHub' = Tail(toHub)
  /\ UNCHANGED <<host, status, past, bounds>>

HubRefuse ==
  /\ toHub # <<>> /\ Len(toHost) < LinkCapacity /\ Head(toHub).cmd \in Requests
  /\ UNCHANGED hub
  /\ Acknowledge(Refused)
  /\ toHub' = Tail(toHub)
  /\ UNCHANGED <<host, status, past, bounds>>

HubReport ==
  /\ reports < MaxReports /\ Len(toHost) < LinkCapacity
  /\ reports' = reports + 1
  /\ \E valid \in BOOLEAN :
       toHost' = Append(toHost, [type |-> "report", valid |-> valid,
         count |-> hub.resets, power |-> IF hub.drive = Speed THEN Off ELSE hub.drive])
  /\ UNCHANGED <<host, status, toHub, hub, past, calls, losses>>

LoseCommand ==
  /\ toHub # <<>> /\ losses < MaxLosses
  /\ losses' = losses + 1
  /\ dropped' = (dropped \/ Head(toHub).cmd \in Drives)
  /\ toHub' = Tail(toHub)
  /\ UNCHANGED <<host, status, toHost, hub, promised, halted, raced, calls,
                 reports>>

LoseReport ==
  /\ toHost # <<>> /\ losses < MaxLosses
  /\ losses' = losses + 1
  /\ toHost' = Tail(toHost)
  /\ UNCHANGED <<host, status, toHub, hub, past, calls, reports>>

Next ==
  \/ \E u \in User :
       \/ \E power \in Power : SetPower(u, power)
       \/ SetSpeed(u) \/ SendDrive(u) \/ DriveFails(u)
       \/ Setup(u) \/ ResetCount(u) \/ Stop(u) \/ SetDutyLimit(u) \/ RestoreDutyLimit(u)
       \/ Attempt(u) \/ AttemptFails(u) \/ EndRequest(u) \/ ZeroCount(u)
  \/ ReceiveAck \/ ReceiveReport
  \/ HubExecute \/ HubRefuse \/ HubReport \/ LoseCommand \/ LoseReport

Spec == Init /\ [][Next]_vars

-----------------------------------------------------------------------------
(* What must hold. *)

\* Every variable keeps its type.
TypeOK ==
  /\ pdev \in [cmd : Drives \cup {"none"}, power : -100..100]
  /\ status \in [count : Nat \cup {Zeroed}, power : -100..100]
  /\ request_mutex \in User \cup {Nobody}
  /\ pc \in [User -> {"idle", "drive", "ask", "zero"}]
  /\ hub \in [resets : Nat, drive : (-100..100) \cup {Speed}, limit : Int]
  /\ Len(toHub) <= LinkCapacity /\ Len(toHost) <= LinkCapacity
  /\ {halted, raced, dropped} \subseteq BOOLEAN

\* Once pup_motor_reset_count has returned on an answer of 1, pup_motor_get_count returns no
\* count from before the call: the answer is to this reset, what the status block held is
\* zeroed after it, and what the hub reported before the reset is received before it. An
\* answer of 0 is reported as success as well, but zeroes nothing: after it the count of
\* before may be read until the next report.
CountOfThisReset == \A n \in promised : GetCount = Zeroed \/ GetCount >= n

\* A stop that was reported done stays done until somebody commands a new power or
\* speed: no command sent before it is executed after it, and it is not the late
\* acknowledgement of an earlier stop that is taken for its own.
StopHolds == halted => hub.drive = Off

Quiet == toHub = <<>> /\ \A u \in User : pc[u] = "idle"

\* What pup_motor_get_power returns from the device entry is the power the hub
\* applies, if it was not stopped since: for commands that were not lost, and that
\* two threads did not give at the same time (the entry is written and the frame is
\* sent without a common lock, so theirs may end up in different orders).
PowerIsApplied ==
  Quiet /\ pdev.cmd = "MOT_POW" /\ ~raced /\ ~dropped => hub.drive \in {GetPower, Off}

\* What pup_motor_restore_duty_limit sends back is a limit that the hub had: "call
\* pup_motor_restore_duty_limit with the value returned as its argument".
RestoresALimit ==
  \A i \in 1..Len(toHub) : toHub[i].cmd = "MOT_RST_DTY" => toHub[i].value \in Limit
=============================================================================

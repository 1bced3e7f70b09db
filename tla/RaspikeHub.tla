------------------------------- MODULE RaspikeHub -------------------------------
(***************************************************************************)
(* The calls that go to the hub itself and to sensors without a protocol   *)
(* of their own (raspike_hub.c, raspike_forcesensor.c,                     *)
(* raspike_ultrasonicsensor.c, the lights of raspike_color.c, the drive    *)
(* and runtime calls of raspike_protocol.c), made by several threads:      *)
(* commands that are sent and forgotten, the speaker, and reads of the two *)
(* blocks the receiver fills, the status and the runtime telemetry.        *)
(*                                                                         *)
(* A block is two halves, read and written one after the other under the   *)
(* mutex of the block; a half holds the number of the frame it came from,  *)
(* 0 after a memset.  Frames on their way to the hub include those that    *)
(* wait in the send buffer (RaspikeCom: InOrder).                          *)
(***************************************************************************)
EXTENDS Integers, Sequences, FiniteSets

CONSTANTS
  User,         \* application threads
  Receiver,     \* the receiver thread
  Nobody,       \* "no thread"
  Command,      \* the commands that the users give, by name
  TextLength,   \* lengths of texts that are displayed
  Volume,       \* arguments of hub_speaker_set_volume
  Duration,     \* arguments of hub_speaker_play_tone, besides SOUND_MANUAL_STOP
  MaxCalls,     \* bound: calls in a behaviour
  MaxFrames,    \* bound: frames received
  MaxLinks,     \* bound: successful inits
  MaxFailures,  \* bound: sends that fail, and frames lost on an open link
  LinkCapacity  \* bound: frames on their way to the hub

MAX_PAYLOAD == 240   \* RP_V2_MAX_PAYLOAD
SOUND_MANUAL_STOP == -1
Block == {"status", "telemetry"}

-----------------------------------------------------------------------------
(* Layouts. *)

\* Values that a port reports: offset and size in its data (RASPIKE_PORT_DATA_SIZE).
ForceData      == {<<0, 4>>, <<4, 4>>, <<8, 1>>}
MotorData      == {<<0, 4>>, <<4, 4>>, <<8, 2>>, <<10, 1>>}
UltrasonicData == {<<0, 4>>, <<4, 1>>}

\* They fit, and do not overlap.
ASSUME PortDataFits == \A data \in {ForceData, MotorData, UltrasonicData} :
  /\ \A v \in data : v[1] + v[2] <= 12
  /\ \A v, w \in data : v # w => v[1] + v[2] <= w[1] \/ w[1] + w[2] <= v[1]

\* Commands that are sent and forgotten, and the sizes of their payloads.
DisplayCommands == {<<"HUB_DISP_ORI", 1>>, <<"HUB_DISP_OFF", 0>>, <<"HUB_DISP_PIX", 3>>,
                    <<"HUB_DISP_IMG", 25>>, <<"HUB_DISP_NUM", 1>>, <<"HUB_DISP_CHR", 1>>}
ImuCommands     == {<<"HUB_IMU_SET_TLT", 4>>, <<"HUB_IMU_RST_HDG", 0>>}
LightCommands   == {<<"HUB_LGT_ON_HSV", 4>>, <<"HUB_LGT_ON_COL", 4>>, <<"HUB_LGT_OFF", 0>>}
ColorCommands   == {<<"COL_LIGHT_ON", 0>>, <<"COL_LIGHT_OFF", 0>>}
UltrasonicCommands == {<<"US_LGT_SET", 16>>, <<"US_LGT_ON", 0>>, <<"US_LGT_OFF", 0>>}
DriveCommands   == {<<"DRIVE_COMMAND", 36>>}
Commands == DisplayCommands \cup ImuCommands \cup LightCommands \cup ColorCommands
            \cup UltrasonicCommands \cup DriveCommands

ASSUME HubAssumption ==
  /\ Nobody \notin User \cup {Receiver} /\ Receiver \notin User
  /\ TextLength \cup Volume \cup Duration \subseteq Nat
  /\ {MaxCalls, MaxFrames, MaxFailures, LinkCapacity} \subseteq Nat
  /\ MaxLinks \in Nat \ {0}   \* the first init is over at the beginning

\* Where a text begins in its payload.
PREFIX == [HUB_DISP_TXT |-> 8, HUB_DISP_TXT_SCR |-> 4]

VARIABLES
  open,       \* raspike_prot_send has a link
  fgStatus,   \* the status block allocated last, or 0
  data,       \* contents of the two blocks
  lock,       \* the mutex of each block
  filling,    \* what the receiver is copying, and where
  pc, call,   \* where each user is, and its call
  seen,       \* what a user has copied of a block
  held,       \* history: what the block held, between two writes, during a user's call
  exposed,    \* history: users whose block was freed or cleared under their hands
  toHub, hub, \* external: frames on their way; tone played (0: none) and volume of the hub
  endless,    \* history: tones that were to have no end
  unstopped,  \* history: tones that got no stop: their call failed, or the stop, or it was lost
  calls, frames, links, failures   \* bounds: so far

memory  == <<fgStatus, data, lock>>
bounds  == <<calls, frames, links, failures>>
copies  == <<seen, held, exposed>>
wire    == <<toHub, hub, endless, unstopped>>
vars    == <<open, memory, filling, pc, call, copies, wire, bounds>>

\* A call, and the frame it sends; a tone and its stop have the number of the call.
Call(cmd, size, value) ==
  [cmd |-> cmd, size |-> size, value |-> value,
   tone |-> IF cmd = "HUB_SPK_PLY_TON" THEN calls + 1 ELSE 0]
Zeros == [head |-> 0, tail |-> 0]

Init ==
  /\ open = TRUE /\ fgStatus = 1
  /\ data = [b \in Block |-> Zeros] /\ lock = [b \in Block |-> Nobody]
  /\ filling = [block |-> "status", value |-> Zeros]
  /\ pc = [u \in User \cup {Receiver} |-> "idle"]
  /\ call = [u \in User |-> [cmd |-> "none", size |-> 0, value |-> 0, tone |-> 0]]
  /\ seen = [u \in User |-> Zeros] /\ held = [u \in User |-> {}] /\ exposed = {}
  /\ toHub = <<>> /\ hub = [tone |-> 0, volume |-> 0] /\ endless = {} /\ unstopped = {}
  /\ calls = 0 /\ frames = 0 /\ links = 1 /\ failures = 0

Goto(u, label) == pc' = [pc EXCEPT ![u] = label]

\* A call begins: the user will send cmd, of this size.
Start(u, cmd, size, value) ==
  /\ pc[u] = "idle" /\ calls < MaxCalls /\ calls' = calls + 1
  /\ call' = [call EXCEPT ![u] = Call(cmd, size, value)]
  /\ Goto(u, "send")
  /\ UNCHANGED <<open, memory, filling, copies, wire, frames, links, failures>>

-----------------------------------------------------------------------------
(* Commands. *)

Give(u) == \E c \in Commands : c[1] \in Command /\ Start(u, c[1], c[2], 0)

\* hub_display_text and hub_display_text_scroll send nothing if the text is too long.
Fits(cmd, length) == length <= MAX_PAYLOAD - PREFIX[cmd] - 1

DisplayText(u) == \E cmd \in DOMAIN PREFIX, length \in TextLength :
  Fits(cmd, length) /\ Start(u, cmd, PREFIX[cmd] + length + 1, length)

\* Mutant: no upper bound.
SetVolumeUnbounded(u) == \E volume \in Volume : Start(u, "HUB_SPK_SET_VOL", 1, volume)

SetVolume(u) == \E volume \in Volume :
  Start(u, "HUB_SPK_SET_VOL", 1, IF volume > 100 THEN 100 ELSE volume)

\* The tone itself is always commanded without an end.
PlayTone(u) == \E duration \in Duration \cup {SOUND_MANUAL_STOP} :
  Start(u, "HUB_SPK_PLY_TON", 6, duration)
StopTone(u) == Start(u, "HUB_SPK_STP", 0, 0)

\* hub_system_shutdown
ShutDown(u) == Start(u, "SHT_DWN", 0, 0)

\* Mutant: a tone of no duration is taken for one without an end.
PlaysUntil(u) == IF call[u].value > 0 THEN "play" ELSE "idle"

\* After the tone was sent: hub_speaker_play_tone sleeps, if it has to end the tone.
PlaysOn(u) == IF call[u].value >= 0 THEN "play" ELSE "idle"

\* What a call does next; a tone that was not sent is not ended.
After(u, success) ==
  CASE call[u].cmd = "HUB_SPK_PLY_TON" /\ success -> PlaysOn(u)
    [] call[u].cmd = "SHT_DWN" -> "close"
    [] OTHER -> "idle"

\* send_hub_command and raspike_prot_send_priority
Send(u) ==
  /\ pc[u] = "send" /\ open /\ call[u].size <= MAX_PAYLOAD /\ Len(toHub) < LinkCapacity
  /\ toHub' = Append(toHub, call[u])
  /\ endless' = IF call[u].cmd = "HUB_SPK_PLY_TON" /\ call[u].value = SOUND_MANUAL_STOP
                THEN endless \cup {call[u].tone} ELSE endless
  /\ Goto(u, After(u, TRUE))
  /\ UNCHANGED <<open, memory, filling, call, copies, hub, unstopped, bounds>>

\* The payload is too large or the link is closed, and nothing is sent; or the send fails.
\* Then the frame is gone, or it was written before the flush of others failed, or stays
\* in the send buffer and goes out later.
SendFails(u) ==
  /\ pc[u] = "send"
  /\ \/ /\ ~open \/ call[u].size > MAX_PAYLOAD
        /\ UNCHANGED <<toHub, failures>>
     \/ /\ open /\ failures < MaxFailures /\ failures' = failures + 1
        /\ \/ toHub' = toHub
           \/ Len(toHub) < LinkCapacity /\ toHub' = Append(toHub, call[u])
  /\ unstopped' = unstopped \cup {call[u].tone}
  /\ Goto(u, After(u, FALSE))
  /\ UNCHANGED <<open, memory, filling, call, copies, hub, endless, calls, frames, links>>

\* The sleep is over; hub_speaker_stop.
EndTone(u) ==
  /\ pc[u] = "play"
  /\ call' = [call EXCEPT ![u] = [cmd |-> "HUB_SPK_STP", size |-> 0, value |-> 0,
                                  tone |-> call[u].tone]]
  /\ Goto(u, "send")
  /\ UNCHANGED <<open, memory, filling, copies, wire, bounds>>

HubExecute ==
  /\ toHub # <<>> /\ toHub' = Tail(toHub)
  /\ hub' = CASE Head(toHub).cmd = "HUB_SPK_PLY_TON" -> [hub EXCEPT !.tone =
                                                           Head(toHub).tone]
              [] Head(toHub).cmd = "HUB_SPK_STP"     -> [hub EXCEPT !.tone = 0]
              [] Head(toHub).cmd = "HUB_SPK_SET_VOL" -> [hub EXCEPT !.volume =
                                                           Head(toHub).value]
              [] OTHER -> hub
  /\ UNCHANGED <<open, memory, filling, pc, call, copies, endless, unstopped, bounds>>

\* A closed link may lose all that is on its way.
LoseFrame ==
  /\ toHub # <<>> /\ toHub' = Tail(toHub)
  /\ IF open THEN failures < MaxFailures /\ failures' = failures + 1
     ELSE UNCHANGED failures
  /\ unstopped' = IF Head(toHub).cmd = "HUB_SPK_STP"
                  THEN unstopped \cup {Head(toHub).tone} ELSE unstopped
  /\ UNCHANGED <<open, memory, filling, pc, call, copies, hub, endless, calls, frames, links>>

-----------------------------------------------------------------------------
(* Reading a block: raspike_prot_get_saved_status and the copy under the     *)
(* mutex (read_status_snapshot, GET_AND_RET_SENSOR_COMMON), or              *)
(* raspike_runtime_get_telemetry.                                           *)

Filling(b)  == pc[Receiver] = "fill" /\ filling.block = b
Content(b)  == IF Filling(b) THEN {} ELSE {data[b]}
Copying(b)  == {u \in User : pc[u] \in {"copy", "copying"} /\ call[u].cmd = b}

\* History: a write is over, and the block holds this.
Holds(b, content) ==
  held' = [u \in User |-> IF u \in Copying(b) THEN held[u] \cup {content} ELSE held[u]]

LookUp(u, b) ==
  /\ pc[u] = "idle" /\ calls < MaxCalls /\ calls' = calls + 1
  /\ call' = [call EXCEPT ![u] = Call(b, 0, fgStatus)]
  /\ held' = [held EXCEPT ![u] = Content(b)] /\ exposed' = exposed \ {u}
  /\ Goto(u, "copy")
  /\ UNCHANGED <<open, memory, filling, seen, wire, frames, links, failures>>

\* The status block is looked up without a lock.
ReadStatus(u)    == fgStatus # 0 /\ LookUp(u, "status")
ReadTelemetry(u) == LookUp(u, "telemetry")

\* Without a block, the getters of the status return zeros.
ReadNothing(u) ==
  /\ fgStatus = 0 /\ pc[u] = "idle" /\ calls < MaxCalls /\ calls' = calls + 1
  /\ call' = [call EXCEPT ![u] = Call("status", 0, 0)]
  /\ seen' = [seen EXCEPT ![u] = Zeros] /\ held' = [held EXCEPT ![u] = {Zeros}]
  /\ exposed' = exposed \ {u}
  /\ UNCHANGED <<open, memory, filling, pc, wire, frames, links, failures>>

\* Mutant: the copy does not take the mutex.
FreeForAll(u, b) == UNCHANGED lock

Acquire(u, b) == lock[b] = Nobody /\ lock' = [lock EXCEPT ![b] = u]

\* What is read where a half should be; a block that was freed holds anything.
Found(u, half) ==
  IF call[u].cmd = "status" /\ call[u].value # fgStatus THEN 0..frames ELSE {half}

CopyHead(u) ==
  /\ pc[u] = "copy" /\ Acquire(u, call[u].cmd)
  /\ \E x \in Found(u, data[call[u].cmd].head) :
       seen' = [seen EXCEPT ![u] = [head |-> x, tail |-> 0]]
  /\ Goto(u, "copying")
  /\ UNCHANGED <<open, fgStatus, data, filling, call, held, exposed, wire, bounds>>

CopyTail(u) ==
  /\ pc[u] = "copying"
  /\ \E x \in Found(u, data[call[u].cmd].tail) :
       seen' = [seen EXCEPT ![u] = [head |-> seen[u].head, tail |-> x]]
  /\ lock' = [lock EXCEPT ![call[u].cmd] = Nobody]
  /\ Goto(u, "idle")
  /\ UNCHANGED <<open, fgStatus, data, filling, call, held, exposed, wire, bounds>>

-----------------------------------------------------------------------------
(* Writing a block.  The receiver copies a frame into it (ALL_STATUS,        *)
(* RUNTIME_TELEMETRY), or into parts of the status (DRIVE_TELEMETRY), or    *)
(* clears it when a HELLO announces another session; shutdown waits until   *)
(* it is out.  A user clears a part of the status.                          *)

\* What the block can hold when the frame is in it.
Filled(b, frame) ==
  {Zeros, [head |-> frame, tail |-> frame]}
  \cup IF b = "status" THEN {[data[b] EXCEPT !.head = frame], [data[b] EXCEPT !.tail = frame]}
                        ELSE {}

FillHead(b) ==
  /\ open /\ pc[Receiver] = "idle" /\ lock[b] = Nobody /\ frames < MaxFrames
  /\ frames' = frames + 1
  /\ \E value \in Filled(b, frames + 1) :
       /\ filling' = [block |-> b, value |-> value]
       /\ data' = [data EXCEPT ![b].head = value.head]
  /\ lock' = [lock EXCEPT ![b] = Receiver]
  /\ Goto(Receiver, "fill")
  /\ UNCHANGED <<open, fgStatus, call, copies, wire, calls, links, failures>>

FillTail ==
  /\ pc[Receiver] = "fill"
  /\ data' = [data EXCEPT ![filling.block].tail = filling.value.tail]
  /\ lock' = [lock EXCEPT ![filling.block] = Nobody]
  /\ Holds(filling.block, filling.value)
  /\ Goto(Receiver, "idle")
  /\ UNCHANGED <<open, fgStatus, filling, call, seen, exposed, wire, bounds>>

\* pup_motor_reset_count, answered by 1 (see RaspikeMotor), looks the block up without a
\* lock.
ResetCount(u) ==
  /\ fgStatus # 0 /\ pc[u] = "idle" /\ calls < MaxCalls /\ calls' = calls + 1
  /\ call' = [call EXCEPT ![u] = Call("MOT_RST", 0, fgStatus)]
  /\ Goto(u, "zero")
  /\ UNCHANGED <<open, memory, filling, copies, wire, frames, links, failures>>

\* It clears the count; in a block that was freed, where the next block is or not.
ZeroCount(u) ==
  /\ pc[u] = "zero" /\ lock["status"] = Nobody
  /\ LET cleared == [data["status"] EXCEPT !.head = 0] IN
       \/ /\ data' = [data EXCEPT !["status"] = cleared]
          /\ Holds("status", cleared)
       \/ call[u].value # fgStatus /\ UNCHANGED <<data, held>>
  /\ Goto(u, "idle")
  /\ UNCHANGED <<open, fgStatus, lock, filling, call, seen, exposed, wire, bounds>>

-----------------------------------------------------------------------------
(* The end of a link and the next one (see RaspikeLifecycle). *)

\* raspike_prot_shutdown: sends fail from here on; the block is freed later, under its
\* mutex, but the users that looked it up before still have it.
Close(u) ==
  /\ pc[u] = "close" /\ pc[Receiver] = "idle"
  /\ open' = FALSE
  /\ Goto(u, "free")
  /\ UNCHANGED <<memory, filling, call, copies, wire, bounds>>

FreeStatus(u) ==
  /\ pc[u] = "free" /\ lock["status"] = Nobody
  /\ fgStatus' = 0
  /\ exposed' = exposed \cup Copying("status")
  /\ Goto(u, "idle")
  /\ UNCHANGED <<open, data, lock, filling, call, seen, held, wire, bounds>>

\* raspike_prot_init clears the telemetry without its mutex, and allocates a block.
Reopen ==
  /\ ~open /\ fgStatus = 0 /\ links < MaxLinks
  /\ \A u \in User : pc[u] \notin {"close", "free"}
  /\ open' = TRUE /\ links' = links + 1 /\ fgStatus' = links + 1
  /\ data' = [b \in Block |-> Zeros]
  /\ exposed' = exposed \cup Copying("telemetry")
  /\ UNCHANGED <<lock, filling, pc, call, seen, held, wire, calls, frames, failures>>

Next ==
  \/ \E u \in User :
       \/ Give(u) \/ DisplayText(u) \/ SetVolume(u) \/ PlayTone(u) \/ StopTone(u)
       \/ ShutDown(u) \/ Send(u) \/ SendFails(u) \/ EndTone(u) \/ Close(u) \/ FreeStatus(u)
       \/ ReadStatus(u) \/ ReadTelemetry(u) \/ ReadNothing(u)
       \/ CopyHead(u) \/ CopyTail(u) \/ ResetCount(u) \/ ZeroCount(u)
  \/ HubExecute \/ LoseFrame \/ FillTail \/ Reopen
  \/ \E b \in Block : FillHead(b)

Spec == Init /\ [][Next]_vars

-----------------------------------------------------------------------------
(* What must hold. *)

\* Every variable keeps its type; the volume is in the range of the hub, and what is sent
\* fits a frame, also the longest text with its terminating 0.
TypeOK ==
  /\ open \in BOOLEAN /\ fgStatus \in 0..MaxLinks
  /\ data \in [Block -> [head : 0..MaxFrames, tail : 0..MaxFrames]]
  /\ lock \in [Block -> User \cup {Receiver, Nobody}]
  /\ hub.volume \in 0..100
  /\ \A u \in User : pc[u] = "send" => call[u].size <= MAX_PAYLOAD
  /\ Len(toHub) <= LinkCapacity

\* What a caller gets of a block is what the block held, as a whole, at one moment of the
\* call: never one half from before and one from after a write of the receiver or of
\* another thread. (Unless the block was freed, or cleared by the next raspike_prot_init,
\* while the call was under way.)
Untorn == \A u \in User :
  pc[u] = "idle" /\ call[u].cmd \in Block /\ u \notin exposed => seen[u] \in held[u]

AllQuiet == toHub = <<>> /\ \A u \in User : pc[u] = "idle"

\* The hub falls silent: when no call is under way, it plays only a tone without an end, or
\* one whose own stop never reached it: the call failed and stops nothing, although the
\* tone went out later, or the stop failed (hub_speaker_stop ignores the result, also that
\* of a link closed during the sleep) or was lost. No other thread's tones matter.
FallsSilent == AllQuiet /\ hub.tone # 0 => hub.tone \in endless \cup unstopped
=============================================================================

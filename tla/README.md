# A TLA+ verification of libraspike-art

libraspike-art is the Raspberry Pi side of RasPike-ART: a C library through which an
application drives the motors, sensors and the hub of a LEGO SPIKE over a USB serial
line. A firmware on the hub (not part of this repository) executes its commands. This
directory holds a model of the library's core, what TLC checks of it and what TLAPS
proves of it. File and line references are to the repository (`src/src/...` is
its `src/` directory).

## The system

| Component | State | Operations | Where |
|---|---|---|---|
| Acknowledged requests | `gPortDevices[]` (an ACK mailbox, `request_mutex`, `mutex`, `cond` per port), `fgNextSequence`, `fgSessionId` | `raspike_request`, handlers of ACK and HELLO frames, `reset_port_state` | `raspike_protocol.c` 105-164, 477-586, 653-685 |
| Link lifecycle | `fgDesc`, `fgStatus`, `fgHandshakeComplete`, `fgUseProtocolV2`, `fgStopCommunication`, `fgActiveReceivers`, `fgLifecycleMutex`, `fgSendMutex` | `raspike_prot_init`, `raspike_prot_shutdown`, `raspike_prot_receive` | `raspike_protocol.c` 342-447, 773-815 |
| Device cache | `RPPortDevice.device`, `device_mutex` | `GET_DEVICE_COMMON` in each `pup_*_get_device`, the clearing in `reset_port_state` | `raspike_internal.h` 59-88 |
| Send path | `fg_send_buffer`, `fg_send_mode`, `fg_send_mutex` | `send_frame`, `rp_usb_send`, `raspike_usb_buffer_flush`, `raspike_com_flush`, `raspike_usb_set_mode` | `raspike_com.c` 71-189 |
| Handshake | version, session, capabilities | `perform_handshake`, `receive_legacy_hello` | `raspike_protocol.c` 235-340 |
| Framing | the bytes not read yet | `send_v2_frame`, `send_legacy_frame`, `receive_v2_frame`, `receive_legacy_frame`, CRC | `raspike_protocol.c` 166-211, 696-771 |
| Status | `fgStatus`, `fgStatusMutex`, `fgStatusCond`, `fgRuntimeTelemetry` | status and telemetry frames, `raspike_port_com_change_if_needed`, sensor getters | `raspike_protocol.c` 605-651, 817-848 |
| Motor API | `pdev->cmd`, `pdev->power`; count and power in the status block | setup, count, power, speed, stop, duty limit | `raspike_motor.c` |
| Hub and sensor API, drive and runtime calls | none of their own | commands that are sent and forgotten, the speaker, snapshots of the status block and of the telemetry | `raspike_hub.c`, `raspike_forcesensor.c`, `raspike_ultrasonicsensor.c`, `raspike_protocol.c` 850-883 |
| Link statistics | `fgLinkStats` | counters, `raspike_link_get_stats` | `raspike_protocol.c` 80-85, 885-902 |

**Interaction.** Application threads call the API, which ends in `send_frame` (under
`fgSendMutex`) and, for an acknowledged request, in a timed wait on the port's `cond`. One
or more receiver threads call `raspike_prot_receive` in a loop, as `README.md` 245-248
of the repository asks; a receiver settles mailboxes, changes the session when the hub
announces a new one (HELLO) and copies status frames to the status block. One thread
opens and closes the link. Everything is shared memory under seven kinds of mutex
(`fgLifecycleMutex`, `fgSendMutex`, `device_mutex`, `request_mutex`, `mutex`,
`fgStatusMutex`, `fg_send_mutex`) and some atomics that are under none.

**What is hard.** A request is retried under the same sequence number while the session
may change between the tries; acknowledgements come late, twice or not at all; the session
is changed before the ports are reset; shutdown must get receivers, senders and waiters
out of a link before it frees it; mutexes are nested in different orders; pointers to
devices outlive the link they were got over; writes are cut and fail halfway.
`PROJECT.json` lists the hazards with their lines, and the properties that cover them.

**What makes each part correct.**
* Requests: a result is the hub's answer to this very request in this session; a mailbox
  waits for its owner only; a change of session leaves nobody waiting for what cannot
  come; a timeout or a cancellation that is reported did happen; the port is let go.
* Lifecycle: nobody reads, writes or waits on a link that is closed; nothing of an earlier
  link counts on the next; closing ends.
* Devices: a device that is returned is configured; a port is not two things at once; a
  command goes where it was meant to.
* Send path: what is accepted gets out, whole, in order, once a flush succeeds; what an
  earlier link left behind does not turn up in a session; no call hangs.
* Byte stream: only what the hub sent is processed, each frame once and in order; without
  damage nothing is missed and the host ends up in the hub's session; every frame is counted
  once.
* Motor: what the library says of count, power and stops is what the motor does.
* Hub API: a snapshot is what the block held at one moment; a text fits its frame; a tone
  ends.
* Status: a getter returns data of the mode it asked for, measured in this session.

## Modules

| Module | Contents |
|---|---|
| `RaspikeRequest` | `raspike_request` step by step for any number of callers and ports, one receiver, a lossy link, a hub that restarts |
| `RequestService` | what `raspike_request` promises, without mutexes, frames or retries; `RaspikeRequest` implements it |
| `RaspikeRequestProofs` | the inductive invariant of `RaspikeRequest` and its theorems, that it implements `RequestService`, and that its timeouts are honest |
| `RaspikeLifecycle` | init, shutdown and receive, with requests and `get_device` calls in progress |
| `RaspikeLifecycleProofs` | its inductive invariant and its theorems |
| `RaspikeDevice` | the device cache over changes of session and of link |
| `RaspikeDeviceProofs` | its inductive invariant and its theorems |
| `RaspikeCom` | sending: modes, buffer, flushes, partial and failing writes |
| `RaspikeComProofs` | its inductive invariant and its theorems |
| `RaspikeSensor` | the status block of a port under status frames, telemetry and HELLO, and getters that change the sensor's mode |
| `RaspikeSensorProofs` | its inductive invariant and its theorems |
| `RaspikeLink` | the byte stream: handshake, both kinds of frames, resynchronisation, counters; the checksum is a parameter |
| `RaspikeCrc` | the checksum the code computes, which the run of `RaspikeLink` uses |
| `RaspikeLinkProofs` | the inductive invariants of `RaspikeLink` and its theorems |
| `RaspikeMotor` | one motor: what the host remembers of it, what the hub does, the link in between |
| `RaspikeMotorProofs` | its inductive invariant and its theorems |
| `RaspikeHub` | hub, sensor and drive commands, the speaker, snapshots of the status block and the telemetry |
| `RaspikeHubProofs` | its three inductive invariants and their theorems |
| `MCRaspike...` | the instances TLC checks, and their symmetries |

The modules cut the library along what its parts promise each other. `RaspikeDevice` takes
from `RaspikeRequest` that a request that succeeds was answered in the session the host is
in (`AnswerIsOurs`) and from `RaspikeLifecycle` how a link is closed. `RaspikeLifecycle` has
requests with their locks and waits, and only as much of the answers as decides who
wakes. `RaspikeRequest` has one link that stays open. `RaspikeCom` is what happens inside the
one step `Send` of the others, and `RaspikeLink` what is behind "a frame arrives or is lost" and
behind the one step `InitHello` of `RaspikeLifecycle`. `RaspikeMotor` keeps of `RaspikeRequest` the
frames and the mailbox of one port; `RaspikeHub` keeps of `RaspikeLifecycle` the closing, the
freeing and the next opening.

Conventions. A variable has the name it has in the code. `pc` says where a thread is. A
section under a mutex that neither blocks nor calls out is one step; a mutex that is held
over several steps is a variable that names its holder. Variables commented as *history*
and *bound* are not in the code. A definition commented as *Mutant* is not part of the model:
it is what its neighbour would be with a bug in it, and shows that a property can fail.

### RaspikeRequest

`dev[p]` is the mailbox of a port. A call goes through `Call`, `LockRequest`
(`request_mutex`, 485), `TakeSequence` (486), `MarkPending` (487-498), then up to two
times `BeginAttempt` (500-507), `Send` or `SendFails` (509-514) and `WaitDone` or
`WaitExpires` (516-539), and `Finish` (542-558). `ReceiveAck` is 600-603 and 653-685;
`ReceiveHello` sets the session and leaves the ports to `ResetPort`, one step each, as
`reset_port_state` takes each port's mutex in turn. One receiver is modelled: it handles
a frame to its end before the next. The hub and the link are external: it executes
requests of its session, perhaps more than once, it may drop any frame, announce its
session at any time, and restart. Protocol version 2 is what `raspike_prot_init` insists
on (331-335); the unacknowledged legacy path is not modelled. Sequence numbers wrap at
`SeqLimit` in place of 2^32.

`NoOrphanedRequest` is the one to read: it holds because the session is published (572)
*before* the ports are reset (574), so a call that starts in between is sent in the new
session, and a call that was sent in the old one is still to be reset.

What the code does, and the properties therefore leave room for: a call that reaches its
deadline at the moment the acknowledgement arrives returns `-ETIMEDOUT` although the hub
executed it; a call that was acknowledged may return `-ETIMEDOUT` if a HELLO wipes its
mailbox first (only with a new session: `HonestTimeout`).

`RequestService` is the contract: `Ask`, `Admit` (a port serves one call at a time),
`TakeTicket` (one per call, whatever is repeated), `Enter` (the session it is entered in) and
`Return` with an honest result: an answer the hub gave to this very ticket in the session of the
moment, `-ESTALE` only if that session is not the one it was entered in, or another error.
`Service` in `RaspikeRequest` is the refinement mapping: a call waiting for `request_mutex` is
"asked", one past it "served" (`Stage`), the ticket is the sequence number, and what the hub gave
is `executed`. Retries, frames and mailboxes are stutters.

### RaspikeLifecycle

Links are numbered; a number stands for the descriptor, the status block and the
session of one opening. `ctl` is where the main thread is in init (`InitClaim` ...
`InitComplete`, or `InitFails`, `InitUnclaim`) or in shutdown (`ShutdownBegin` ...
`ShutdownForget`, one action per lock section). `ResetMailbox` and `ClearDevice` are the
body of the loop of `reset_port_state`, with both mutexes; the ports come in any order,
which includes the code's. `pc` "device" and "configure" are `GET_DEVICE_COMMON` around a
request. `InitHello` stands for the whole handshake. Data races that are not modelled:
init in one thread while shutdown still runs in another.

### RaspikeDevice

`device[p]` is the entry a handle points to; `Wiped` is what `memset` leaves, and its
`port_id` 0 is port A. `AskHub` takes `device_mutex`; `HubConfigures`, `Granted` or
`GetFails`, and `StoreDevice` are the request and what follows it. `Granted` (the request
returned) and `StoreDevice` are two steps, so that a HELLO may come between. `Reopen` is
init's wiping and handshake in one step. `Command` is what `pup_motor_stop` does with its
pointer.

### RaspikeCom

A byte is `[frame, part]`. `Write` puts one byte on the wire, so that a write can be cut
anywhere; `WriteFails` and `FlushFails` are the deadline and the errors of `write_all_fd`;
after `FlushFails` the buffer is kept whole and is written again from its start. A
NORMAL write (`pc` "write") holds `fgSendMutex` but not `fg_send_mutex`; a flush (`pc`
"flushing") holds `fg_send_mutex`, and `fgSendMutex` only if it ends a priority frame.

The end of a link and the beginning of the next are steps of their own. `Shutdown` waits for
`fgSendMutex` and makes the flush whose result is ignored; `phase` "closing" keeps senders out
from there on. `Reopen` closes the descriptor and opens another: the buffer and the mode are
static and stay as they are. In `phase` "opening" INIT is sent and flushed like any frame, as often
as it takes; if it fails, init gives up, and `Reopen` is the next try. `Opened` is the return of
`raspike_prot_init`, which sets the mode; it needs that INIT was flushed without an error
(`Greeted`), for otherwise `perform_handshake_once` returns the error (259-262). `OwnFramesOnly`
follows from none of these steps alone: frames that an earlier link left in the buffer go out with
INIT, if its flush succeeds, and then they are gone before the session begins; if it does not,
there is no session. They do reach the hub, ahead of or behind INIT. `wire` and the histories
begin anew with each phase.

### RaspikeSensor

`fgStatus` is the entry of one port; its data is the mode it was measured in, `Mixed` where
telemetry wrote over part of it. A getter is `Get` (which one decides the mode), `CheckMode`
(837-843), `SendChange`, `SendFails` or `FlushFails` (845), `ModeReported` or `WaitTimesOut` (817-835) and
`ReadData` (`raspike_internal.h` 99-101): three sections of `fgStatusMutex`, between which
anything may happen. `ReceiveHello` publishes the session and `ClearStatus` zeroes the block;
the resetting of the ports in between is `RaspikeRequest`'s. The hub may report at any time or
never, so that a lost report needs no step of its own; `LoseChange` loses a request for a mode.
`fg_send_buffer` holds the frames of this port that were not flushed: `FlushFails` is a send that
returns an error and keeps its frame there (or, in NORMAL mode, has written it ahead of what the
buffer holds), after any number of the frames in it have gone out, so that they go out again;
`Flush` is the next flush by whomever, for another port or by the application, and it may fail in
the same way. The mode of sending is left open: each send may be the one or the other. Telemetry carries a reflection only while the sensor measures it:
the code writes it over the data of whatever mode is reported (639-646).

`UndisturbedGetterGetsItsMode` says when a getter can be relied on. `disturbed` is set once two
getters have overlapped, or one gave up in the session it asked in, be it that the report did not
come or that the flush of its frame failed: finding 3 is what happens then. A getter that
gives up because a new session began disturbs nobody, as `ClearStatus` wipes what it left, and
frames of the old session that leave the buffer late are dropped by the hub. For the same reason a new
session that finds no getter inside ends a disturbance.

### RaspikeLink

Bytes are bytes: the start bytes, the command numbers and the layout of both kinds of frames are
the program's; the sequence, the session, the flags and the version of the firmware are one byte
each. The checksum is the operator parameter `rp_v2_crc16`, so that the proofs hold for every
checksum of 16 bits (`ChecksumAssumption`); `MCRaspikeLink` gives it `Crc16` of `RaspikeCrc`, the
code's CRC-16 bit by bit, whose check value an ASSUME compares. The other assumption on the
hub's data, `LookalikeAssumption`, is a limit of the code: `receive_legacy_hello` looks for the byte
0xEA and for the four bytes of a HELLO behind it, wherever they stand, so the frames of a
status must not contain these five bytes. `line` is what the
descriptor holds, and `Read(n)` and `TimesOut(n)` are `raspike_com_receive_timeout`. `phase`
goes through `BeginAttempt` (INIT is sent, input discarded), `ScanInit`, `ReadMagic`,
`ReadVersion`, `ScanHello`, `ReadHelloHeader` and `ReadHelloPayload` to "start", from where
`ReadStart` chooses between a v2 and a legacy frame. `process_command` is cut to what a command
does to the session and to the counters; the rest is in the other modules. One thread reads:
several would share the descriptor without a lock, byte by byte. A frame that times out half
way is a fault like a lost byte, and `MaxFaults` bounds both together.

### RaspikeMotor

`pdev` is the device entry and `status` the part of the status block of the motor's port. A power
or a speed is written to the entry (`SetPower`, `SetSpeed`) and sent in a second step
(`SendDrive`, `DriveFails`), without a lock; all else is `Ask`, one or two `Attempt`s and
`EndRequest`. A send that fails ends the request at once (`AttemptFails`), and its frame may arrive
all the same: frames in flight include those in the send buffer, whose order is that of their sends
(`InOrder` of `RaspikeCom`); that a flush which is repeated sends a frame twice is left out here.
`Stop` stands for stop, brake and hold, which differ in the command number. Counts are abstracted to
the number of resets the hub had made when it measured them.

The hub executes whatever arrives, a repeated frame too, and answers 0 or 1, or it refuses and
answers something else (`HubRefuse`). `request_result_to_pbio` takes 0 and 1 for success;
`pup_motor_reset_count` goes on with `ZeroCount` for 1 only, so that after an answer of 0 it has
reported success and zeroed nothing. `promised` are the resets that were answered by 1, and
`CountOfThisReset` is about these: after an answer of 0 it is false of the code (see Findings).
Errors, and refusals among them, are not told apart.

### RaspikeHub

A command is `Start`ed with the size of its payload and `Send`, or `SendFails`, follows; the
commands that differ in number and size only are the sets `DisplayCommands` ... `DriveCommands`.
A tone is commanded without an end, slept over (`pc` "play"), and ended by `EndTone`. A send
that fails may have lost its frame, have written it, or keep it in the send buffer (`SendFails`; what
waits there is part of `toHub`), and an open link may lose frames (`LoseFrame`). Each tone has the
number of its call, which its stop bears too: `endless` are the tones without an end, `unstopped`
those whose call or stop failed or whose stop was lost, and `FallsSilent` says that no other tone
is left playing. Of the unstopped ones it would be false (see Findings).

A block, status or telemetry, is two halves, so that a copy can be torn: `LookUp` takes the
pointer without a lock, `CopyHead` takes the mutex and `CopyTail` gives it back. `FillHead` and
`FillTail` are the receiver's: a whole frame, zeros for the HELLO of another session, or, for
`DRIVE_TELEMETRY`, one half only (`Filled`), so that the status block may be made of several frames,
as in `RaspikeSensor`. `ResetCount` and `ZeroCount` are `pup_motor_reset_count`, which takes
the pointer without a lock as well and clears a half. `held` notes what the block was, between two
writes, during a user's call: `Untorn` says that what a user gets is one of these. `FreeStatus` and
`Reopen` note in `exposed` who is copying what they free or clear.

## What TLC checks

| Run | Question | Instance |
|---|---|---|
| `request` | is what a request returns true of it, and does the protocol implement `RequestService`? | 2 callers, 2 ports, 2 calls, 2 sessions, 2 frames to the host in flight; 1.2 million states |
| `lifecycle` | does anyone use what is closed or freed; does shutdown return unless it meets `get_device`; is a port let go? | 2 receivers, 2 senders (1 in `get_device`), 2 ports, 2 links, 2 calls; fairness |
| `lifecycle_opener` | does shutdown return with a thread in `get_device`? **No** | 1 thread in `get_device`, 1 port, 1 link; fairness |
| `device` | does the cache agree with the hub? | 2 users, 2 ports, 2 types, 3 gets, 2 links, 2 sessions; 1.2 million states |
| `device_session` | also when the hub restarts under an open link? **No** | 1 link, 2 sessions |
| `com` | whole frames, in order, flushed, and in a session only those of its own link; does every call return? | 2 threads, 3 frames of 2 bytes (INIT is one of them), a buffer of 5 bytes, 1 flush, 2 failures, 2 links, a descriptor that may stop for ever, the mode changed at any time; fairness; 1.7 million states |
| `sensor` | does a getter return data of its mode and session? | 2 users, 2 modes, 3 gets, 2 sessions, 2 frames each way in flight, 1 in the send buffer; 2 million states |
| `sensor_late` | also data of its mode after one that gave up? **No** | 1 user, 3 gets, 1 session |
| `motor` | are stops and powers those of the motor, and is a count from before a reset never read after an answer of 1? | 2 users, 3 calls, a power out of range, 1 report, 1 loss, 2 frames each way in flight; 3.4 million states |
| `motor_duty` | is what is restored a limit? **No** | 2 users, 3 calls, 1 loss |
| `link` | is what is processed what the hub sent, all of it, and counted? | payload bytes that look like INIT, damage that looks like a start byte, 2 attempts, 2 frames, 1 restart, 1 fault; 0.8 million states |
| `hub` | do texts fit, are snapshots whole, do tones end that can be stopped? | 2 users, 3 calls, 1 status or telemetry frame, 2 links, 2 sends that fail or frames that are lost; 5.9 million states |

Every property has a mutant in `PROJECT.json`: a change of one definition, of the kind a bug
would be, with which TLC finds the property violated under the same configuration.

**Why the bounds are enough.** What can go wrong on one port needs two calls (the second
meets what the first left behind), two tries of each and one change of session in between;
a second port is there so that the reset loop can be halfway. `SeqLimit` is 3 in `request`,
so that the counter wraps and skips 0 within the calls; sequence numbers that are in use at the
same time still differ. Two links show what survives a shutdown; a third would meet the same.
Two users and two types are what a conflict takes, three gets what it takes to come back
after one. A frame of two bytes can be cut in one place, which is as good as in many; a buffer
of 5 bytes holds two frames and leaves room that is too small for a third. Three gets are
what it takes to return to a mode after another one was given up. In `link`, two attempts are what
a late answer takes, a second frame shows that reading goes on after a bad one, and the bytes
of the payload and of the noise are those that could be taken for INIT and for the two start
bytes; a chunk of 5 bytes cuts every kind of frame inside. In `com`, three frames are one that is left in the buffer, an INIT
and one of the next session, and two failures the flush of the close and one more. In `sensor`, one
place in the send buffer is what one frame that was given up takes; a second user's would be
an overlap.
In `motor`, one loss is one late answer and a retry; with three calls it meets the stop after it.
One report is either from before a reset, ahead of its acknowledgement, or from after it, and a
power out of range is one that is clamped. States that differ only in the locals of calls that have
returned are taken for one (`Live`): no step and no property depends on them. In `hub`, 235
characters are one too many for one kind of text and 231 the most of the other; two failures are a
tone that goes out late and a stop that does not. One frame is what a torn snapshot takes, half from
before and half from after it; the zeros of a HELLO, the parts of a telemetry frame and the clearing
of a count by another user are alternatives to it or come on top.

**Deadlock** is checked, but says little: in `request` the hub can always announce its session,
in `lifecycle` a receiver can always be refused, in `com` the mode can always be set, in
`sensor` a frame can always be sent or received. In `device*`, `motor*`, `link` and `hub` it is
switched off, since a program that has made its calls stops there (and an init that failed is
not repeated), and the bound on calls is what stops it.
That threads do not wait for each other for ever is what the liveness properties say:
`PortReleased`, `OnlyGetDeviceStopsShutdown`, `CallsReturn`. The one deadlock
there is, is finding 1; `MetGetDevice` is its exact state, and `OnlyGetDeviceStopsShutdown` says
that there is no other.

**Fairness.** Weak fairness of each thread's steps *inside* the library, and nothing else. A
thread that can run does run, a timed wait ends, and `poll` returns by its deadline: the code uses
`pthread_cond_timedwait` and `poll` with timeouts throughout. Nothing is assumed of the
hub, the link or the application: they may stop at any time. Mutexes are not assumed to be
fair; the bound on calls is what keeps them from being taken by others for ever.

## Findings

1. **Shutdown and `get_device` deadlock** (`lifecycle_opener`). `raspike_prot_shutdown`
   holds `fgSendMutex` while it waits for each `device_mutex`; `GET_DEVICE_COMMON` holds
   a `device_mutex` while its request waits for `fgSendMutex`.
2. **A device the hub does not know** (`device_session`). After a HELLO of a new session,
   as it follows `hub_system_restart()` over the open link, the cache keeps its entries, and
   `pup_*_get_device` returns them without configuring the port.
   TLC's shortest behaviour has the restart between the acknowledgement and the writing of
   the entry; a `get_device` long after the restart gives the same.
3. **A late change of mode** (`sensor_late`). A change that was given up, after a second or because a
   flush failed and left its frame in the send buffer, still happens. The next
   getter of the mode from before finds it reported, asks for nothing, and reads the data of
   the late change. One thread suffices. Two threads that read one sensor in two modes have the
   same without a timeout: that the sensor is in the mode wanted and what it measured are read in
   two sections of `fgStatusMutex`.
4. **An error restored as a duty limit** (`motor_duty`). `pup_motor_set_duty_limit` returns what
   the request returned, also an error; `motor.h` tells the caller to hand it to
   `pup_motor_restore_duty_limit`, which sends it to the hub.

Met on the way, without a run of its own: the repository's README says that
`raspike_prot_shutdown` shuts the SPIKE down; only `hub_system_shutdown` sends that
command. A device pointer kept over a shutdown and a new init names an entry that was
zeroed, and port number 0 is port A: a command through it goes there. A change of mode from
BUFFERED to NORMAL leaves frames in the buffer, which are overtaken, and a flush by another
thread then writes into the middle of a NORMAL write (hence `disturbed` in `FramesUnmixed`
and `InOrder`). A flush that fails as the link is closed leaves its frames to the next link,
where they go out with the handshake (hence `OwnFramesOnly` is about sessions); a buffer that is
left full in BUFFERED mode refuses every INIT with `-ENOBUFS`, and no init succeeds until the
application flushes or changes the mode. After `pup_motor_stop`, `pup_motor_get_power` returns the
power commanded before (hence `Off` in `PowerIsApplied`). A HELLO of a restarted hub that is lost leaves the
host in the old session for good, dropping every frame; one flipped bit makes a checksummed
frame a legacy one (hence the conditions of `SessionAgrees` and `Genuine`).
`raspike_link_get_stats` and `raspike_runtime_get_telemetry` return positive error numbers, the
other calls negative ones. `request_result_to_pbio` makes success of an answer of 0 as well as of 1
(`raspike_motor.c` 14), but `pup_motor_reset_count` zeroes the count for 1 only (48): after an answer
of 0, which is up to the firmware, `pup_motor_get_count` returns the count of before until the next
status frame, although the reset was reported done (hence `CountOfThisReset` is about answers of 1).
Every tone is commanded without an end. If its send fails in the flush, the frame is kept and goes
out later, but `hub_speaker_play_tone` has returned without a stop (`raspike_hub.c` 219-222); and the
result of the stop is ignored (239), so that one that fails or is lost is not repeated. Either way a
tone of a given duration plays on, though `speaker.h` 94 asks for a `hub_speaker_stop` only after
`SOUND_MANUAL_STOP` (hence `unstopped` in `FallsSilent`).

## What TLAPS proves

`RaspikeRequestProofs`, for every set of callers, ports and commands and every value of
the bounds, under `RequestAssumption` (in `RaspikeRequest`, evaluated by TLC in `request`):

| Theorem | States |
|---|---|
| `Invariance` | `Spec => []Inductive` |
| `TypeCorrect` | `Spec => []TypeOK`; with it, 0 is never handed out as a sequence number |
| `PendingOwned` | `Spec => []PendingIsOwned` |
| `NoneOrphaned` | `Spec => []NoOrphanedRequest` |
| `AnswersAreOurs` | `Spec => AnswerIsOurs`, an action property |

None of the properties is inductive alone. `Inductive` adds: a call that is not over has an
attempt left (`AttemptsLeft`, for the types); a call past the lock holds its
`request_mutex` (`HoldsMutex`, for `PendingIsOwned`); the result of a call that is not over
is an error of the send path (`ResultIsPrivate`, so that a value in `AckData` can only
come from the mailbox); and the acknowledgements on the way and in the mailboxes were given by
the hub (`FramesAreGenuine`, `MailboxesAreGenuine`). TLC checked `Inductive` before it was
proved. Each conjunct has its lemma (`StepTyped`, `StepMutex`, ...), with one step per
action that can disturb it; `OneCallerMoves` and `OutsideSteps` say what the others leave
alone. The assumption that matters is `AckData \cap Errors = {}`: the code returns the hub's
data and its own errors through the same integer.

The second half of the module proves, under the same assumption, `RequestIsServed`:
`Spec => ImplementsService`, that is, `RaspikeRequest` implements `RequestService` under the
mapping at the end of `RaspikeRequest`. The mapping is simple (a call is idle, asked or
served); what needs an argument is that a call that returns "cancelled" was really overtaken
by a new session, since the service allows the answer only then. That is `Honest`: sessions on
their way to the host only grow (`SessionsGrow`), no call was entered in one that is still to
come (`NoneFromLater`), so that a call whose mailbox is or is about to be cancelled was
entered in another than the host's (`StaleIsTrue`). On top of `Inductive` and `Honest` each
action has its lemma: `CallAsks`, `LockAdmits`, `SequenceIsTicket`, `MarkEnters` and
`FinishReturns` are steps of the service, `AttemptsAreUnseen` is a stutter, and `OutsideIsWorld`
maps the receiver, the link and the hub.

The same module proves `TimeoutsAreHonest`: `MaxCalls < SeqLimit` implies
`Spec => HonestTimeout`. A caller that was woken finds its mailbox settled and nobody waiting in
it again (`Woken`); a mailbox that was settled in the session its call was entered in holds that
call's answer (`Settled`), so that `Finish` takes its value and not the `-ETIMEDOUT` it began
with. The receiver compares the sequence number and the session of an acknowledgement
(665-668), the caller also the command: that the commands agree is the hard part.
It holds as long as a number is given to one command only (`OneCommandPerNumber`),
hence until `next_sequence` comes round, hence the hypothesis, which is 2^32 calls in the code
(`NumbersInTurn` counts the numbers taken). It cannot be dropped: with `SeqLimit` = 3, three calls
and two commands TLC finds an old acknowledgement that wakes a new call of another command.

`RaspikeLifecycleProofs`, for any receivers (finitely many), senders, ports and bounds, under
`LifecycleAssumption`, proves `TypeCorrect`, `ReceiversHaveLink`, `SendersHaveLink`,
`NoneWaitsOnClosedLink` and `DevicesOfThisLink`, the five invariants of run `lifecycle`. The
argument follows the locks: a thread that writes holds `fgSendMutex`, and so does shutdown from
detaching to closing (`HoldsLocks`), so that nobody writes while the link is closed; `fgDesc`,
`fgStatus` and `fgSessionId` agree while receivers are let in (`Flags`); shutdown passes "drain"
only when the count of receivers is zero, and since the count is exact (`TypeOK`) nobody is
inside afterwards (`ReceiversOfOpenLink`); a port that was reset under `fgSendMutex` has no
waiting request and gets none, for a wait begins with the end of a write (`NoneWaitsAtReset`); and a port that init has reset
holds no answer and no device of an earlier link, nor has a thread in `GET_DEVICE_COMMON` one in
hand, since `device_mutex` was free when it was reset (`Clean`; for the first link, which
resets nothing, `Untouched`).

`RaspikeDeviceProofs`, for any users, ports, types and bounds, under `DeviceAssumption`, proves
`TypeCorrect`, `PortsOfOneType`, `FreshCommands` and the action property `GotDevices`. Who asks
the hub holds `device_mutex` and found the entry empty (`HoldsDevice`); the hub does not agree
over a closed link (`NotYetAgreed`), so that a wiped entry stays empty until the next one
(`Entered`); a pointer got over the open link therefore agrees with its entry (`HandleAgrees`);
and until the hub restarts it has the port configured for what the entry says or is about to
say (`Configured`, which needs that sessions grow, `Ordered`).

`RaspikeHubProofs`, for every set of users and every value of the bounds, under
`HubAssumption`, proves three properties, each from an invariant of its own.
`SnapshotsUntorn` (`Untorn`): whoever is in a
section of a block's mutex holds it (`Sections`), so that the receiver is half way through a
block, with the first half written and the second to come (`HalfWay`), only while it holds its
mutex; so that what the block holds is among what a reader has noted that it held, and the half
the reader has copied is still there (`Current`), unless the block was freed or cleared under it
(`exposed`). The
only step that needs more is `Reopen`, which clears both blocks without a mutex: the readers of
the telemetry become exposed, and no reader of the status block is left who is not, since the
block is freed by then. `TypeCorrect` (`TypeOK`) needs that what a thread is about to send fits a
frame before it is sent (`Labelled`): the tests in `hub_display_text*` come first. `SilenceFalls`
(`FallsSilent`) needs, of every tone that plays or is on its way and is neither endless nor
unstopped, who will end it (`Tones`): the thread that still sleeps through it or is about to send
its stop (`Ends`), or a stop of its number behind it on the link (`Followed`). A stop that is lost
or fails makes its tone unstopped; one of another tone ends it early.

`RaspikeComProofs`, for any threads, frames, flushes, failures and links and every size of a
frame and of the buffer (also one that holds no frame), under `ComAssumption`, proves all six
invariants of run `com`. `Inductive` has two halves. One holds whatever the mode does: who
sends a frame holds `fgSendMutex` and its frame is the last one begun, who writes the buffer
holds `fg_send_mutex` (`Locks`); except in the handshake, bytes on the wire and in the buffer are of frames begun on
this link (`Own`); in it, whoever sends will flush, and once INIT was sent without an error the
buffer is empty (`Greeting`), so that the session begins with nothing of an earlier link; and every part of
a frame that is accepted, or about to be, is on the wire or in the buffer, while a thread that is
halfway through a write has put what it counts as written on the wire (`Keeps`), which is why
emptying the buffer loses nothing. From it follow `TypeCorrect`, `NothingAcceptedIsLost` and
`SessionsCarryTheirOwn`. The other half, `Undisturbed`, is for a mode that was changed at rest only:
NORMAL means an empty buffer and nobody flushing (`Modes`), so that there is one writer at a time and
what it has written is what the wire ends with (`Written`); then every byte follows its
predecessor on the wire (`Chained`), what is accepted is there in one piece (`Whole`), and before
anything sent later (`Ordered`). The step that needs them together is a flush that is repeated after
it failed halfway: it begins with the first byte of a frame, so that the torn end before it is
followed by a beginning and never by the rest of another frame.

`RaspikeMotorProofs`, for any users, powers, limits and capacities, under `MotorAssumption`,
proves the four invariants of run `motor`. A frame on its way belongs to the call whose number it
bears, and to no later one (`Numbers`); that is what ties an acknowledgement to a request.
`NoCountOfBefore`, for an answer of 1: the hub has reset as often as the users know it has (`Known`: those who were told, and
those who hold the answer and have not said so yet), and once more for an acknowledgement that
somebody waits for, and so it had when it measured any report behind that acknowledgement
(`Counted`). `Knows` is counted with `Cardinality`, since any number of users may reset at once.
`StopIsKept`: no drive command is behind a stop nobody has driven since, and once it is
executed none is left (`Stopped`). `PowerReadIsApplied`: the power that is noted is being sent,
is in the last drive command on its way, or is what the hub applies (`Applied`).

`RaspikeSensorProofs`, for any users, modes, sessions and capacities, under `SensorAssumption`,
proves the two invariants of run `sensor` and its action property. `Fresh`: sessions reach the host in the order in
which they began, no frame is of one older than the host's, and a hub the host has not heard of is in no
mode; from it follows `NoStatusOfBefore`. `GettersGetTheirMode` says of every getter that was not
disturbed that it returns data of its mode, over a send path that keeps frames whose flush failed. What it relies on: at most one getter is inside
(`Alone`); the entry, the reports on their way and the hub agree on one mode (`Steady`), or they are
turning from it to the one a getter waits for, the reports of the old ahead of those of the new
(`Turning`); and what a getter saw in one section of `fgStatusMutex` is still so in the next (`Relied`). As long as
nobody is disturbed, the send buffer holds frames of earlier sessions only (`HeldIsOld`), which the
hub drops whenever they come; and while nobody has asked for a mode in a session, its hub is in none
(`Unasked`), which is why a new session with no getter inside ends a disturbance.
A HELLO complicates this: between the publishing of the session and the zeroing of the
block the entry is what it will be (`Shown`), and what a getter then sees is of no use.

`RaspikeLinkProofs`, for any payloads, damage, chunks, attempts, limits and any checksum, under
`LinkAssumption`, `ChecksumAssumption` and `LookalikeAssumption` (evaluated by TLC in `link`),
proves `Spec => []Inductive`, and from it:

| Theorem | States |
|---|---|
| `TypeCorrect` | `Spec => []TypeOK`: bytes stay bytes, and a payload that is read fits its buffer, whatever the line does |
| `EveryCallCounts` | `Spec => []CountedOnce` |
| `NoFrameMissed` | `Spec => []NothingMissed` |
| `HostFollowsSession` | `Spec => []SessionAgrees` |
| `GenuineUndamaged` | `Spec => [](Clean => Genuine)` |

`Inductive` is `Shaped /\ Tallied /\ (Clean => InStep)`. `Shaped` (types) and `Tallied` (calls and
counters) hold whatever happens to the bytes. `InStep` is about a line that damages nothing and
keeps its deadlines (`Clean`), and says of *some* sequence `w` of bytes and *some* set `B` of places
in it that `w` is all the hub ever wrote and `B` is where its units begin:
a status frame, a HELLO, or one byte of an answer to INIT. Its parts are:
* `Framed`: the units follow each other without gaps and are whole.
* `InOrder`: along `w`, the numbers of the frames grow and the sessions do not fall; between a
  HELLO and a frame of a later session is the HELLO of that session; every frame sent is there.
* `Flows`: what the descriptor holds and what is still on its way are the end of `w`, so the
  reader has a place in `w` (`Pos`).
* `Placed`: where that is in each phase. While receiving, it is where a unit begins, or as far
  inside one as the phase says, and the bytes read so far are those of the unit.
* `CaughtUp`: the session is that of the last HELLO before this place, every frame before it
  from `first` on was processed, in order, none behind it was, and every call has counted.

The steps of the hub lengthen `w` by a unit or, for the answer to INIT, by four (`Appending`, `SendInStep`,
`AnswerInStep`, `RestartInStep`). Arriving only moves bytes (`ArriveInStep`). The discarding of input
before an INIT skips bytes, wherever that ends (`HandshakeInStep`): the handshake need not know where
units begin. It knows again after the HELLO: the five bytes it has found are the beginning of one
(`Lookalike`), because a frame contains no such bytes and no unit ends in a part of them. From there on
each call reads one unit (`StartInStep`, `V2HeaderInStep`, `V2PayloadInStep`, ...; `UnitDone`). A frame is
accepted because its checksum is that of the bytes it was computed from (`FrameIntact`), and its
session is the host's because of `InOrder` (`FrameSession`).
`w` and `B` are not variables of the model; that they exist is the invariant, and each lemma picks
them and says what the next ones are. TLC checked the parts of `InStep` before they were proved, on the
instance of `link` without faults and with `w` and `B` as variables the hub's steps extend.

Each of these invariants was checked by TLC before it was proved, and each theorem that states
a property of a run is about the module that run instantiates.

Model-checked only:
* `Genuine` of `RaspikeLink` under damage. It depends on the checksum finding the damage, and no
  checksum of 16 bits finds all; TLC checks it with the code's CRC for the bytes of the instance.
* Liveness, with its fairness, which is out of this prover's reach as is `ENABLED`:
  `PortReleased`, `OnlyGetDeviceStopsShutdown`, `CallsReturn`.
* That `Crc16` computes the CRC: it is a fold over bit operations (`Bitwise`, which is
  recursive), and induction over data is out of reach. Its check value is compared.

## Not modelled

That a getter of a sensor returns in time: its wait ends at a deadline that no report can put off
(`WaitTimesOut`), but with fairness the run of `RaspikeSensor` takes too long.
Several threads that read one descriptor without a lock (`RaspikeLink` has one); the other
threads' frames during the handshake; init in one thread while shutdown runs in another; the
counters of requests (timeouts, retries, late acknowledgements); fields of the HELLO that are
only stored, or only compared with a constant (capabilities and largest payload, 331-334);
that a flush which is repeated sends a frame of `RaspikeMotor` or `RaspikeHub` twice (`RaspikeCom`
and `RaspikeSensor` have it); in `RaspikeDevice`, a configuring frame that is executed after its request was
given up (the link is FIFO, so it comes ahead of whatever is asked next); `pup_color_sensor_detectable_colors`, which stores a pointer; `raspike_drive_configure`,
`raspike_runtime_inject_fault`, `hub_system_restart` and `hub_system_enter_update_mode`, which are
requests without state of their own; opening and configuring the terminal; the test and sample
programs; libpybricks headers, tools and the firmware image. `PROJECT.json` says of each why.

## Plan

1. *Prove.* `Genuine` under damage, from an assumption on the checksum that says which
   damage it finds.
2. *Extend.* `RaspikeSensor` and `RaspikeMotor` over a link that is closed and opened again, composed
   with `RaspikeLifecycle`; two threads in `raspike_prot_receive` in `RaspikeLink`.

---------------------------- MODULE RaspikeHubProofs ----------------------------
(***************************************************************************)
(* The properties of the hub's calls, for any number of threads, calls,    *)
(* frames and links: a snapshot of a block is what the block held at one   *)
(* moment (Untorn), what is sent fits a frame and the volume is in range   *)
(* (TypeOK), and the hub falls silent (FallsSilent).                       *)
(***************************************************************************)
EXTENDS RaspikeHub, TLAPS

Labels == {"idle", "send", "play", "close", "free", "copy", "copying", "zero", "fill"}
Contents == [head : Nat, tail : Nat]

Shapes ==
  /\ pc \in [User \cup {Receiver} -> Labels]
  /\ data \in [Block -> Contents]
  /\ lock \in [Block -> User \cup {Receiver, Nobody}]
  /\ filling \in [block : Block, value : Contents]
  /\ DOMAIN call = User /\ DOMAIN seen = User /\ DOMAIN held = User
  /\ frames \in Nat

\* What a user is doing tells which kind of call it has made.
CallsMatch == \A u \in User :
  /\ pc[u] \in {"copy", "copying"} => call[u].cmd \in Block
  /\ pc[u] \in {"send", "play", "close", "free", "zero"} => call[u].cmd \notin Block
  /\ pc[u] # "fill"

\* Who is in a section of a mutex holds it; the receiver is in none without a link.
Sections ==
  /\ \A u \in User : pc[u] = "copying" => lock[call[u].cmd] = u
  /\ pc[Receiver] = "fill" => lock[filling.block] = Receiver
  /\ \A b \in Block : lock[b] = Receiver => pc[Receiver] = "fill" /\ filling.block = b
  /\ ~open => pc[Receiver] = "idle"

\* A block that the receiver is half way through has the first half of its content.
HalfWay == \A b \in Block : Filling(b) => data[b].head = filling.value.head

\* Whoever is copying and is not exposed has the block of now, which has held what is in it
\* between two writes, and has copied of it what is in it.
Current == \A u \in User \ exposed :
  /\ pc[u] \in {"copy", "copying"} /\ call[u].cmd = "status" =>
       call[u].value = fgStatus /\ fgStatus # 0
  /\ pc[u] \in {"copy", "copying"} /\ ~Filling(call[u].cmd) =>
       data[call[u].cmd] \in held[u]
  /\ pc[u] = "copying" => seen[u].head = data[call[u].cmd].head

Inductive == Shapes /\ CallsMatch /\ Sections /\ HalfWay /\ Current /\ Untorn

-----------------------------------------------------------------------------

\* No command of the hub or of a sensor is taken for a read of a block.
LEMMA CommandsAreNoBlocks ==
  /\ \A c \in Commands : c[1] \notin Block
  /\ \A cmd \in DOMAIN PREFIX : cmd \notin Block
<1>1. ASSUME NEW c \in Commands PROVE c[1] \notin Block
  <2>1. c[1] \in {"HUB_DISP_ORI", "HUB_DISP_OFF", "HUB_DISP_PIX", "HUB_DISP_IMG",
                  "HUB_DISP_NUM", "HUB_DISP_CHR", "HUB_IMU_SET_TLT", "HUB_IMU_RST_HDG",
                  "HUB_LGT_ON_HSV", "HUB_LGT_ON_COL", "HUB_LGT_OFF", "COL_LIGHT_ON",
                  "COL_LIGHT_OFF", "US_LGT_SET", "US_LGT_ON", "US_LGT_OFF",
                  "DRIVE_COMMAND"}
    BY <1>1 DEF Commands, DisplayCommands, ImuCommands, LightCommands, ColorCommands,
                UltrasonicCommands, DriveCommands
  <2> QED BY <2>1 DEF Block
<1>2. \A cmd \in DOMAIN PREFIX : cmd \notin Block
  BY DEF PREFIX, Block
<1> QED BY <1>1, <1>2

\* The first state satisfies the invariant (raspike_prot_init has just succeeded).
LEMMA Initially == ASSUME HubAssumption PROVE Init => Inductive
<1> SUFFICES ASSUME Init PROVE Inductive
  OBVIOUS
<1>1. Shapes BY HubAssumption DEF Init, Shapes, Labels, Contents, Zeros, Block
<1>2. CallsMatch BY HubAssumption DEF Init, CallsMatch
<1>3. Sections BY HubAssumption DEF Init, Sections, HubAssumption
<1>4. HalfWay BY DEF Init, HalfWay, Filling
<1>5. Current BY DEF Init, Current
<1>6. Untorn BY DEF Init, Untorn, Block
<1> QED BY <1>1, <1>2, <1>3, <1>4, <1>5, <1>6 DEF Inductive

\* A call that begins holds no mutex and leaves the blocks alone.
LEMMA StartKeeps ==
  ASSUME HubAssumption, Inductive, NEW u \in User, NEW cmd, NEW size, NEW value,
         cmd \notin Block, Start(u, cmd, size, value)
  PROVE  Inductive'
<1> USE HubAssumption DEF Inductive, Start, Call, Goto, memory, copies
<1>1. Shapes' BY DEF Shapes, Labels, Contents
<1>2. CallsMatch' BY DEF CallsMatch, Shapes
<1>3. Sections' BY DEF Sections, Shapes
<1>4. HalfWay' BY DEF HalfWay, Filling
<1>5. Current' BY DEF Current, Filling, Shapes
<1>6. Untorn' BY DEF Untorn, Shapes
<1> QED BY <1>1, <1>2, <1>3, <1>4, <1>5, <1>6

\* Sending, failing to send and sleeping change only where the caller is.
LEMMA SendingKeeps ==
  ASSUME HubAssumption, Inductive, NEW u \in User, Send(u) \/ SendFails(u) \/ EndTone(u)
  PROVE  Inductive'
<1> USE HubAssumption DEF Inductive
<1>1. CASE Send(u) \/ SendFails(u)
  <2>1. PICK label \in {"idle", "play", "close"} : pc' = [pc EXCEPT ![u] = label]
    BY <1>1 DEF Send, SendFails, Goto, After, PlaysOn
  <2>2. pc[u] = "send" /\ UNCHANGED <<open, memory, filling, call, copies, frames>>
    BY <1>1 DEF Send, SendFails, bounds
  <2> USE <2>1, <2>2 DEF memory, copies
  <2>3. Shapes' BY DEF Shapes, Labels, Contents
  <2>4. CallsMatch' BY DEF CallsMatch, Shapes
  <2>5. Sections' BY DEF Sections, Shapes
  <2>6. HalfWay' BY DEF HalfWay, Filling
  <2>7. Current' BY DEF Current, Filling, Shapes
  <2>8. Untorn' BY DEF Untorn, Shapes, CallsMatch
  <2> QED BY <2>3, <2>4, <2>5, <2>6, <2>7, <2>8
<1>2. CASE EndTone(u)
  <2> USE <1>2 DEF EndTone, Goto, memory, copies, bounds
  <2>1. Shapes' BY DEF Shapes, Labels, Contents
  <2>2. CallsMatch' BY DEF CallsMatch, Shapes, Block
  <2>3. Sections' BY DEF Sections, Shapes
  <2>4. HalfWay' BY DEF HalfWay, Filling
  <2>5. Current' BY DEF Current, Filling, Shapes
  <2>6. Untorn' BY DEF Untorn, Shapes
  <2> QED BY <2>1, <2>2, <2>3, <2>4, <2>5, <2>6
<1> QED BY <1>1, <1>2

\* A reader looks a block up: from here on it must have the block of now.
LEMMA ReadingKeeps ==
  ASSUME HubAssumption, Inductive, NEW u \in User,
         ReadStatus(u) \/ ReadTelemetry(u) \/ ReadNothing(u)
  PROVE  Inductive'
<1> USE HubAssumption DEF Inductive, Goto, memory, Block
<1>1. CASE ReadStatus(u) \/ ReadTelemetry(u)
  <2>1. PICK b \in Block : LookUp(u, b) /\ (b = "status" => fgStatus # 0)
    BY <1>1 DEF ReadStatus, ReadTelemetry
  <2> USE <2>1 DEF LookUp, Call, Content
  <2>2. Shapes' BY DEF Shapes, Labels, Contents
  <2>3. CallsMatch' BY DEF CallsMatch, Shapes
  <2>4. Sections' BY DEF Sections, Shapes
  <2>5. HalfWay' BY DEF HalfWay, Filling
  <2>6. Current' BY DEF Current, Filling, Shapes
  <2>7. Untorn' BY DEF Untorn, Shapes
  <2> QED BY <2>2, <2>3, <2>4, <2>5, <2>6, <2>7
<1>2. CASE ReadNothing(u)
  <2> USE <1>2 DEF ReadNothing, Call, Zeros
  <2>1. Shapes' BY DEF Shapes, Labels, Contents
  <2>2. CallsMatch' BY DEF CallsMatch, Shapes
  <2>3. Sections' BY DEF Sections, Shapes
  <2>4. HalfWay' BY DEF HalfWay, Filling
  <2>5. Current' BY DEF Current, Filling, Shapes
  <2>6. Untorn' BY DEF Untorn, Shapes
  <2> QED BY <2>1, <2>2, <2>3, <2>4, <2>5, <2>6
<1> QED BY <1>1, <1>2

\* The first half is copied once the mutex is taken.
LEMMA CopyHeadKeeps ==
  ASSUME HubAssumption, Inductive, NEW u \in User, CopyHead(u)
  PROVE  Inductive'
<1> USE HubAssumption DEF Inductive, CopyHead, Goto
<1>1. /\ call[u].cmd \in Block /\ lock[call[u].cmd] = Nobody
      /\ lock' = [lock EXCEPT ![call[u].cmd] = u] /\ u # Receiver
  BY DEF CallsMatch, Acquire
<1>2. PICK x \in Found(u, data[call[u].cmd].head) :
        seen' = [seen EXCEPT ![u] = [head |-> x, tail |-> 0]]
  OBVIOUS
<1> USE <1>1
<1>3. u \notin exposed => x = data[call[u].cmd].head
  BY <1>2 DEF Found, Current
<1>4. Shapes' BY <1>2 DEF Shapes, Labels, Contents, bounds
<1>5. CallsMatch' BY DEF CallsMatch, Shapes
<1>6. Sections' BY DEF Sections, Shapes, CallsMatch
<1>7. HalfWay' BY DEF HalfWay, Filling, Shapes
<1>8. Current' BY <1>2, <1>3 DEF Current, Filling, Shapes
<1>9. Untorn' BY <1>2 DEF Untorn, Shapes
<1> QED BY <1>4, <1>5, <1>6, <1>7, <1>8, <1>9

\* The second half is that of the same frame: the mutex kept the receiver out.
LEMMA CopyTailKeeps ==
  ASSUME HubAssumption, Inductive, NEW u \in User, CopyTail(u)
  PROVE  Inductive'
<1> USE HubAssumption DEF Inductive, CopyTail, Goto
<1>1. /\ call[u].cmd \in Block /\ lock[call[u].cmd] = u
      /\ lock' = [lock EXCEPT ![call[u].cmd] = Nobody] /\ u # Receiver
  BY DEF CallsMatch, Sections
<1>2. PICK x \in Found(u, data[call[u].cmd].tail) :
        seen' = [seen EXCEPT ![u] = [head |-> seen[u].head, tail |-> x]]
  OBVIOUS
<1> USE <1>1
<1>3. u \notin exposed => x = data[call[u].cmd].tail
  BY <1>2 DEF Found, Current
<1>4. Shapes' BY <1>2 DEF Shapes, Labels, Contents, bounds
<1>5. CallsMatch' BY DEF CallsMatch, Shapes
<1>6. Sections' BY DEF Sections, Shapes, CallsMatch
<1>7. HalfWay' BY DEF HalfWay, Filling, Shapes
<1>8. Current' BY <1>2 DEF Current, Filling, Shapes
<1>9. Untorn'
  <2>1. ASSUME u \notin exposed PROVE seen'[u] \in held[u]
    <3>1. data[call[u].cmd] \in Contents /\ data[call[u].cmd] \in held[u]
      BY <2>1 DEF Shapes, Current, Filling, Sections
    <3>2. seen'[u] = [head |-> data[call[u].cmd].head, tail |-> data[call[u].cmd].tail]
      BY <1>2, <1>3, <2>1 DEF Current, Shapes
    <3>3. seen'[u] = data[call[u].cmd]
      BY <3>1, <3>2 DEF Contents
    <3> QED BY <3>1, <3>3
  <2>2. ASSUME NEW v \in User, v # u
        PROVE  seen'[v] = seen[v] /\ pc'[v] = pc[v]
    BY <1>2, <2>2 DEF Shapes
  <2> QED BY <2>1, <2>2 DEF Untorn
<1> QED BY <1>4, <1>5, <1>6, <1>7, <1>8, <1>9

\* The receiver fills a block under its mutex, when nobody copies it.
LEMMA FillingKeeps ==
  ASSUME HubAssumption, Inductive, FillTail \/ \E b \in Block : FillHead(b)
  PROVE  Inductive'
<1> USE HubAssumption DEF Inductive, Goto
<1>1. ASSUME NEW b \in Block, FillHead(b) PROVE Inductive'
  <2>1. PICK value \in Contents :
          /\ filling' = [block |-> b, value |-> value]
          /\ data' = [data EXCEPT ![b].head = value.head]
    <3>1. Filled(b, frames + 1) \subseteq Contents
      BY DEF Filled, Zeros, Shapes, Contents
    <3> QED BY <1>1, <3>1 DEF FillHead
  <2>2. filling'.block = b
    BY <2>1
  <2>3. /\ open /\ pc[Receiver] = "idle" /\ lock[b] = Nobody
        /\ lock' = [lock EXCEPT ![b] = Receiver]
        /\ pc' = [pc EXCEPT ![Receiver] = "fill"] /\ frames' = frames + 1
        /\ UNCHANGED <<open, fgStatus, call, copies>>
    BY <1>1 DEF FillHead
  <2> USE <2>3 DEF copies
  <2>4. \A u \in User : pc[u] = "copying" => call[u].cmd # b
    BY DEF Sections
  <2>5. Shapes'
    <3>1. data' \in [Block -> Contents]
      BY <2>1 DEF Shapes, Contents
    <3>2. filling' \in [block : Block, value : Contents]
      BY <2>1
    <3>3. pc' \in [User \cup {Receiver} -> Labels]
      BY DEF Shapes, Labels
    <3>4. lock' \in [Block -> User \cup {Receiver, Nobody}] /\ frames' \in Nat
      BY DEF Shapes
    <3> QED BY <3>1, <3>2, <3>3, <3>4 DEF Shapes
  <2>6. CallsMatch' BY DEF CallsMatch, Shapes
  <2>7. Sections' BY <2>2, <2>4 DEF Sections, Shapes
  <2>8. HalfWay' BY <2>1 DEF HalfWay, Filling, Shapes, Sections, Contents
  <2>9. Current'
    <3>1. ASSUME NEW c \in Block, c # b PROVE data'[c] = data[c] /\ (Filling(c)' <=> FALSE)
      BY <2>1, <2>2, <3>1 DEF Shapes, Filling
    <3>2. Filling(b)' /\ \A c \in Block : ~Filling(c)
      BY <2>2 DEF Shapes, Filling, Sections
    <3>3. \A u \in User : pc'[u] = pc[u]
      BY DEF Shapes
    <3> QED BY <2>4, <3>1, <3>2, <3>3 DEF Current, CallsMatch
  <2>10. Untorn' BY DEF Untorn, Shapes
  <2> QED BY <2>5, <2>6, <2>7, <2>8, <2>9, <2>10
<1>2. CASE FillTail
  <2> DEFINE b == filling.block
  <2>1. b \in Block /\ lock[b] = Receiver /\ filling.value \in Contents /\ Filling(b)
    BY <1>2 DEF Shapes, Sections, FillTail, Filling
  <2>2. /\ lock' = [lock EXCEPT ![b] = Nobody] /\ pc' = [pc EXCEPT ![Receiver] = "idle"]
        /\ held' = [u \in User |-> IF u \in Copying(b) THEN held[u] \cup {filling.value}
                                                       ELSE held[u]]
        /\ UNCHANGED <<open, fgStatus, filling, call, seen, exposed, frames>>
    BY <1>2 DEF FillTail, bounds, Holds
  <2>3. data' = [data EXCEPT ![b] = filling.value]
    <3>1. data[b] \in Contents /\ data[b].head = filling.value.head
      BY <2>1 DEF HalfWay, Shapes
    <3>2. data' = [data EXCEPT ![b] = [data[b] EXCEPT !.tail = filling.value.tail]]
      BY <1>2 DEF FillTail
    <3>3. [data[b] EXCEPT !.tail = filling.value.tail] = filling.value
      BY <2>1, <3>1 DEF Contents
    <3> QED BY <3>2, <3>3
  <2>4. Shapes' BY <2>1, <2>2, <2>3 DEF Shapes, Labels
  <2>5. CallsMatch' BY <2>2 DEF CallsMatch, Shapes
  <2>6. Sections' BY <2>1, <2>2 DEF Sections, Shapes
  <2>7. HalfWay' BY <2>2 DEF HalfWay, Filling, Shapes
  <2>8. Current'
    <3>1. ASSUME NEW c \in Block, c # b PROVE data'[c] = data[c] /\ ~Filling(c)
      BY <2>3, <3>1 DEF Filling
    <3>2. data'[b] = filling.value
      BY <2>1, <2>3 DEF Shapes
    <3>3. \A u \in User : pc'[u] = pc[u] /\ (pc[u] = "copying" => call[u].cmd # b)
      BY <2>1, <2>2 DEF Shapes, Sections
    <3> QED BY <2>1, <2>2, <3>1, <3>2, <3>3 DEF Current, CallsMatch, Copying
  <2>9. Untorn' BY <2>1, <2>2 DEF Untorn, Shapes
  <2> QED BY <2>4, <2>5, <2>6, <2>7, <2>8, <2>9
<1> QED BY <1>1, <1>2

\* The end of a link exposes whoever is copying the status block.
LEMMA ClosingKeeps ==
  ASSUME HubAssumption, Inductive, NEW u \in User, Close(u) \/ FreeStatus(u)
  PROVE  Inductive'
<1> USE HubAssumption DEF Inductive, Goto
<1>1. CASE Close(u)
  <2> USE <1>1 DEF Close, memory, copies, bounds
  <2>1. Shapes' BY DEF Shapes, Labels, Contents
  <2>2. CallsMatch' BY DEF CallsMatch, Shapes
  <2>3. Sections' BY DEF Sections, Shapes
  <2>4. HalfWay' BY DEF HalfWay, Filling
  <2>5. Current' BY DEF Current, Filling, Shapes
  <2>6. Untorn' BY DEF Untorn, Shapes
  <2> QED BY <2>1, <2>2, <2>3, <2>4, <2>5, <2>6
<1>2. CASE FreeStatus(u)
  <2> USE <1>2 DEF FreeStatus, bounds
  <2>1. Shapes' BY DEF Shapes, Labels, Contents
  <2>2. CallsMatch' BY DEF CallsMatch, Shapes
  <2>3. Sections' BY DEF Sections, Shapes
  <2>4. HalfWay' BY DEF HalfWay, Filling
  <2>5. Current' BY DEF Current, Filling, Shapes, Copying
  <2>6. Untorn' BY DEF Untorn, Shapes, CallsMatch
  <2> QED BY <2>1, <2>2, <2>3, <2>4, <2>5, <2>6
<1> QED BY <1>1, <1>2

\* The next link clears the telemetry and exposes whoever is copying it; nobody who is
\* not exposed has a status block by then.
LEMMA ReopenKeeps == ASSUME HubAssumption, Inductive, Reopen PROVE Inductive'
<1> USE HubAssumption DEF Inductive, Reopen
<1>1. Shapes' BY DEF Shapes, Contents, Zeros
<1>2. CallsMatch' BY DEF CallsMatch
<1>3. Sections' BY DEF Sections
<1>4. HalfWay' BY DEF HalfWay, Filling, Zeros, Sections, Shapes
<1>5. \A u \in User \ exposed' : pc[u] \notin {"copy", "copying"}
  BY DEF Current, Filling, Copying, CallsMatch, Block
<1>6. Current' BY <1>5 DEF Current, Filling
<1>7. Untorn' BY DEF Untorn
<1> QED BY <1>1, <1>2, <1>3, <1>4, <1>6, <1>7

\* A part of the status is cleared when nobody copies the block and the receiver is not
\* half way through it.
LEMMA CountKeeps ==
  ASSUME HubAssumption, Inductive, NEW u \in User, ResetCount(u) \/ ZeroCount(u)
  PROVE  Inductive'
<1> USE HubAssumption DEF Inductive, Goto, Block
<1>1. CASE ResetCount(u)
  <2> USE <1>1 DEF ResetCount, Call, memory, copies
  <2>1. Shapes' BY DEF Shapes, Labels, Contents
  <2>2. CallsMatch' BY DEF CallsMatch, Shapes
  <2>3. Sections' BY DEF Sections, Shapes
  <2>4. HalfWay' BY DEF HalfWay, Filling
  <2>5. Current' BY DEF Current, Filling, Shapes
  <2>6. Untorn' BY DEF Untorn, Shapes
  <2> QED BY <2>1, <2>2, <2>3, <2>4, <2>5, <2>6
<1>2. CASE ZeroCount(u)
  <2> USE <1>2 DEF ZeroCount, bounds
  <2>1. PICK content \in Contents :
          \/ /\ data' = [data EXCEPT !["status"] = content]
             /\ Holds("status", content)
          \/ UNCHANGED <<data, held>>
    BY DEF Shapes, Contents
  <2>2. \A v \in User : pc[v] = "copying" => call[v].cmd # "status"
    BY DEF Sections
  <2>3. ~Filling("status")
    BY DEF Sections, Filling
  <2>4. Shapes' BY <2>1 DEF Shapes, Labels, Holds
  <2>5. CallsMatch' BY DEF CallsMatch, Shapes
  <2>6. Sections' BY DEF Sections, Shapes
  <2>7. HalfWay' BY <2>1, <2>3 DEF HalfWay, Filling, Shapes
  <2>8. Current' BY <2>1, <2>2, <2>3 DEF Current, Filling, Holds, Copying, Shapes, CallsMatch
  <2>9. Untorn' BY <2>1 DEF Untorn, Holds, Copying, Shapes, CallsMatch
  <2> QED BY <2>4, <2>5, <2>6, <2>7, <2>8, <2>9
<1> QED BY <1>1, <1>2

\* Every step keeps the invariant.
LEMMA StepKeeps == ASSUME HubAssumption PROVE Inductive /\ [Next]_vars => Inductive'
<1> SUFFICES ASSUME HubAssumption, Inductive, [Next]_vars PROVE Inductive'
  OBVIOUS
<1>1. ASSUME NEW u \in User,
             \/ Give(u) \/ DisplayText(u) \/ SetVolume(u) \/ PlayTone(u) \/ StopTone(u)
             \/ ShutDown(u)
      PROVE  Inductive'
  <2>1. CASE Give(u)
    BY <2>1, StartKeeps, CommandsAreNoBlocks DEF Give
  <2>2. CASE DisplayText(u)
    BY <2>2, StartKeeps, CommandsAreNoBlocks DEF DisplayText
  <2>3. CASE SetVolume(u)
    BY <2>3, StartKeeps DEF SetVolume, Block
  <2>4. CASE PlayTone(u)
    BY <2>4, StartKeeps DEF PlayTone, Block
  <2>5. CASE StopTone(u)
    BY <2>5, StartKeeps DEF StopTone, Block
  <2>6. CASE ShutDown(u)
    BY <2>6, StartKeeps DEF ShutDown, Block
  <2> QED BY <1>1, <2>1, <2>2, <2>3, <2>4, <2>5, <2>6
<1>2. CASE HubExecute \/ LoseFrame \/ UNCHANGED vars
  <2> USE <1>2 DEF HubExecute, LoseFrame, Inductive, vars, memory, copies, bounds
  <2>1. Shapes' BY DEF Shapes
  <2>2. CallsMatch' BY DEF CallsMatch
  <2>3. Sections' BY DEF Sections
  <2>4. HalfWay' BY DEF HalfWay, Filling
  <2>5. Current' BY DEF Current, Filling
  <2>6. Untorn' BY DEF Untorn
  <2> QED BY <2>1, <2>2, <2>3, <2>4, <2>5, <2>6
<1> QED
  BY <1>1, <1>2, SendingKeeps, ReadingKeeps, CopyHeadKeeps, CopyTailKeeps, FillingKeeps, CountKeeps,
     ClosingKeeps, ReopenKeeps DEF Next

\* What a getter returns of the status block or of the telemetry is what the block held, as
\* a whole, at one moment of the call, unless the block was freed or cleared during the
\* call: the mutex of the block (raspike_prot_lock_status, fgRuntimeTelemetryMutex) covers
\* both copies whole, every write of the receiver, also that of DRIVE_TELEMETRY into parts
\* of the block, and the write of pup_motor_reset_count.
THEOREM SnapshotsUntorn == Spec => []Untorn
<1>1. Init => Inductive
  BY HubAssumption, Initially
<1>2. Inductive /\ [Next]_vars => Inductive'
  BY HubAssumption, StepKeeps
<1>3. Inductive => Untorn
  BY DEF Inductive
<1> QED BY <1>1, <1>2, <1>3, PTL DEF Spec

-----------------------------------------------------------------------------
(* Payloads and tones. *)

Sounds == {"HUB_SPK_PLY_TON", "HUB_SPK_STP"}

Names == {c[1] : c \in Commands} \cup DOMAIN PREFIX \cup Sounds \cup Block
         \cup {"HUB_SPK_SET_VOL", "SHT_DWN", "MOT_RST", "none"}
Calls == [cmd : Names, size : 0..MAX_PAYLOAD, value : Int, tone : Nat]
Numbered == [head : 0..MaxFrames, tail : 0..MaxFrames]

\* A volume is clamped, a tone has a duration or none, a stop is nothing but a stop.
Valued(c) ==
  /\ c.cmd = "HUB_SPK_SET_VOL" => c.value \in 0..100
  /\ c.cmd = "HUB_SPK_PLY_TON" => c.value \in Nat \cup {SOUND_MANUAL_STOP}
  /\ c.cmd = "HUB_SPK_STP" => c.value = 0

Labelled ==
  /\ pc \in [User \cup {Receiver} -> Labels]
  /\ call \in [User -> Calls] /\ \A u \in User : Valued(call[u])
  /\ toHub \in Seq(Calls) /\ \A i \in 1..Len(toHub) : Valued(toHub[i])
  /\ hub \in [tone : Nat, volume : 0..100]
  /\ filling \in [block : Block, value : Numbered]
  /\ calls \in Nat /\ frames \in Nat /\ frames <= MaxFrames /\ links \in Nat /\ links <= MaxLinks

Bounded == TypeOK /\ Labelled

\* Where the frames are that are on their way; those that play this tone, or stop it; and
\* the users who are about to end it.
Way         == 1..Len(toHub)
Plays(t, i) == toHub[i].cmd = "HUB_SPK_PLY_TON" /\ toHub[i].tone = t
Stops(t, i) == toHub[i].cmd = "HUB_SPK_STP" /\ toHub[i].tone = t
Ends(u, t)  == /\ call[u].tone = t
               /\ pc[u] = "play" \/ (pc[u] = "send" /\ call[u].cmd = "HUB_SPK_STP")

\* A tone on its way, or one that is played, is followed by its stop.
Followed(t) ==
  /\ \A i \in Way : Plays(t, i) => \E j \in Way : j > i /\ Stops(t, j)
  /\ hub.tone = t => \E j \in Way : Stops(t, j)

\* A tone that has an end and loses no stop is followed by it, or will be.
Tones == \A t \in Nat \ ({0} \cup endless \cup unstopped) :
  (\E u \in User : Ends(u, t)) \/ Followed(t)

-----------------------------------------------------------------------------

\* The commands that are sent and forgotten are no sounds and no volumes, and fit a frame.
LEMMA CommandsAreSmall == \A c \in Commands :
  c[1] \in Names \ (Sounds \cup {"HUB_SPK_SET_VOL"}) /\ c[2] \in 0..MAX_PAYLOAD
<1> SUFFICES ASSUME NEW c \in Commands
             PROVE  /\ c[1] \notin Sounds \cup {"HUB_SPK_SET_VOL"}
                    /\ c[2] \in 0..MAX_PAYLOAD
  BY DEF Names
<1>1. c[1] \in {"HUB_DISP_ORI", "HUB_DISP_OFF", "HUB_DISP_PIX", "HUB_DISP_IMG",
                "HUB_DISP_NUM", "HUB_DISP_CHR", "HUB_IMU_SET_TLT", "HUB_IMU_RST_HDG",
                "HUB_LGT_ON_HSV", "HUB_LGT_ON_COL", "HUB_LGT_OFF", "COL_LIGHT_ON",
                "COL_LIGHT_OFF", "US_LGT_SET", "US_LGT_ON", "US_LGT_OFF",
                "DRIVE_COMMAND"}
  BY DEF Commands, DisplayCommands, ImuCommands, LightCommands, ColorCommands,
         UltrasonicCommands, DriveCommands
<1>2. c[2] \in {0, 1, 3, 4, 16, 25, 36}
  BY DEF Commands, DisplayCommands, ImuCommands, LightCommands, ColorCommands,
         UltrasonicCommands, DriveCommands
<1>3. c[2] \in 0..MAX_PAYLOAD
  BY <1>2 DEF MAX_PAYLOAD
<1> QED BY <1>1, <1>3 DEF Sounds

\* A text that is sent fits a frame with its prefix and its terminating 0.
LEMMA TextsFit ==
  ASSUME NEW cmd \in DOMAIN PREFIX, NEW length \in Nat, Fits(cmd, length)
  PROVE  /\ cmd \in Names \ (Sounds \cup {"HUB_SPK_SET_VOL"})
         /\ PREFIX[cmd] + length + 1 \in 0..MAX_PAYLOAD
<1>1. PREFIX[cmd] \in {4, 8} /\ cmd \in {"HUB_DISP_TXT", "HUB_DISP_TXT_SCR"}
  BY DEF PREFIX
<1> QED BY <1>1 DEF Fits, MAX_PAYLOAD, Names, Sounds

\* Every call that a user begins is one of these, with a size and an argument in range.
LEMMA Starts ==
  ASSUME HubAssumption, NEW u \in User,
         \/ Give(u) \/ DisplayText(u) \/ SetVolume(u) \/ PlayTone(u) \/ StopTone(u)
         \/ ShutDown(u)
  PROVE  \E cmd \in Names, size \in 0..MAX_PAYLOAD, value \in Int :
           Valued(Call(cmd, size, value)) /\ Start(u, cmd, size, value)
<1> USE DEF Valued, Call
<1>1. CASE Give(u)
  <2>1. PICK c \in Commands : Start(u, c[1], c[2], 0)
    BY <1>1 DEF Give
  <2> QED BY <2>1, CommandsAreSmall DEF Sounds
<1>2. CASE DisplayText(u)
  <2>1. PICK cmd \in DOMAIN PREFIX, length \in TextLength :
          Fits(cmd, length) /\ Start(u, cmd, PREFIX[cmd] + length + 1, length)
    BY <1>2 DEF DisplayText
  <2>2. length \in Nat
    BY HubAssumption DEF HubAssumption
  <2> QED BY <2>1, <2>2, TextsFit DEF Sounds
<1>3. CASE SetVolume(u)
  <2>1. PICK volume \in Volume :
          Start(u, "HUB_SPK_SET_VOL", 1, IF volume > 100 THEN 100 ELSE volume)
    BY <1>3 DEF SetVolume
  <2>2. (IF volume > 100 THEN 100 ELSE volume) \in 0..100
    BY HubAssumption DEF HubAssumption
  <2>3. "HUB_SPK_SET_VOL" \in Names /\ 1 \in 0..MAX_PAYLOAD
    BY DEF Names, MAX_PAYLOAD
  <2> DEFINE level == IF volume > 100 THEN 100 ELSE volume
  <2>4. level \in 0..100 /\ level \in Int
    BY <2>2
  <2>5. Start(u, "HUB_SPK_SET_VOL", 1, level)
    BY <2>1
  <2> HIDE DEF level
  <2> QED BY <2>3, <2>4, <2>5
<1>4. CASE PlayTone(u)
  <2>1. PICK duration \in Duration \cup {SOUND_MANUAL_STOP} :
          Start(u, "HUB_SPK_PLY_TON", 6, duration)
    BY <1>4 DEF PlayTone
  <2>2. duration \in Nat \cup {SOUND_MANUAL_STOP} /\ duration \in Int
    BY HubAssumption DEF HubAssumption, SOUND_MANUAL_STOP
  <2>3. "HUB_SPK_PLY_TON" \in Names /\ 6 \in 0..MAX_PAYLOAD
    BY DEF Names, Sounds, MAX_PAYLOAD
  <2> QED BY <2>1, <2>2, <2>3
<1>a. "HUB_SPK_STP" \in Names /\ "SHT_DWN" \in Names /\ 0 \in 0..MAX_PAYLOAD
  BY DEF Names, Sounds, MAX_PAYLOAD
<1>5. CASE StopTone(u)
  BY <1>5, <1>a DEF StopTone
<1>6. CASE ShutDown(u)
  BY <1>6, <1>a DEF ShutDown
<1> QED BY <1>1, <1>2, <1>3, <1>4, <1>5, <1>6

\* The first state is in bounds, and the hub is silent.
LEMMA BoundedInitially == ASSUME HubAssumption PROVE Init => Bounded /\ Tones
<1> SUFFICES ASSUME Init PROVE Bounded /\ Tones
  OBVIOUS
<1> USE HubAssumption DEF Init, HubAssumption
<1>1. TypeOK
  BY DEF TypeOK, Block, Zeros
<1>2. Labelled
  <2> DEFINE none == [cmd |-> "none", size |-> 0, value |-> 0, tone |-> 0]
  <2>1. none \in Calls /\ Valued(none)
    BY DEF Calls, Names, MAX_PAYLOAD, Valued
  <2>2. filling \in [block : Block, value : Numbered]
    BY DEF Block, Numbered, Zeros
  <2> QED BY <2>1, <2>2 DEF Labelled, Labels
<1>3. Tones
  BY DEF Tones, Followed, Way
<1> QED BY <1>1, <1>2, <1>3 DEF Bounded

\* A call that begins is in bounds.
LEMMA BoundedStart ==
  ASSUME HubAssumption, Bounded, NEW u \in User, NEW cmd \in Names,
         NEW size \in 0..MAX_PAYLOAD, NEW value \in Int,
         Valued(Call(cmd, size, value)), Start(u, cmd, size, value)
  PROVE  Bounded'
<1> USE HubAssumption DEF Start, Goto, memory, wire, vars, Bounded
<1>1. Call(cmd, size, value) \in Calls
  BY DEF Calls, Call, Labelled
<1>2. Labelled'
  BY <1>1 DEF Labelled, Labels
<1>3. TypeOK'
  <2>1. Call(cmd, size, value).size = size
    BY DEF Call
  <2> QED BY <2>1 DEF TypeOK, Labelled
<1> QED BY <1>2, <1>3

\* A tone that comes to its end is followed by a stop.
LEMMA BoundedEnd ==
  ASSUME HubAssumption, Bounded, NEW u \in User, EndTone(u)
  PROVE  Bounded'
<1> USE HubAssumption DEF EndTone, Goto, memory, wire, bounds, Bounded
<1> DEFINE stop == [cmd |-> "HUB_SPK_STP", size |-> 0, value |-> 0, tone |-> call[u].tone]
<1>1. stop \in Calls /\ Valued(stop)
  BY DEF Calls, Names, Sounds, MAX_PAYLOAD, Valued, Labelled
<1>2. Labelled'
  BY <1>1 DEF Labelled, Labels
<1>3. TypeOK'
  BY DEF TypeOK, Labelled, MAX_PAYLOAD
<1> QED BY <1>2, <1>3

\* Sending puts the call of the user on the way, if there is room.
LEMMA BoundedSend ==
  ASSUME HubAssumption, Bounded, NEW u \in User, Send(u) \/ SendFails(u)
  PROVE  Bounded'
<1> USE HubAssumption DEF Bounded
<1>1. PICK label \in {"idle", "play", "close"} : pc' = [pc EXCEPT ![u] = label]
  BY DEF Send, SendFails, Goto, After, PlaysOn
<1>2. /\ UNCHANGED <<open, memory, filling, call, hub, calls, frames, links>>
      /\ \/ toHub' = Append(toHub, call[u]) /\ Len(toHub) < LinkCapacity
         \/ toHub' = toHub
  BY DEF Send, SendFails, bounds
<1>3. /\ call[u] \in Calls /\ Valued(call[u])
      /\ toHub \in Seq(Calls) /\ \A i \in 1..Len(toHub) : Valued(toHub[i])
  BY DEF Labelled
<1>4. /\ toHub' \in Seq(Calls) /\ Len(toHub') <= LinkCapacity
      /\ \A i \in 1..Len(toHub') : Valued(toHub'[i])
  <2>1. CASE toHub' = Append(toHub, call[u]) /\ Len(toHub) < LinkCapacity
    <3>1. /\ toHub' \in Seq(Calls) /\ Len(toHub') = Len(toHub) + 1
          /\ \A i \in 1..Len(toHub') :
               toHub'[i] = IF i <= Len(toHub) THEN toHub[i] ELSE call[u]
      BY <1>3, <2>1
    <3> QED BY <1>3, <2>1, <3>1 DEF HubAssumption
  <2>2. CASE toHub' = toHub
    BY <1>3, <2>2 DEF TypeOK
  <2> QED BY <1>2, <2>1, <2>2
<1>5. Labelled'
  BY <1>1, <1>2, <1>4 DEF Labelled, Labels
<1>6. TypeOK'
  BY <1>1, <1>2, <1>4 DEF TypeOK, Labelled, memory
<1> QED BY <1>5, <1>6

\* The hub takes what is first on the way, or it is lost.
LEMMA BoundedExecute ==
  ASSUME HubAssumption, Bounded, HubExecute \/ LoseFrame PROVE Bounded'
<1> USE HubAssumption DEF Bounded
<1>1. /\ toHub \in Seq(Calls) /\ toHub # <<>>
      /\ \A i \in 1..Len(toHub) : Valued(toHub[i])
  BY DEF Labelled, HubExecute, LoseFrame
<1>2. /\ toHub' \in Seq(Calls) /\ Len(toHub') = Len(toHub) - 1
      /\ \A i \in 1..Len(toHub') : toHub'[i] = toHub[i + 1]
  <2>1. toHub' = Tail(toHub)
    BY DEF HubExecute, LoseFrame
  <2> QED BY <1>1, <2>1
<1>3. Valued(Head(toHub)) /\ Head(toHub) \in Calls /\ Len(toHub) \in Nat \ {0}
  BY <1>1
<1>4. hub' \in [tone : Nat, volume : 0..100]
  <2>1. hub \in [tone : Nat, volume : 0..100]
    BY DEF Labelled
  <2>2. PICK frame \in Calls : frame = Head(toHub) /\ Valued(frame)
    BY <1>3
  <2>3. CASE HubExecute
    BY <2>1, <2>2, <2>3 DEF HubExecute, Valued, Calls
  <2>4. CASE LoseFrame
    BY <2>1, <2>4 DEF LoseFrame
  <2> QED BY <2>3, <2>4
<1>5. UNCHANGED <<open, memory, filling, pc, call, calls, frames, links>>
  BY DEF HubExecute, LoseFrame, bounds
<1>6. \A i \in 1..Len(toHub') : Valued(toHub'[i])
  BY <1>1, <1>2, <1>3
<1>7. Labelled'
  BY <1>2, <1>4, <1>5, <1>6 DEF Labelled
<1>8. TypeOK'
  <2>1. Len(toHub') <= LinkCapacity
    BY <1>2, <1>3 DEF TypeOK, HubAssumption
  <2>2. hub'.volume \in 0..100
    BY <1>4
  <2> QED BY <1>5, <2>1, <2>2 DEF TypeOK, memory
<1> QED BY <1>7, <1>8

\* A read of a block is in bounds, and takes the mutex of that block.
LEMMA BoundedRead ==
  ASSUME HubAssumption, Inductive, Bounded, NEW u \in User,
         \/ ReadStatus(u) \/ ReadTelemetry(u) \/ ReadNothing(u)
         \/ CopyHead(u) \/ CopyTail(u)
  PROVE  Bounded'
<1> USE HubAssumption DEF Bounded, Goto, memory, wire, bounds
<1>1. CASE ReadStatus(u) \/ ReadTelemetry(u) \/ ReadNothing(u)
  <2>1. PICK b \in Block, value \in Int, label \in {"copy", "idle"} :
          /\ call' = [call EXCEPT ![u] = Call(b, 0, value)]
          /\ pc' = [pc EXCEPT ![u] = label]
          /\ calls' = calls + 1
          /\ UNCHANGED <<open, memory, filling, wire, frames, links>>
    <3>1. fgStatus \in Int
      BY DEF TypeOK, HubAssumption
    <3>2. CASE ReadStatus(u)
      BY <3>1, <3>2 DEF ReadStatus, LookUp, Block
    <3>3. CASE ReadTelemetry(u)
      BY <3>1, <3>3 DEF ReadTelemetry, LookUp, Block
    <3>4. CASE ReadNothing(u)
      <4>1. pc' = [pc EXCEPT ![u] = "idle"]
        BY <3>4 DEF ReadNothing, Labelled
      <4>2. /\ call' = [call EXCEPT ![u] = Call("status", 0, 0)]
            /\ calls' = calls + 1
            /\ UNCHANGED <<open, memory, filling, wire, frames, links>>
        BY <3>4 DEF ReadNothing
      <4>3. "status" \in Block
        BY DEF Block
      <4>4. 0 \in Int /\ "idle" \in {"copy", "idle"}
        OBVIOUS
      <4> QED BY <4>1, <4>2, <4>3, <4>4, Zenon
    <3> QED BY <1>1, <3>2, <3>3, <3>4
  <2>2. Call(b, 0, value) \in Calls /\ Valued(Call(b, 0, value))
    BY DEF Call, Calls, Names, Block, MAX_PAYLOAD, Valued
  <2>3. Labelled'
    BY <2>1, <2>2 DEF Labelled, Labels
  <2>4. TypeOK'
    BY <2>1 DEF TypeOK, Labelled
  <2> QED BY <2>3, <2>4
<1>2. CASE CopyHead(u) \/ CopyTail(u)
  <2>1. PICK b \in Block, owner \in User \cup {Receiver, Nobody},
             label \in {"copying", "idle"} :
          /\ lock' = [lock EXCEPT ![b] = owner]
          /\ pc' = [pc EXCEPT ![u] = label]
          /\ UNCHANGED <<open, fgStatus, data, filling, call, wire, bounds>>
    BY <1>2 DEF CopyHead, CopyTail, Acquire, Inductive, CallsMatch
  <2>2. Labelled'
    BY <2>1 DEF Labelled, Labels
  <2>3. TypeOK'
    BY <2>1 DEF TypeOK, Labelled
  <2> QED BY <2>2, <2>3
<1> QED BY <1>1, <1>2

\* So is what the receiver fills in.
LEMMA BoundedFill ==
  ASSUME HubAssumption, Bounded, FillTail \/ \E b \in Block : FillHead(b)
  PROVE  Bounded'
<1> USE HubAssumption DEF Bounded, Goto, memory, wire, bounds
<1>1. ASSUME NEW b \in Block, FillHead(b) PROVE Bounded'
  <2>1. frames' = frames + 1 /\ frames < MaxFrames
    BY <1>1 DEF FillHead
  <2>2. PICK value \in Numbered :
          /\ filling' = [block |-> b, value |-> value]
          /\ data' = [data EXCEPT ![b].head = value.head]
    <3>1. frames + 1 \in 0..MaxFrames /\ 0 \in 0..MaxFrames
      BY <2>1 DEF Labelled, HubAssumption
    <3>2. PICK frame \in 0..MaxFrames : frame = frames + 1
      BY <3>1
    <3>3. PICK old \in Numbered : old = data[b]
      BY DEF TypeOK, Numbered
    <3>4. /\ Zeros \in Numbered /\ [head |-> frame, tail |-> frame] \in Numbered
          /\ [old EXCEPT !.head = frame] \in Numbered
          /\ [old EXCEPT !.tail = frame] \in Numbered
      BY <3>1 DEF Zeros, Numbered
    <3>5. Filled(b, frame) \subseteq Numbered
      BY <3>3, <3>4 DEF Filled
    <3>6. \E value \in Filled(b, frame) :
            /\ filling' = [block |-> b, value |-> value]
            /\ data' = [data EXCEPT ![b].head = value.head]
      BY <1>1, <3>2 DEF FillHead
    <3> QED BY <3>5, <3>6
  <2>3. frames' \in Nat /\ frames' <= MaxFrames
    BY <2>1 DEF Labelled, HubAssumption
  <2>4. Labelled'
    <3>1. filling' \in [block : Block, value : Numbered]
      BY <2>2
    <3>2. pc' \in [User \cup {Receiver} -> Labels]
      BY <1>1 DEF FillHead, Labelled, Labels
    <3>3. UNCHANGED <<call, toHub, hub, calls, links>>
      BY <1>1 DEF FillHead
    <3> QED BY <2>3, <3>1, <3>2, <3>3 DEF Labelled
  <2>5. data' \in [Block -> [head : 0..MaxFrames, tail : 0..MaxFrames]]
    BY <2>2 DEF TypeOK, Numbered
  <2>6. lock' \in [Block -> User \cup {Receiver, Nobody}]
    BY <1>1 DEF TypeOK, FillHead
  <2>7. \A u \in User : pc'[u] = "send" => pc[u] = "send"
    BY <1>1 DEF FillHead, Labelled
  <2>8. TypeOK'
    BY <1>1, <2>5, <2>6, <2>7 DEF TypeOK, FillHead
  <2> QED BY <2>4, <2>8
<1>2. CASE FillTail
  <2>1. filling.block \in Block /\ filling.value.tail \in 0..MaxFrames
    BY DEF Labelled, Numbered
  <2>2. Labelled'
    BY <1>2 DEF Labelled, Labels, FillTail
  <2>3. data' \in [Block -> [head : 0..MaxFrames, tail : 0..MaxFrames]]
    BY <1>2, <2>1 DEF TypeOK, FillTail
  <2>4. lock' \in [Block -> User \cup {Receiver, Nobody}]
    BY <1>2 DEF TypeOK, FillTail
  <2>5. \A u \in User : pc'[u] = "send" => pc[u] = "send"
    BY <1>2 DEF FillTail, Labelled
  <2>6. TypeOK'
    BY <1>2, <2>3, <2>4, <2>5 DEF TypeOK, FillTail
  <2> QED BY <2>2, <2>6
<1> QED BY <1>1, <1>2

\* And what a user clears.
LEMMA BoundedCount ==
  ASSUME HubAssumption, Bounded, NEW u \in User, ResetCount(u) \/ ZeroCount(u)
  PROVE  Bounded'
<1> USE HubAssumption DEF Bounded, Goto, memory, wire, bounds
<1>1. CASE ResetCount(u)
  <2>1. fgStatus \in Int
    BY DEF TypeOK, HubAssumption
  <2>2. Call("MOT_RST", 0, fgStatus) \in Calls /\ Valued(Call("MOT_RST", 0, fgStatus))
    BY <2>1 DEF Call, Calls, Names, MAX_PAYLOAD, Valued, Labelled
  <2>3. Labelled'
    BY <1>1, <2>2 DEF ResetCount, Labelled, Labels
  <2>4. TypeOK'
    BY <1>1 DEF ResetCount, TypeOK, Labelled
  <2> QED BY <2>3, <2>4
<1>2. CASE ZeroCount(u)
  <2>1. data' \in [Block -> [head : 0..MaxFrames, tail : 0..MaxFrames]]
    BY <1>2 DEF ZeroCount, TypeOK, Block, HubAssumption
  <2>2. Labelled'
    BY <1>2 DEF ZeroCount, Labelled, Labels
  <2>3. TypeOK'
    BY <1>2, <2>1 DEF ZeroCount, TypeOK, Labelled
  <2> QED BY <2>2, <2>3
<1> QED BY <1>1, <1>2

\* And the link that ends, and the next one.
LEMMA BoundedLink ==
  ASSUME HubAssumption, Bounded, Reopen \/ \E u \in User : Close(u) \/ FreeStatus(u)
  PROVE  Bounded'
<1> USE HubAssumption DEF Bounded, Goto, memory, wire, bounds
<1>1. ASSUME NEW u \in User, Close(u) \/ FreeStatus(u) PROVE Bounded'
  <2>1. PICK label \in {"free", "idle"} : pc' = [pc EXCEPT ![u] = label]
    BY <1>1 DEF Close, FreeStatus
  <2>2. /\ fgStatus' \in {0, fgStatus} /\ open' \in {open, FALSE}
        /\ UNCHANGED <<data, lock, filling, call, wire, bounds>>
    BY <1>1 DEF Close, FreeStatus
  <2>3. Labelled'
    BY <2>1, <2>2 DEF Labelled, Labels
  <2>4. open' \in BOOLEAN
    BY <2>2, Zenon DEF TypeOK
  <2>5. TypeOK'
    BY <2>1, <2>2, <2>4 DEF TypeOK, Labelled, HubAssumption
  <2> QED BY <2>3, <2>5
<1>2. CASE Reopen
  <2>1. links' \in Nat /\ links' <= MaxLinks /\ fgStatus' \in 0..MaxLinks
    BY <1>2 DEF Reopen, Labelled, HubAssumption
  <2>2. Labelled'
    BY <1>2, <2>1 DEF Labelled, Reopen
  <2>3. data' \in [Block -> [head : 0..MaxFrames, tail : 0..MaxFrames]]
    BY <1>2 DEF Reopen, Zeros, HubAssumption
  <2>4. TypeOK'
    BY <1>2, <2>1, <2>3 DEF TypeOK, Reopen
  <2> QED BY <2>2, <2>4
<1> QED BY <1>1, <1>2

\* Every step stays in bounds.
LEMMA StaysBounded ==
  ASSUME HubAssumption PROVE Inductive /\ Bounded /\ [Next]_vars => Bounded'
<1> SUFFICES ASSUME Inductive, Bounded, [Next]_vars PROVE Bounded'
  OBVIOUS
<1>1. CASE UNCHANGED vars
  <2>1. Labelled' = Labelled /\ TypeOK' = TypeOK
    BY <1>1 DEF vars, memory, wire, bounds, Labelled, TypeOK
  <2> QED BY <2>1 DEF Bounded
<1> QED
  BY <1>1, HubAssumption, Starts, BoundedStart, BoundedEnd, BoundedSend, BoundedExecute,
     BoundedRead, BoundedFill, BoundedCount, BoundedLink DEF Next

\* A step that sends nothing, and after which whoever was to end a tone still is, changes
\* nothing here.
LEMMA TonesUntouched ==
  ASSUME Tones, UNCHANGED wire,
         \A v \in User :
           pc[v] \in {"play", "send"} => pc'[v] = pc[v] /\ call'[v] = call[v]
  PROVE  Tones'
<1>1. ASSUME NEW t, NEW v \in User, Ends(v, t) PROVE Ends(v, t)'
  <2>1. pc[v] \in {"play", "send"}
    BY <1>1 DEF Ends
  <2>2. pc'[v] = pc[v] /\ call'[v] = call[v]
    BY <2>1, Zenon
  <2> QED BY <1>1, <2>2 DEF Ends
<1>2. \A t : Followed(t)' <=> Followed(t)
  BY DEF Followed, Way, Plays, Stops, wire
<1>3. endless' = endless /\ unstopped' = unstopped
  BY DEF wire
<1> QED BY <1>1, <1>2, <1>3 DEF Tones

\* A frame that is sent is the last one on the way.
LEMMA Sending ==
  ASSUME Bounded, NEW c, toHub' = Append(toHub, c)
  PROVE  /\ Way \subseteq Nat /\ Len(toHub) + 1 \in Way' /\ toHub'[Len(toHub) + 1] = c
         /\ \A i \in Way : i \in Way' /\ toHub'[i] = toHub[i] /\ Len(toHub) + 1 > i
         /\ \A i \in Way' : i \in Way \/ i = Len(toHub) + 1
<1>1. toHub \in Seq(Calls) /\ Len(toHub) \in Nat
  BY DEF Bounded, Labelled
<1>2. /\ Len(toHub') = Len(toHub) + 1
      /\ \A i \in 1..Len(toHub) : toHub'[i] = toHub[i]
      /\ toHub'[Len(toHub) + 1] = c
  BY <1>1
<1> QED BY <1>1, <1>2 DEF Way

\* A frame of another tone, or of none, does not disturb a tone that is followed.
LEMMA OthersFollowed ==
  ASSUME Bounded, NEW c, NEW t, Followed(t), hub' = hub,
         toHub' = toHub \/ (toHub' = Append(toHub, c) /\ c.tone # t)
  PROVE  Followed(t)'
<1>1. CASE toHub' = toHub
  BY <1>1 DEF Followed, Way, Plays, Stops
<1>2. CASE toHub' = Append(toHub, c) /\ c.tone # t
  <2>1. \A i \in Way : (Plays(t, i)' <=> Plays(t, i)) /\ (Stops(t, i)' <=> Stops(t, i))
    BY <1>2, Sending DEF Plays, Stops
  <2>2. \A i \in Way' : Plays(t, i)' => i \in Way
    BY <1>2, Sending DEF Plays
  <2>3. \A i \in Way : i \in Way'
    BY <1>2, Sending
  <2> QED BY <2>1, <2>2, <2>3 DEF Followed
<1> QED BY <1>1, <1>2

\* A tone that is sent will be ended by its sender, or is to have no end; a stop that is
\* sent follows its tone.
LEMMA TonesSent ==
  ASSUME HubAssumption, Bounded, Tones, NEW u \in User, Send(u) PROVE Tones'
<1> SUFFICES ASSUME NEW t \in Nat \ ({0} \cup endless' \cup unstopped')
             PROVE  (\E v \in User : Ends(v, t)') \/ Followed(t)'
  BY DEF Tones
<1>1. /\ pc[u] = "send" /\ pc' = [pc EXCEPT ![u] = After(u, TRUE)] /\ call' = call
      /\ toHub' = Append(toHub, call[u]) /\ hub' = hub
  BY DEF Send, Goto
<1>2. /\ pc \in [User \cup {Receiver} -> Labels] /\ call[u] \in Calls /\ Valued(call[u])
  BY DEF Bounded, Labelled
<1>3. t \in Nat \ ({0} \cup endless \cup unstopped)
  BY DEF Send
<1>4. \A v \in User \ {u} : Ends(v, t) => Ends(v, t)'
  BY <1>1, <1>2 DEF Ends
<1>5. CASE call[u].tone # t
  <2>1. ~Ends(u, t)
    BY <1>5 DEF Ends
  <2>2. Followed(t) => Followed(t)'
    BY <1>1, <1>5, OthersFollowed
  <2> QED BY <1>3, <1>4, <2>1, <2>2 DEF Tones
<1>6. CASE call[u].tone = t /\ call[u].cmd = "HUB_SPK_PLY_TON"
  <2>1. call[u].value # SOUND_MANUAL_STOP
    BY <1>6 DEF Send
  <2>2. call[u].value >= 0
    BY <1>2, <1>6, <2>1 DEF Valued
  <2>3. pc'[u] = "play"
    BY <1>1, <1>2, <1>6, <2>2 DEF After, PlaysOn
  <2> QED BY <1>1, <1>6, <2>3 DEF Ends
<1>7. CASE call[u].tone = t /\ call[u].cmd = "HUB_SPK_STP"
  <2>1. PICK n : n = Len(toHub) + 1
    OBVIOUS
  <2>2. n \in Way' /\ Stops(t, n)'
    BY <1>1, <1>7, <2>1, Sending DEF Stops
  <2>3. \A i \in Way' : Plays(t, i)' => n > i
    BY <1>1, <1>7, <2>1, Sending DEF Plays
  <2> QED BY <2>2, <2>3 DEF Followed
<1>8. CASE call[u].tone = t /\ call[u].cmd \notin Sounds
  <2>1. ~Ends(u, t)
    BY <1>1, <1>8 DEF Ends, Sounds
  <2>2. \A i \in Way : (Plays(t, i)' <=> Plays(t, i)) /\ (Stops(t, i)' <=> Stops(t, i))
    BY <1>1, Sending DEF Plays, Stops
  <2>3. \A i \in Way' : Plays(t, i)' => i \in Way
    BY <1>1, <1>8, Sending DEF Plays, Sounds
  <2>4. \A i \in Way : i \in Way'
    BY <1>1, Sending
  <2>5. Followed(t) => Followed(t)'
    BY <1>1, <2>2, <2>3, <2>4 DEF Followed
  <2> QED BY <1>3, <1>4, <2>1, <2>5 DEF Tones
<1> QED BY <1>5, <1>6, <1>7, <1>8 DEF Sounds

\* The tone of a call that fails is remembered, whether or not its frame goes out; no other
\* tone is concerned.
LEMMA TonesUnsent ==
  ASSUME HubAssumption, Bounded, Tones, NEW u \in User, SendFails(u) PROVE Tones'
<1> SUFFICES ASSUME NEW t \in Nat \ ({0} \cup endless' \cup unstopped')
             PROVE  (\E v \in User : Ends(v, t)') \/ Followed(t)'
  BY DEF Tones
<1>1. PICK label : pc' = [pc EXCEPT ![u] = label]
  BY DEF SendFails, Goto
<1>2. /\ call' = call /\ hub' = hub
      /\ toHub' = toHub \/ toHub' = Append(toHub, call[u])
      /\ endless' = endless /\ unstopped' = unstopped \cup {call[u].tone}
  BY DEF SendFails
<1>3. pc \in [User \cup {Receiver} -> Labels]
  BY DEF Bounded, Labelled
<1>4. t \in Nat \ ({0} \cup endless \cup unstopped) /\ call[u].tone # t
  BY <1>2
<1>5. \A v \in User : Ends(v, t) => Ends(v, t)'
  BY <1>1, <1>2, <1>3, <1>4 DEF Ends
<1>6. Followed(t) => Followed(t)'
  BY <1>2, <1>4, OthersFollowed
<1> QED BY <1>4, <1>5, <1>6 DEF Tones

\* A stop that the hub executes, or that is lost, ends no tone but its own; a tone that is
\* executed has its stop behind it.
LEMMA TonesExecuted ==
  ASSUME HubAssumption, Bounded, Tones, HubExecute \/ LoseFrame PROVE Tones'
<1> SUFFICES ASSUME NEW t \in Nat \ ({0} \cup endless' \cup unstopped')
             PROVE  (\E v \in User : Ends(v, t)') \/ Followed(t)'
  BY DEF Tones
<1>1. toHub # <<>> /\ toHub' = Tail(toHub) /\ UNCHANGED <<pc, call>>
  BY DEF HubExecute, LoseFrame
<1>2. t \in Nat \ ({0} \cup endless \cup unstopped)
  BY DEF HubExecute, LoseFrame
<1>3. /\ 1 \in Way /\ Head(toHub) = toHub[1] /\ Way \subseteq Nat \ {0}
      /\ \A i \in Way' : i \in Nat \ {0} /\ i + 1 \in Way /\ toHub'[i] = toHub[i + 1]
      /\ \A i \in Way : i # 1 => i - 1 \in Way' /\ toHub'[i - 1] = toHub[i]
  <2>1. toHub \in Seq(Calls)
    BY DEF Bounded, Labelled
  <2>2. /\ Len(toHub) \in Nat \ {0} /\ Len(toHub') = Len(toHub) - 1
        /\ Head(toHub) = toHub[1] /\ \A i \in 1..Len(toHub') : toHub'[i] = toHub[i + 1]
    BY <1>1, <2>1
  <2> QED BY <2>2 DEF Way
<1>4. \A v \in User : Ends(v, t) => Ends(v, t)'
  BY <1>1 DEF Ends
<1>5. ASSUME Followed(t), NEW i \in Way', Plays(t, i)'
      PROVE  \E j \in Way' : j > i /\ Stops(t, j)'
  <2>1. PICK k : k = i + 1 /\ k \in Way /\ k \in Nat /\ k > 1 /\ Plays(t, k)
    BY <1>3, <1>5 DEF Plays
  <2>2. PICK j \in Way : j > k /\ Stops(t, j)
    BY <1>5, <2>1 DEF Followed
  <2>3. PICK m : m = j - 1 /\ m \in Way' /\ toHub'[m] = toHub[j] /\ m > i
    BY <1>3, <2>1, <2>2
  <2> QED BY <2>2, <2>3 DEF Stops
<1>6. ASSUME Followed(t), hub'.tone = t
      PROVE  \E j \in Way' : Stops(t, j)'
  <2>1. \E j \in Way : j # 1 /\ Stops(t, j)
    <3>1. hub \in [tone : Nat, volume : 0..100]
      BY DEF Bounded, Labelled
    <3>2. CASE HubExecute /\ Head(toHub).cmd = "HUB_SPK_PLY_TON"
      <4>1. hub'.tone = Head(toHub).tone
        BY <3>1, <3>2 DEF HubExecute
      <4>2. Plays(t, 1)
        BY <1>3, <1>6, <3>2, <4>1 DEF Plays
      <4>3. PICK j \in Way : j > 1 /\ Stops(t, j)
        BY <1>3, <1>6, <4>2 DEF Followed
      <4> QED BY <1>3, <4>3
    <3>3. CASE HubExecute /\ Head(toHub).cmd = "HUB_SPK_STP"
      <4>1. hub'.tone = 0
        BY <3>1, <3>3 DEF HubExecute
      <4> QED BY <1>6, <4>1
    <3>4. CASE HubExecute /\ Head(toHub).cmd \notin Sounds
      <4>1. hub'.tone = hub.tone
        BY <3>1, <3>4 DEF HubExecute, Sounds
      <4>2. PICK j \in Way : Stops(t, j)
        BY <1>6, <4>1 DEF Followed
      <4> QED BY <1>3, <3>4, <4>2 DEF Stops, Sounds
    <3>5. CASE LoseFrame
      <4>1. hub' = hub /\ ~Stops(t, 1)
        BY <1>3, <3>5 DEF LoseFrame, Stops
      <4>2. PICK j \in Way : Stops(t, j)
        BY <1>6, <4>1 DEF Followed
      <4> QED BY <4>1, <4>2
    <3> QED BY <3>2, <3>3, <3>4, <3>5 DEF Sounds
  <2>2. PICK j \in Way : j # 1 /\ Stops(t, j)
    BY <2>1
  <2>3. PICK m \in Way' : toHub'[m] = toHub[j]
    BY <1>3, <2>2
  <2> QED BY <2>2, <2>3 DEF Stops
<1>7. Followed(t) => Followed(t)'
  BY <1>5, <1>6 DEF Followed
<1> QED BY <1>2, <1>4, <1>7 DEF Tones

\* A sleep that is over becomes a stop of the same tone.
LEMMA TonesEnded ==
  ASSUME HubAssumption, Bounded, Tones, NEW u \in User, EndTone(u) PROVE Tones'
<1>1. \A t : \A v \in User : Ends(v, t) => Ends(v, t)'
  BY DEF EndTone, Goto, Ends, Bounded, Labelled
<1>2. UNCHANGED <<toHub, hub, endless, unstopped>>
  BY DEF EndTone, wire
<1>3. \A t : Followed(t)' <=> Followed(t)
  BY <1>2 DEF Followed, Way, Plays, Stops
<1> QED BY <1>1, <1>2, <1>3 DEF Tones

\* Every step keeps what is said of the tones.
LEMMA StaysFollowed ==
  ASSUME HubAssumption
  PROVE  Inductive /\ Bounded /\ Tones /\ [Next]_vars => Tones'
<1> SUFFICES ASSUME Inductive, Bounded, Tones, [Next]_vars PROVE Tones'
  OBVIOUS
<1> USE HubAssumption
<1>1. pc \in [User \cup {Receiver} -> Labels] /\ DOMAIN call = User
  BY DEF Bounded, Labelled
<1>2. ASSUME NEW u \in User, NEW label, NEW c, pc[u] \notin {"play", "send"},
             pc' \in {pc, [pc EXCEPT ![u] = label]},
             call' \in {call, [call EXCEPT ![u] = c]}, UNCHANGED wire
      PROVE  Tones'
  BY <1>1, <1>2, TonesUntouched
<1>3. ASSUME NEW u \in User,
             \/ Give(u) \/ DisplayText(u) \/ SetVolume(u) \/ PlayTone(u) \/ StopTone(u)
             \/ ShutDown(u)
      PROVE  Tones'
  <2>1. PICK cmd \in Names, size \in 0..MAX_PAYLOAD, value \in Int :
          Start(u, cmd, size, value)
    BY <1>3, Starts
  <2> QED BY <1>2, <2>1 DEF Start, Goto
<1>4. ASSUME NEW u \in User, Close(u) \/ FreeStatus(u) PROVE Tones'
  BY <1>2, <1>4 DEF Close, FreeStatus, Goto
<1>5. ASSUME NEW u \in User, ReadStatus(u) \/ ReadTelemetry(u) \/ ReadNothing(u)
      PROVE  Tones'
  BY <1>2, <1>5 DEF ReadStatus, ReadTelemetry, ReadNothing, LookUp, Goto
<1>6. ASSUME NEW u \in User, CopyHead(u) \/ CopyTail(u) PROVE Tones'
  BY <1>2, <1>6 DEF CopyHead, CopyTail, Goto
<1>7. ASSUME NEW u \in User, ResetCount(u) \/ ZeroCount(u) PROVE Tones'
  BY <1>2, <1>7 DEF ResetCount, ZeroCount, Goto
<1>8. CASE FillTail \/ \E b \in Block : FillHead(b)
  <2>1. \A v \in User : pc'[v] = pc[v]
    BY <1>1, <1>8 DEF FillTail, FillHead, Goto, HubAssumption
  <2>2. UNCHANGED <<call, wire>>
    BY <1>8 DEF FillTail, FillHead
  <2> QED BY <2>1, <2>2, TonesUntouched
<1>9. CASE Reopen \/ UNCHANGED vars
  <2>1. UNCHANGED <<pc, call, wire>>
    BY <1>9 DEF Reopen, vars
  <2> QED BY <2>1, TonesUntouched
<1> QED
  BY <1>3, <1>4, <1>5, <1>6, <1>7, <1>8, <1>9, TonesSent, TonesUnsent, TonesExecuted,
     TonesEnded DEF Next

-----------------------------------------------------------------------------

\* Whatever the threads call, every variable keeps its type, the volume the hub has is in
\* its range (hub_speaker_set_volume clamps it), and every payload that is sent fits a
\* frame (hub_display_text and hub_display_text_scroll send nothing that does not).
THEOREM TypeCorrect == Spec => []TypeOK
<1>1. Init => Inductive /\ Bounded
  BY HubAssumption, Initially, BoundedInitially
<1>2. Inductive /\ Bounded /\ [Next]_vars => (Inductive /\ Bounded)'
  BY HubAssumption, StepKeeps, StaysBounded
<1>3. Bounded => TypeOK
  BY DEF Bounded
<1> QED BY <1>1, <1>2, <1>3, PTL DEF Spec

\* When no call is under way and nothing is on its way to the hub, it plays only a tone
\* without an end, or one whose own call or stop failed or whose stop was lost:
\* hub_speaker_play_tone sends the stop after its sleep, behind the tone, and what other
\* threads play and stop in between, fail to send or lose changes nothing of that.
THEOREM SilenceFalls == Spec => []FallsSilent
<1> DEFINE Silent == Inductive /\ Bounded /\ Tones
<1>1. Init => Silent
  BY HubAssumption, Initially, BoundedInitially
<1>2. Silent /\ [Next]_vars => Silent'
  BY HubAssumption, StepKeeps, StaysBounded, StaysFollowed
<1>3. Silent => FallsSilent
  <2> SUFFICES ASSUME Silent, AllQuiet, hub.tone # 0, hub.tone \notin endless \cup unstopped
               PROVE  FALSE
    BY DEF FallsSilent
  <2>1. PICK t \in Nat \ ({0} \cup endless \cup unstopped) : t = hub.tone
    BY DEF Bounded, Labelled
  <2>2. \A u \in User : ~Ends(u, t)
    BY DEF AllQuiet, Ends
  <2>3. \A j \in Way : FALSE
    BY DEF AllQuiet, Way
  <2> QED BY <2>1, <2>2, <2>3 DEF Tones, Followed
<1> QED BY <1>1, <1>2, <1>3, PTL DEF Spec
=============================================================================

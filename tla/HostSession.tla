---------------------------- MODULE HostSession ----------------------------
(***************************************************************************)
(* What the host is told of the sensors: the boot handshake (hostLink,     *)
(* announceIfSilent, dispatchHostCommand), the frames that introduce a     *)
(* slot (sendSlotFrames), and the samples that follow (vernierHandler and  *)
(* the queue the BLE stack pushes into).                                   *)
(*                                                                         *)
(* Four tasks write frames, each frame under the send mutex, so a frame is *)
(* a step and the host reads the frames in the order of the steps.  The    *)
(* host is external: its T_HELLO handler wipes its slot table              *)
(* (control-loop.cpp:89-91), it may be deaf until it has booted, and it    *)
(* may restart alone.  How a slot is claimed, retried and torn down is in  *)
(* ControlLoop; here an attempt begins and a teardown comes at any time.   *)
(***************************************************************************)
EXTENDS Naturals

CONSTANTS
    N,           \* VERNIER_MAX_SLOTS
    Depth,       \* VERNIER_SAMPLE_QUEUE_DEPTH
    MaxSamples,  \* bound: samples the sensors send
    MaxRestarts, \* bound: restarts of the host
    MaxCommands  \* bound: commands of the host

Slots == 0 .. N - 1
Frames == {"info", "fields"} \* T_DEVINFO, T_FIELDS

ASSUME HostAssumption ==
    /\ {N, Depth} \subseteq Nat \ {0}
    /\ {MaxSamples, MaxRestarts, MaxCommands} \subseteq Nat

VARIABLES
    hostLink,                      \* SILENT, ANNOUNCED, HEARD
    conn, open, streaming,         \* a slot's state, its session and stream
    queue, dropped,                \* samples queued, _push_dropped
    uart, command, prev, uslot,    \* dispatchHostCommand: place, command, previous link, slot
    worker, wslot,                 \* bleWorkerEntry: place, slot
    sampler, vslot,                \* vernierHandler: place, slot
    teardown, tslot,               \* a task in disconnect or releaseIfLinkLost
    listening, table,              \* the host: up, what its table holds of a slot
    rebuilt,                       \* it asked for its table and had the answer
    lost,                          \* the host missed frames of a slot not READY yet
    greeted,                       \* a T_HELLO was sent
    introduced,                    \* frames of the slot's session that were sent
    owed,                          \* samples of the session that nobody took to send them
    restarts, commands, samples    \* of the bounds

slotVars == <<conn, open, streaming>>
sampleVars == <<queue, dropped, owed, samples>>
uartVars == <<uart, command, prev, uslot>>
hostVars == <<listening, rebuilt, restarts, commands>>
wireVars == <<table, lost, greeted, introduced>>
workerVars == <<worker, wslot>>
samplerVars == <<sampler, vslot>>
teardownVars == <<teardown, tslot>>
vars == <<hostLink, slotVars, sampleVars, uartVars, hostVars, wireVars, workerVars,
          samplerVars, teardownVars>>

Set(f, i, v) == [f EXCEPT ![i] = v]
All(v) == [i \in Slots |-> v]

(* setup() has run; the host may be up or not. *)
Init ==
    /\ hostLink = "SILENT"
    /\ conn = All("IDLE") /\ open = All(FALSE) /\ streaming = All(FALSE)
    /\ queue = All(0) /\ dropped = All(0) /\ owed = All(0)
    /\ uart = "idle" /\ command = "none" /\ prev = "HEARD" /\ uslot = 0
    /\ worker = "idle" /\ wslot = 0
    /\ sampler = "look" /\ vslot = 0
    /\ teardown = "idle" /\ tslot = 0
    /\ listening \in BOOLEAN /\ table = All({}) /\ rebuilt = FALSE
    /\ lost = All(FALSE) /\ greeted = FALSE /\ introduced = All({})
    /\ restarts = 0 /\ commands = 0 /\ samples = 0

-----------------------------------------------------------------------------
(* The frames, as they change what the host knows. *)

Learns(i, what) == IF listening THEN Set(table, i, table[i] \cup what) ELSE table

(* Nobody repeats the introduction of a slot that is not READY. *)
Missed(i) == conn[i] # "READY" /\ introduced[i] # {}

(* T_HELLO. *)
SendHello ==
    /\ greeted' = TRUE
    /\ table' = IF listening THEN All({}) ELSE table
    /\ lost' = [i \in Slots |-> lost[i] \/ Missed(i)]
    /\ UNCHANGED introduced

(* T_DEVINFO and T_FIELDS of slot i, sendSlotFrames(); T_DEVSTATS between them is
   not told apart.                                                          *)
SendInfo(i) ==
    /\ table' = Learns(i, {"info"})
    /\ introduced' = Set(introduced, i, introduced[i] \cup {"info"})
    /\ UNCHANGED <<lost, greeted>>

SendFields(i) ==
    /\ table' = Learns(i, {"fields"})
    /\ introduced' = Set(introduced, i, introduced[i] \cup {"fields"})
    /\ UNCHANGED <<lost, greeted>>

IntroducedAgain(i) ==
    /\ table' = Learns(i, {"fields"})
    /\ introduced' = Set(introduced, i, introduced[i] \cup {"fields"})
    /\ lost' = Set(lost, i, FALSE)
    /\ UNCHANGED greeted

(* T_DEV_LIST: snapshot and push under one mutex. *)
emitDevList ==
    /\ table' = IF ~listening THEN table ELSE
         [i \in Slots |-> IF conn[i] = "READY" THEN table[i] \cup {"listed"}
                                               ELSE table[i] \ {"listed"}]
    /\ UNCHANGED <<lost, greeted, introduced>>

-----------------------------------------------------------------------------
(* uartHandler: dispatchHostCommand(). *)

notUart == <<slotVars, sampleVars, workerVars, samplerVars, teardownVars>>

(* A command arrives: hostLink.exchange(HEARD), and the first contact is answered
   with the handshake before the command is.                               *)
Dispatch(c) ==
    /\ uart = "idle" /\ listening
    /\ commands < MaxCommands /\ commands' = commands + 1
    /\ command' = c /\ prev' = hostLink
    /\ hostLink' = "HEARD"
    /\ uart' = IF hostLink # "HEARD" THEN "handshake" ELSE "handle"
    /\ rebuilt' = FALSE
    /\ UNCHANGED <<notUart, wireVars, uslot, listening, restarts>>

FirstContact == prev # "HEARD"

\* MUTANT: a repeated handshake is not followed by the slots.
HandshakeOnly ==
    /\ uart = "handshake"
    /\ SendHello
    /\ uart' = "handle" /\ UNCHANGED uslot
    /\ UNCHANGED <<notUart, hostVars, hostLink, command, prev>>

Handshake ==
    /\ uart = "handshake"
    /\ SendHello
    /\ IF prev = "ANNOUNCED" /\ command # "C_DEV_LIST"
         THEN uart' = "resend" /\ uslot' = 0
         ELSE uart' = "handle" /\ UNCHANGED uslot
    /\ UNCHANGED <<notUart, hostVars, hostLink, command, prev>>

(* The command is answered.  The host has had its table if the answer was more
   than a T_HELLO and it did not restart in between.                        *)
Answered ==
    /\ uart' = "idle" /\ command' = "none" /\ prev' = "HEARD" /\ uslot' = 0
    /\ rebuilt' = (listening /\ (command = "C_DEV_LIST" \/ FirstContact))
    /\ UNCHANGED <<notUart, hostLink, listening, restarts, commands>>

(* A command about a slot acts as ControlLoop says. *)
HandleHello ==
    /\ uart = "handle" /\ command = "C_HELLO"
    /\ IF FirstContact THEN UNCHANGED wireVars ELSE SendHello
    /\ Answered

HandleDevList ==
    /\ uart = "handle" /\ command = "C_DEV_LIST"
    /\ emitDevList
    /\ uart' = "resend" /\ uslot' = 0
    /\ UNCHANGED <<notUart, hostVars, hostLink, command, prev>>

HandleOther ==
    /\ uart = "handle" /\ command \notin {"C_HELLO", "C_DEV_LIST"}
    /\ Answered
    /\ UNCHANGED wireVars

(* resendReadySlotFrames(), slot by slot. *)
ResendLook ==
    /\ uart = "resend" /\ uslot \in Slots
    /\ IF conn[uslot] = "READY" THEN uart' = "resendInfo" /\ UNCHANGED uslot
                                ELSE uslot' = uslot + 1 /\ UNCHANGED uart
    /\ UNCHANGED <<notUart, wireVars, hostVars, hostLink, command, prev>>

ResendInfo ==
    /\ uart = "resendInfo"
    /\ SendInfo(uslot)
    /\ uart' = "resendFields"
    /\ UNCHANGED <<notUart, hostVars, hostLink, command, prev, uslot>>

ResendFields ==
    /\ uart = "resendFields"
    /\ IntroducedAgain(uslot)
    /\ uart' = "resend" /\ uslot' = uslot + 1
    /\ UNCHANGED <<notUart, hostVars, hostLink, command, prev>>

(* Every READY slot is repeated.  After a handshake the list follows and then the
   command; after C_DEV_LIST that was all.                                  *)
ResendList ==
    /\ uart = "resend" /\ uslot = N /\ command # "C_DEV_LIST"
    /\ emitDevList
    /\ uart' = "handle"
    /\ UNCHANGED <<notUart, hostVars, hostLink, command, prev, uslot>>

ResendEnds ==
    /\ uart = "resend" /\ uslot = N /\ command = "C_DEV_LIST"
    /\ Answered
    /\ UNCHANGED wireVars

Uart ==
    \/ \E c \in {"C_HELLO", "C_DEV_LIST", "C_CONNECT"} : Dispatch(c)
    \/ Handshake \/ HandleHello \/ HandleDevList \/ HandleOther
    \/ ResendLook \/ ResendInfo \/ ResendFields \/ ResendList \/ ResendEnds

-----------------------------------------------------------------------------
(* bleWorkerEntry() and publishConnectResult(). *)

notWorker == <<hostVars, uartVars, samplerVars, teardownVars>>
WorkerGoes(place) == worker' = place /\ UNCHANGED wslot
Unlocked(i) == teardown # "drain" \/ tslot # i

Acquire(i) ==
    /\ worker = "idle" /\ conn[i] = "IDLE"
    /\ conn' = Set(conn, i, "CONNECTING")
    /\ worker' = "announce" /\ wslot' = i
    /\ UNCHANGED <<notWorker, wireVars, sampleVars, hostLink, open, streaming>>

\* MUTANT: the first to connect only notes that the host was greeted.
AnnounceNothing ==
    /\ worker = "announce"
    /\ hostLink' = (IF hostLink = "SILENT" THEN "ANNOUNCED" ELSE hostLink)
    /\ WorkerGoes("list")
    /\ UNCHANGED <<notWorker, wireVars, sampleVars, slotVars>>

(* announceIfSilent(): the compare-and-swap, then the handshake. *)
Announce ==
    /\ worker = "announce"
    /\ IF hostLink = "SILENT"
         THEN hostLink' = "ANNOUNCED" /\ WorkerGoes("hello")
         ELSE UNCHANGED hostLink /\ WorkerGoes("list")
    /\ UNCHANGED <<notWorker, wireVars, sampleVars, slotVars>>

AnnounceHello ==
    /\ worker = "hello"
    /\ SendHello
    /\ WorkerGoes("list")
    /\ UNCHANGED <<notWorker, sampleVars, slotVars, hostLink>>

(* A background attempt pushes no list. *)
ListConnecting ==
    /\ worker = "list"
    /\ emitDevList \/ UNCHANGED wireVars
    /\ WorkerGoes("connect")
    /\ UNCHANGED <<notWorker, sampleVars, slotVars, hostLink>>

(* A BLE connect takes longer than a task needs from one statement to the next:
   none happens while the UART task is between its exchange of hostLink and the
   handshake, or vernierHandler between a slot's isReady() and its last frame. *)
ConnectTakesLonger == uart # "handshake" /\ sampler = "look"

\* MUTANT: the drop counter goes on from the session before.
ConnectOkKeepsDrops ==
    /\ worker = "connect" /\ ConnectTakesLonger
    /\ open' = Set(open, wslot, TRUE)
    /\ queue' = Set(queue, wslot, 0)
    /\ owed' = Set(owed, wslot, 0)
    /\ WorkerGoes("start")
    /\ UNCHANGED <<notWorker, hostLink, conn, streaming, dropped, samples, wireVars>>

ConnectOk ==
    /\ worker = "connect" /\ ConnectTakesLonger
    /\ open' = Set(open, wslot, TRUE)
    /\ dropped' = Set(dropped, wslot, 0)
    /\ queue' = Set(queue, wslot, 0)
    /\ owed' = Set(owed, wslot, 0)
    /\ WorkerGoes("start")
    /\ UNCHANGED <<notWorker, hostLink, conn, streaming, samples, wireVars>>

ConnectFails ==
    /\ worker = "connect"
    /\ conn' = Set(conn, wslot, "IDLE")
    /\ WorkerGoes("tell") \/ (worker' = "idle" /\ wslot' = 0)
    /\ UNCHANGED <<notWorker, wireVars, sampleVars, hostLink, open, streaming>>

(* startReading() of a session that a teardown may have closed, and T_DEVINFO. *)
StartAndIntroduce ==
    /\ worker = "start"
    /\ streaming' = Set(streaming, wslot, open[wslot])
    /\ SendInfo(wslot)
    /\ WorkerGoes("fields")
    /\ UNCHANGED <<notWorker, sampleVars, hostLink, conn, open>>

IntroduceFields ==
    /\ worker = "fields"
    /\ SendFields(wslot)
    /\ WorkerGoes("publish")
    /\ UNCHANGED <<notWorker, sampleVars, slotVars, hostLink>>

(* xQueueReset() at the end of a session.  What was counted and sent for it does not
   count for the next one.                                                  *)
SessionEnds(i) ==
    /\ queue' = Set(queue, i, 0)
    /\ owed' = Set(owed, i, 0)
    /\ introduced' = Set(introduced, i, {})
    /\ table' = Set(table, i, table[i] \ Frames)
    /\ lost' = Set(lost, i, FALSE)
    /\ UNCHANGED <<dropped, samples, greeted>>

(* tryFinishConnecting(), or, if the slot was torn down meanwhile, disconnect(). *)
Publish ==
    /\ worker = "publish" /\ Unlocked(wslot)
    /\ IF conn[wslot] = "CONNECTING"
         THEN /\ conn' = Set(conn, wslot, "READY")
              /\ UNCHANGED <<open, streaming, sampleVars, wireVars>>
         ELSE /\ open' = Set(open, wslot, FALSE) /\ streaming' = Set(streaming, wslot, FALSE)
              /\ SessionEnds(wslot)
              /\ UNCHANGED conn
    /\ WorkerGoes("tell")
    /\ UNCHANGED <<notWorker, hostLink>>

Tell ==
    /\ worker = "tell"
    /\ emitDevList
    /\ worker' = "idle" /\ wslot' = 0
    /\ UNCHANGED <<notWorker, sampleVars, slotVars, hostLink>>

Worker ==
    \/ \E i \in Slots : Acquire(i)
    \/ Announce \/ AnnounceHello \/ ListConnecting \/ ConnectOk \/ ConnectFails
    \/ StartAndIntroduce \/ IntroduceFields \/ Publish \/ Tell

-----------------------------------------------------------------------------
(* A task tears a slot down, under the slot's lock: teardown() and the list. *)

notTeardown == <<hostLink, hostVars, uartVars, samplerVars, workerVars>>

(* The consumer goes first, then the stream and the link. *)
Close(i) ==
    /\ teardown = "idle" /\ conn[i] # "IDLE"
    /\ teardown' = "drain" /\ tslot' = i
    /\ open' = Set(open, i, FALSE) /\ streaming' = Set(streaming, i, FALSE)
    /\ UNCHANGED <<notTeardown, wireVars, sampleVars, conn>>

Drain ==
    /\ teardown = "drain"
    /\ teardown' = "tell" /\ UNCHANGED tslot
    /\ SessionEnds(tslot)
    /\ conn' = Set(conn, tslot, "IDLE")
    /\ UNCHANGED <<notTeardown, open, streaming>>

TellDown ==
    /\ teardown = "tell"
    /\ teardown' = "idle" /\ tslot' = 0
    /\ emitDevList
    /\ UNCHANGED <<notTeardown, slotVars, sampleVars>>

Teardown == (\E i \in Slots : Close(i)) \/ Drain \/ TellDown

-----------------------------------------------------------------------------
(* vernierHandler() and the BLE stack that feeds it.  The slots are served one at
   a time, in any order; the refresh of T_DEVSTATS every 10 s is left out.  *)

notSampler == <<hostLink, hostVars, uartVars, workerVars, teardownVars, conn, open>>

\* MUTANT: a session is read as soon as it is open.
LookOpen(i) ==
    /\ sampler = "look" /\ open[i]
    /\ IF streaming[i]
         THEN sampler' = "take" /\ vslot' = i /\ UNCHANGED streaming
         ELSE streaming' = Set(streaming, i, open[i]) /\ UNCHANGED <<sampler, vslot>>
    /\ UNCHANGED <<notSampler, sampleVars, wireVars>>

(* isReady(); a READY slot that does not stream is started. *)
Look(i) ==
    /\ sampler = "look" /\ conn[i] = "READY"
    /\ IF streaming[i]
         THEN sampler' = "take" /\ vslot' = i /\ UNCHANGED streaming
         ELSE streaming' = Set(streaming, i, open[i]) /\ UNCHANGED <<sampler, vslot>>
    /\ UNCHANGED <<notSampler, sampleVars, wireVars>>

SlotServed == sampler' = "look" /\ vslot' = 0

(* waitForSample() without waiting. *)
Take ==
    /\ sampler = "take"
    /\ IF queue[vslot] > 0
         THEN /\ queue' = Set(queue, vslot, queue[vslot] - 1)
              /\ owed' = Set(owed, vslot, owed[vslot] - 1)
              /\ sampler' = "values" /\ UNCHANGED vslot
         ELSE SlotServed /\ UNCHANGED <<queue, owed>>
    /\ UNCHANGED <<notSampler, wireVars, streaming, dropped, samples>>

(* T_SENS_VALUES, for a slot that may have been torn down since.  After some of the
   samples (every DEVFIELDS_REPUSH_EVERY, not counted here) T_FIELDS follows. *)
SendValues ==
    /\ sampler = "values"
    /\ SlotServed \/ (sampler' = "fields" /\ UNCHANGED vslot)
    /\ UNCHANGED <<notSampler, wireVars, streaming, sampleVars>>

(* The fields of a session that was closed meanwhile tell the host nothing of the next. *)
SendFieldsAgain ==
    /\ sampler = "fields"
    /\ IF open[vslot] THEN SendFields(vslot) ELSE UNCHANGED wireVars
    /\ SlotServed
    /\ UNCHANGED <<notSampler, streaming, sampleVars>>

Serve == Take \/ SendValues \/ SendFieldsAgain

\* MUTANT: a sample is queued although the queue is full.
PushAlways(i) ==
    /\ open[i] /\ streaming[i]
    /\ samples < MaxSamples /\ samples' = samples + 1
    /\ owed' = Set(owed, i, owed[i] + 1)
    /\ queue' = Set(queue, i, queue[i] + 1)
    /\ UNCHANGED <<notSampler, samplerVars, streaming, dropped, wireVars>>

(* The callback of onSample() on the BLE stack's task. *)
Push(i) ==
    /\ open[i] /\ streaming[i]
    /\ samples < MaxSamples /\ samples' = samples + 1
    /\ owed' = Set(owed, i, owed[i] + 1)
    /\ IF queue[i] < Depth
         THEN queue' = Set(queue, i, queue[i] + 1) /\ UNCHANGED dropped
         ELSE dropped' = Set(dropped, i, dropped[i] + 1) /\ UNCHANGED queue
    /\ UNCHANGED <<notSampler, samplerVars, streaming, wireVars>>

Sampling == Serve \/ \E i \in Slots : (Look(i) \/ Push(i))

-----------------------------------------------------------------------------
(* The host (external).  Its boot takes longer than the answer to a command. *)

notHost == <<hostLink, slotVars, sampleVars, uartVars, workerVars, samplerVars, teardownVars,
             commands>>

HostBoots ==
    /\ ~listening /\ uart = "idle"
    /\ listening' = TRUE
    /\ lost' = [i \in Slots |-> lost[i] \/ Missed(i)]
    /\ UNCHANGED <<notHost, rebuilt, restarts, table, greeted, introduced>>

HostRestarts ==
    /\ listening /\ restarts < MaxRestarts
    /\ restarts' = restarts + 1
    /\ listening' = FALSE /\ rebuilt' = FALSE /\ table' = All({})
    /\ UNCHANGED <<notHost, lost, greeted, introduced>>

Host == HostBoots \/ HostRestarts

Next == Uart \/ Worker \/ Teardown \/ Sampling \/ Host

Spec == Init /\ [][Next]_vars

-----------------------------------------------------------------------------
(* Types, and the places of the tasks. *)
TypeOK ==
    /\ hostLink \in {"SILENT", "ANNOUNCED", "HEARD"}
    /\ conn \in [Slots -> {"IDLE", "CONNECTING", "READY"}]
    /\ open \in [Slots -> BOOLEAN] /\ streaming \in [Slots -> BOOLEAN]
    /\ queue \in [Slots -> 0 .. Depth]
    /\ dropped \in [Slots -> Nat] /\ owed \in [Slots -> Nat]
    /\ uart \in {"idle", "handshake", "handle", "resend", "resendInfo", "resendFields"}
    /\ command \in {"none", "C_HELLO", "C_DEV_LIST", "C_CONNECT"}
    /\ prev \in {"SILENT", "ANNOUNCED", "HEARD"} /\ uslot \in 0 .. N
    /\ worker \in {"idle", "announce", "hello", "list", "connect", "start", "fields",
                   "publish", "tell"} /\ wslot \in Slots
    /\ sampler \in {"look", "take", "values", "fields"} /\ vslot \in Slots
    /\ teardown \in {"idle", "drain", "tell"} /\ tslot \in Slots
    /\ table \in [Slots -> SUBSET (Frames \cup {"listed"})]
    /\ introduced \in [Slots -> SUBSET Frames]
    /\ lost \in [Slots -> BOOLEAN]
    /\ {listening, rebuilt, greeted} \subseteq BOOLEAN
    /\ restarts \in 0 .. MaxRestarts /\ commands \in 0 .. MaxCommands
    /\ samples \in 0 .. MaxSamples

Settled(i) ==
    /\ uart = "idle"
    /\ worker = "idle" \/ wslot # i
    /\ teardown = "idle" \/ tslot # i

(* Once a host, however late it came and although its T_HELLO handler wipes its
   table, had its first command or a C_DEV_LIST answered, it has the name, the fields
   and the list entry of every READY slot that no task is busy with.  Not promised is
   a slot whose introduction was under way when the handshake was repeated or
   the host booted: it is not READY yet, so nobody repeats it
   (control-loop.cpp:89-103, 877-898, 982-1005).                            *)
HostKnowsReady ==
    \A i \in Slots :
        rebuilt /\ Settled(i) /\ conn[i] = "READY" /\ ~lost[i] =>
            table[i] = Frames \cup {"listed"}

(* No frame of a slot goes out before the handshake, whichever of the two tasks
   finds the host silent (control-loop.cpp:89-91, 124-130, 442, 992-1005).  *)
HandshakeFirst == [][introduced' # introduced => greeted]_vars

(* vernierHandler() takes a sample of slot i, which it sends in its next frame. *)
Takes(i) == sampler = "take" /\ sampler' = "values" /\ vslot = i

(* A sample that is taken to be sent is of a session whose T_FIELDS the host was
   sent before, although the samples are queued from the start of the stream on and a
   teardown may come between isReady() and the read.  It is sent also if the slot is
   torn down after that, but before any frame of the next session
   (vernier-adapter.h:121-128, main.cpp:204-209).                           *)
FieldsFirst ==
    [][\A i \in Slots : Takes(i) => "fields" \in introduced[i]]_vars

(* Every sample of a session that was not taken to be sent is in the queue or is
   counted as dropped, also after a session before it ended with samples queued and dropped.
   Not counted are the samples of a session whose slot was torn down while it was
   being opened, which the worker is about to close
   (vernier-adapter.cpp:108-123, 182-197).                                  *)
SamplesAccounted ==
    \A i \in Slots :
        open[i] /\ conn[i] # "IDLE" => owed[i] = queue[i] + dropped[i]
=============================================================================

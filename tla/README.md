# gogo-vernier-firmware: TLA+ models and proofs

The firmware (ESP32, Arduino on FreeRTOS) connects up to `VERNIER_MAX_SLOTS`
Vernier BLE sensors and serves them to a host board over a UART. Its own logic
is small and concurrent: three tasks claim, connect, tear down, release, re-arm
and list the same slots through atomics, one mutex per slot, a queue and a
handful of flags. Around that core stand four smaller parts with a difficulty of
their own: the timing of the background reconnect, the frame receiver, the saved
names in flash, and what the host is told and when. This directory models them,
model-checks them with TLC on small instances and proves their safety properties
with TLAPS for any number of slots, sensors, bytes and milliseconds.

Paths below are relative to the repository (`src/control-loop.cpp`,
`include/vernier-adapter.h`, ...).

## 1. Inventory

| Component | Code | State | Operations |
|---|---|---|---|
| Slot adapter | `include/vernier-adapter.h`, `src/vernier-adapter.cpp`, `src/slot-helpers.cpp` | `_conn_state`, `_reconnect`, `_lifecycle_mutex`, `_open_device`, sampling period, sample queue, drop counter; the BLE session of GoGoVernier | compare-and-swap transitions, `connect`, `disconnect`, `teardown`, `releaseIfLinkLost`, `tryFinishConnecting`, `tryArmFailedConnect`, stream and status calls, `firstFreeSlot` |
| Host commands | `dispatchHostCommand` and the `cmd*` handlers of `src/control-loop.cpp` (task `uartHandler`) | `startAutoConnect`, `hostLink`, the saved flags | connect, disconnect, forget, cancel, set period, list, hello |
| Loop task | Arduino `loop()`: `autoConnectDevice`, `releaseLostLinks`, `reconnectLostSensors`, `buttonHandler` | `reconnectSchedule[]`, `started`, `prevButtonEvent` | boot connect, auto connect, release of dropped links, background reconnect, BOOT button |
| BLE worker | `bleWorkerEntry`, `publishConnectResult` | `bleWorkQueue`, its current request | take a request, connect, publish READY or a failure, save the name, disarm other slots |
| Slot list | `emitDevList` | `devListMutex` | snapshot and push `T_DEV_LIST` |
| Boot handshake | `hostLink`, `announceIfSilent`, `resendReadySlotFrames`, C_HELLO | `hostLink` | SILENT, ANNOUNCED, HEARD |
| Reconnect timing | the timers of `reconnectLostSensors`, `include/main.h` | `nextAttemptMs`, `backoffMs`, `armedAtMs`, `seen`, `inFlight` (32-bit milliseconds) | backoff, cap, give-up |
| Frame receiver | `include/framed-msgpack-receiver.h` | `_state`, `_len`, `_pos`, `_skip`, `_midFrameIdle`, `_midFrameIdleSinceMs` | length framing, skip, resync |
| Sample stream | `vernierHandler` of `src/main.cpp`, the push callback of the adapter | depth-2 sample queue, drop counter, streaming flag | start, push, pop, stop |
| Saved names | `setup()` of `src/main.cpp`, `saveConnectedSensor`, `cmdForget` | NVS keys, `slotHasSavedDevice[]`, `foundSavedDevice` | load at boot, v1 migration, save, remove |
| Wire protocol | `src/uart-adapter.cpp` | a send mutex | encode and write frames |
| GoGoVernier, NimBLE | git submodule, not in the repository | the BLE session | `open`, `close`, `isConnected`, `isLinkUp` |

How they interact. `uartHandler` and `loop()` are the clients: they *claim* a
slot (`IDLE -> REQUESTED` by compare-and-swap) and send its index to the worker
through `bleWorkQueue`. The worker takes entries in order, acquires the slot
(`REQUESTED -> CONNECTING`), runs the blocking BLE handshake without any lock,
and publishes READY under the slot's lifecycle lock if the slot is still
CONNECTING. Any task may tear any slot down at any time (`disconnect`, under
the same lock); the loop task polls READY slots for a dropped link
(`releaseIfLinkLost`), tears them down and *arms* them, and then queues
background attempts for armed slots until the sensor is back, a user adopts or
ends the hunt, or the give-up time is over. A user connect may *adopt* an armed
slot (`ARMED -> ADOPTED`), so that the attempt under way answers the user. Every
visible change ends in a push of the slot table to the host (`emitDevList`).

What is hard, and what makes each part correct:

- *Slot state* (interleaving): a READY slot has a session, an IDLE one has none;
  CONNECTING always has an owner; READY ends only in a locked teardown.
- *Queue* (stale entries, bound): a claimed slot is not left without a request;
  the queue never overflows; a stale entry does not answer for a newer request.
- *Background reconnect* (ordering): an explicit disarm is final; a hunt has a
  name to look for; a connected sensor is not looked for; every hunt ends.
- *Host view* (ordering, lost updates): at rest the host sees what is connected.
- *Locks* (deadlock): no tasks wait for one another in a circle, and every command
  ends, although `close()` waits for `open()`.
- *Timing* (overflow): no attempt before its backoff; the hunt ends on time
  across the wrap-around of `millis()`.
- *Frame receiver* (unreliable bytes): resynchronises, never overruns its buffer,
  delivers a frame exactly when it is whole.
- *Sample stream*: every lost sample is counted; no sample is taken of a session
  the host has not been introduced to.
- *Saved names* (reset at any point): flash, flag and connect target agree after
  a reboot; the migration is idempotent; the firmware does not bring a forgotten
  sensor back by itself.

`PROJECT.json` lists each hazard at its line with the property that covers it.
Six have none; each is something the code does, described at the end of section 3.

## 2. What is modelled

| Module | Code | Contents |
|---|---|---|
| `VernierAdapter` | `vernier-adapter.{h,cpp}`, `firstFreeSlot` | slot variables, the atomic transitions, the lifecycle lock, the stages of a BLE session |
| `SharedState` | globals of `control-loop.cpp`, `setup()` | the variables the tasks share, where each task is, types, initial state, the moves of a task |
| `SlotOperations` | `requestUserConnect`, `enqueueConnect`, `disconnect`, `emitDevList` | the operations several tasks run |
| `HostCommands` | `dispatchHostCommand`, `cmd*` | task `uart` |
| `LoopTask` | `loop()` and what it calls | task `loop` |
| `BleWorker` | `bleWorkerEntry`, `connect`, `publishConnectResult` | task `worker` |
| `ControlLoop` | all of them | `Next`, `Spec`, fairness, the properties |
| `ConnectPromises` | comments of `control-loop.cpp` | two history variables for promises about a command and what follows it |
| `SlotLifecycle` | the state machines `ConnState` and `ReconnectState` document | abstract specification of a slot: no tasks, no locks, each change in one step |
| `SlotRefinement` | | the refinement mapping from `ControlLoop` to `SlotLifecycle` |
| `ReconnectSchedule` | `reconnectLostSensors` | one pass slot by slot, with backoff, give-up and a clock that wraps around |
| `FrameReceiver` | `framed-msgpack-receiver.h`, `uartHandler` | the receiver, and a line with bursts, pauses, noise and loss |
| `SavedNames` | `setup()`, `saveConnectedSensor`, `cmdForget` | flash and RAM, with resets and failing flash |
| `HostSession` | `dispatchHostCommand`, `announceIfSilent`, `resendReadySlotFrames`, `publishConnectResult`, `vernierHandler`, `teardown`, `onSample` | the handshake, the introduction of a slot, and samples, as the host sees them |
| `MCControlLoop`, `MCConnectPromises`, `MCFrameReceiver`, `MCReconnectSchedule`, `MCSavedNames` | | instances for TLC |
| `ControlLoopTypeProofs`, `ControlLoopProofs` | | theorems: types, lock discipline, the worker's attempt, sessions, background reconnect |
| `HostProofs`, `RefinementProofs` | | theorems: requests and lists; the refinement |
| `ReconnectScheduleProofs`, `FrameReceiverProofs`, `SavedNamesProofs`, `HostSessionProofs` | | theorems about these modules |

### The control loop

Each module EXTENDS the one before it from `VernierAdapter` down to `ControlLoop`. `pc[t]` is the
place task `t` has reached, `op[t]` the operation it is in, `at[t]` the slot, and
`flag[t]` its one live local Boolean. `connState`, `reconnect`, `lifecycle` and
`openDevice` are the members of the adapter; `link` and `sensor` the BLE session;
`queue` and `req` the worker's requests; `saved`, `nvs`, `foundSaved` the saved
names; `seen` and `inFlight` the schedule; `snapshot` and `hostView` the entries
`emitDevList` collected and those the host was sent last.

**Grain.** An action is the code between two accesses to shared state whose order
another task can see: each load a decision depends on, each store,
compare-and-swap, lock and queue operation is a step. So the read of
`slotHasSavedDevice` and the lock in `releaseLostLinks` are two steps,
`CONNECTING -> READY` and the end of the background reconnect under the lock are
two steps, and so on.

**Abstractions.** They are:

- *Time.* A delay may have run out at any pass of the loop task (`SchedWait`,
  `SchedDue`, `SchedGiveUp`), except that no attempt starts and no hunt is given up in
  the pass that first sees the slot out of OFF (`JustLeftOff`); `ReconnectSchedule` says when.
- *BLE.* A session is closed, scanning, linked, ready or lost; a scan or a
  handshake may always fail; a sensor answers one central at a time. `close()`
  waits for the session mutex that `open()` holds while the link is up and not
  ready; before that it finds nothing to close and returns. The library's
  mutex across slots is left out: one worker opens sessions.
- *Merged reads.* `savedSensorReadyElsewhere`, `disarmOtherSlotsWaitingFor`, the
  worker-busy scan, the snapshot of `emitDevList` and `firstFreeSlot` go over
  all slots in one step; so do the two loads of `cmdForget`'s first condition, of
  `StillInFlight` and of `publishConnectResult`'s arming condition. `SaveFlag` stores
  the slot's flag, `foundSavedDevice` (which is never cleared) and the target
  (which only the worker reads) together. The slot of a C_CONNECT is any slot, which includes
  what `firstFreeSlot` would return at any moment.
- *Frames.* `T_ACK` and the frames of a new READY slot are not recorded (the latter
  are in `HostSession`); commands refused for an argument out of range change nothing and are left out.
- *Flash.* Opening NVS and writing a key succeed and `setup()` has run; `SavedNames`
  has the failures and the resets.
- *Boot handshake.* `announceIfSilent` changes nothing that another action here
  reads; it is in `HostSession`.
- *Unreachable branch.* `connect()` keeps a session that is still open and ready;
  the branch is in `Connect`, and the runs show no state takes it.

### The slot as its clients see it

`SlotLifecycle` has two variables per slot, `state` and `hunt`, and an action per
transition that the comments on the two enumerations name: a connect is requested,
starts, succeeds, fails; a connection ends or is lost; a hunt is adopted, re-armed,
disarmed. `SlotRefinement` maps `state` to `connState` and `hunt` to `Hunt`.
`Hunt` is `reconnect` except between the two stores the code makes one after the
other under a lifecycle lock (READY then OFF in `tryFinishConnecting`, IDLE then
ARMED in `releaseIfLinkLost` and `tryArmFailedConnect`), where it already has the
later value. That it is a refinement says that the lock does its work: nobody ever
sees, or destroys, the half-done change. `LifecycleImplemented` is `Lifecycle!Spec`,
so each step of the three tasks is a transition of one slot, a disarm, or a stutter.

### The schedule

`ReconnectSchedule` keeps the differences the code computes: `armedFor` is
`now - armedAtMs`, `overdue` is `now - nextAttemptMs`, both modulo `ClockRange`,
and `Due` reads the latter as a signed number as the code does. A pass takes no
time and goes slot by slot (`StartPass` is the worker-busy scan), so that the other
tasks act between any two slots; within a slot the loads are one step (`ControlLoop`
separates them). `Environment` is the other tasks: a step of `SlotLifecycle`, of which
`LifecycleImplemented` says that `ControlLoop` takes no others, so what is proved
of the schedule holds behind any interleaving of commands, button, link losses and
worker that `ControlLoop` has. `ScheduleKeepsLifecycle` is the other half: a pass, too,
takes only steps of `SlotLifecycle`. (A pass of the code may read
a slot between two stores of the worker, when `Hunt` has the later value already:
ARMED of a slot that is READY, which it then finds not IDLE or sets OFF as the worker
is about to, or OFF of one that is about to be armed, which the next pass sees.) The auxiliary variables
`away` (since the slot was armed), `rested` (since a pass last set the gap) and
`held` (the slot is REQUESTED or CONNECTING on the claim of a pass) are only read by
the properties. `held` is about slots: a teardown or a cancel takes a slot from its
attempt, which may run on or stay queued (see the end of section 3). `away` counts a
hunt that ended and began again between two passes as one, because no pass sees that OFF
and the schedule goes on with the clock it had.

`ScheduleAssumption` asks that the clock is at least twice the cap (30 s against 49.7
days), and longer than a hunt with two attempts and three passes; that a slot is
REQUESTED or CONNECTING for at most `MaxAttempt` and a pass comes at least every
`MaxPass` bounds the environment. Two bounds keep a hunt that is given up from lasting
49 days, a period of the clock, in which the clock could lap it: no user takes a slot
of such an age (`UserTakes`), and time does not go on with a slot that has been ADOPTED
for longer than an attempt after that (`Tick`), as one left behind might be (see the
end of section 3).

### The receiver

An action is one call of `processStep`; the uart task may make it at any time.
A byte has a value and, for the properties, its place in the frame it belongs to; all
payload bytes of a frame share one value, which may be any value a length byte may
have. The host writes a frame in a burst (`line`), stray bytes come at any time, and
a full RX buffer (`fifo`) loses a byte. `idleFor` is `millis() - _midFrameIdleSinceMs`
modulo `ClockRange`. `tainted` remembers a stray or lost byte until the line was
silent for `GapReset + MaxStall`.

`LineAssumption` asks that a pause inside a burst plus the time the task leaves the
buffer unread is at most `kFrameGapResetMs`, and that no silence is as long as the
period of `millis()`.

### The saved names

A use of the flash (`NvsScope` holds `nvsMutex`) is a step, and so is each store of a
flag or target between two of them; `Reset` may come between any two steps. A slot is
claimed (`claim`) by the user, with C_CONNECT, the button, or by taking over an attempt,
or by the firmware itself, and only a claimed slot becomes READY, with any sensor. The
loop task finds a slot saved (`autoConnectDevice`) or `armed` (`reconnectLostSensors`)
in one step and claims it in another; a failed boot connect and the release of a lost
link arm a slot, as the code does, after they have read its flag.

Five history variables are only read by the properties. `failed`: the last use of the
flash for the slot failed. `raced`: the slot became READY between the teardown and the
end of its forget (finding 4). `forgotten`: the slot was torn down by a forget and no user
asked for a connect since; a connect of the firmware does not clear it. `notRemoved` and
`overtaken` record, when a forget ends, that the key may still be in flash, and that the
firmware was connecting or hunting for the slot at that moment or about to: the
exceptions of `ForgottenStays`.

### The host's view

A frame is a step, because it is written under the send mutex. Four tasks write:
`uart`, `worker`, a teardown (any task), and the sampler `vernierHandler`. `table`
is what the host holds of each slot; it is wiped by T_HELLO and by a restart of the
host, and learns nothing while the host is down. `rebuilt` says that the host asked
and had a full answer, `introduced` which frames of the slot's session were sent,
`lost` that the host cannot know a slot because its introduction was cut in two,
`owed` the samples of the session that nobody took to send. Slots are served in any
order. The sampler checks `isReady()`, takes a sample, sends it and re-sends the fields
in steps of their own, and looks at the slot's state only in the first: a sample taken
before a teardown is sent after it. `ConnectTakesLonger` says that a BLE connect
(seconds) does not complete while another task goes from one statement to the next: the
uart task from its exchange of `hostLink` to the handshake, the sampler from a slot's
`isReady()` to the last frame of that slot's turn. The re-push of T_FIELDS
may come after any sample; the 50 are not counted.

### Bounds

`MaxCmds`, `MaxPresses` and `MaxLosses` bound the commands, the button
presses and the link drops of a behaviour of `ControlLoop`; `MaxFrames`, `MaxNoise`
and `MaxQuiet` the frames, stray bytes and silence of the line; `MaxSamples`,
`MaxRestarts` and `MaxCommands` the samples, the restarts of the host and its
commands in `HostSession`. They are budgets of the environment and appear only in its
guards; the clocks of `ReconnectSchedule` that only properties read stop counting at
`Late` and `MaxBackoff`. Its run has one more bound, `OneOld` of `MCReconnectSchedule`:
of two hunts at most one is older than a time unit; the theorems do without it.
The run of `SavedNames` has the bound `OneInUse` of `MCSavedNames`: one slot at a time is
in use, hunted, forgotten or in doubt about its name, while the other may be saved and
looked at; the theorems do without it, too. Everything the firmware does by itself
(auto connect, release, retry, give up) is unbounded.

## 3. Runs

| Run | Instance | Shows |
|---|---|---|
| `HostCommands` | 2 slots, 2 sensors, nothing saved; 3 of connect, disconnect, cancel, list | types; CONNECTING has an owner; session and state agree; no request is stranded; the host sees READY; READY ends in a teardown |
| `Reconnect` | 2 slots, slot 0 saved, `s2` unnamed; 2 of connect, cancel, set period; 1 drop | the background reconnect: armed only with a name and only by a loss or a failed boot connect, over once READY, settled once adopted; `ControlLoop` implements `SlotLifecycle` |
| `ForgetAndButton` | 2 slots, nothing saved; a forget, a press or long press, a drop | two concurrent teardowns, the BOOT button, a forget against a save: no deadlock, and the host sees READY; again the refinement |
| `Liveness` | 1 slot, saved; 2 of connect, disconnect; 1 drop; `FairSpec` | commands end, a lost link is released, a hunt ends |
| `FrameReceiver` | bytes of 2 values, buffer and skip chunk of 2, RX buffer of 4, gap of 2, clock of 6; 3 frames of 0 to 3 bytes, 1 stray byte | no overrun; resynchronises on a quiet line; whole frames, in order, none lost on a clean line |
| `ReconnectSchedule` | 2 slots, gaps of 1 and 2, hunts of 4, clock of 10 | gap bounds, gap kept, passes hold one slot at a time, give-up on time across the wrap-around |
| `SavedNames` | 2 slots, one in use at a time, 2 sensors; any number of connects by user and firmware, resets and failures | flash, flag and target agree; the firmware brings no forgotten sensor back, but in three cases; the migration repeats nothing |
| `HostSession` | 2 slots, queue of 1; 2 commands, 1 restart, 2 samples | handshake first; a host that asked knows every READY slot; fields before samples are taken; lost samples counted |
| `QueueHasRoom` | 3 slots, connect and cancel | the queue can be full at a won claim (finding) |
| `OneSensorOneSlot` | 2 saved slots, 2 drops | a slot hunts for a sensor connected elsewhere (finding) |
| `OutcomeReported` | slot 0 saved, one connect | a queued connect ends without a list (finding) |
| `ForgetHolds` | slot 0 saved, one forget | a forgotten sensor is saved again (finding) |

Why the bounds are enough. Two slots give every property about *another* slot a
witness, and two slots fill a queue of two; three tasks are all there are. The
shortest counterexamples of the mutants need at most two commands and one drop,
and the runs allow one more command or one other actor. Three commands let a
connect, its cancellation and a second connect race for one queue entry. One
drop is a full cycle of release, arm, attempt, success or give-up. With one
slot the liveness run still has all three tasks contend for it.

In `FrameReceiver` the sizes are empty, below, at and above the buffer; the RX buffer
is shorter than the longest frame with its header, so that it overflows; three frames
put one before, one in and one after the debris of the stray byte. In
`ReconnectSchedule` only differences to `millis()` exist, so one behaviour stands for
every position of the clock's wrap-around; `overdue` itself wraps where a gap ends.
The clock of 10 is the smallest its assumption allows; a hunt of 4 has room for a rescan
after the first gap and one after the capped gap; two slots are what a pass needs to
hold one too many. In `SavedNames` a slot's flash, flag and tasks do not depend on another
slot's, but for the one task at each place and `loading`; `OneInUse` still has the tasks
look at a saved slot while the other is saved or forgotten. `HostSession` needs one command
to be the first and one to repeat it, one restart for a host that knew everything to
know nothing, and two samples to overflow a queue of one.

**Fairness.** `FairSpec` asks for weak fairness of each task: FreeRTOS schedules
tasks of equal priority in turn, and the delays of the higher ones let the lower
run, so a task that can go on does. Nothing is assumed about who gets a mutex
next; the weak fairness of a task says only that it does not wait for ever while
it could continuously take it. `TimePasses` (strong fairness of `SchedGiveUp`
per slot) says that the give-up clock of a hunt runs out: if the loop task comes
by an armed, resting slot for ever, one of those passes is late enough. The
success of a scan is never assumed.

**Mutants.** Every property of a passing run is paired in `PROJECT.json` with a
change of one definition that a slip in the code would amount to (a plain store
for a compare-and-swap, a lock given back early or never, a list not pushed, a
full loop bound); under it TLC finds the property violated. The changed
definitions stand before the originals, each marked `MUTANT`, and no
specification uses them.

**Findings.** Four comments promise more than the code does; each has a run whose
counterexample shows it.

1. *The work queue can be full* (`QueueHasRoom`). The comment of `enqueueConnect`
   derives room from "a slot stays non-IDLE for the whole time its request is
   queued". A cancel or disconnect frees the slot and leaves the entry; with the
   worker busy, connect and cancel fill the queue. The next claim then loses its
   request while the caller reports success, and the slot stays REQUESTED.
2. *Two slots, one sensor* (`OneSensorOneSlot`). `releaseIfLinkLost` arms a slot
   without looking whether its sensor is connected elsewhere; when the release
   comes after the sensor's new connect, `disarmOtherSlotsWaitingFor` has
   already run.
3. *A connect without an outcome* (`OutcomeReported`). A C_CONNECT comes while the boot
   connect of its slot is failing. It finds nothing to adopt, for the slot is still
   OFF; the failed boot connect then frees the slot and arms it; and the C_CONNECT wins
   the claim and is acknowledged "queued". The worker takes an attempt on an ARMED
   slot for the firmware's own: it pushes no list at its start, and when it fails,
   `tryRearmAdoptedReconnect` has nothing to do and `publishConnectResult` returns
   without one (`control-loop.cpp:379-381`).
4. *A forget that is undone* (`ForgetHolds`). `cmdForget` clears the saved flag
   after the teardown; an auto-connect pass in between reclaims the slot,
   and its connect saves the name again.

**Noted without a run.** Where the code falls short of what a comment says in these
cases, the model states its property with an exception or an assumption:

- *An adopted slot left behind* (`vernier-adapter.h:77-80`, "Success → OFF; failure or
  C_CANCEL_CONNECT → ARMED again"). The worker finds a background request stale
  (reconnect state OFF, `control-loop.cpp:434-435`) and stores IDLE in a later step
  (`:439`). A request taken off the queue while `releaseIfLinkLost` is between its two
  stores looks stale; the slot is then armed, a user connect adopts it and loses the
  claim to the request, and the store of IDLE ends that claim without re-arming: the
  slot is IDLE and ADOPTED, `reconnectLostSensors` passes it over, and the host is told
  nothing. `AdoptionSettled` has this store as its exception; without it the proof
  does not go through, and TLC finds the behaviour with three commands (connect,
  cancel), one drop and one sensor. Everything else that can end such an attempt
  settles the hunt, which is what the property says.
- *A stale entry answers* (`control-loop.cpp:423`). A cancelled or torn-down request
  stays in the queue, and the worker's compare-and-swap cannot tell the claim it was
  made for from a later one on the same slot: the older request's origin and
  `force` answer, and a background request that is stale (`:434-439`) ends the newer claim
  without a list, after which the newer entry is skipped. `RequestNotStranded` and
  `ConnectingOwned` say that the claim is owned, not by whose request.
- *More than one rescan* (`control-loop.cpp:574-576`, "One rescan at a time, and only
  while bleWorker is idle"). The pass takes the worker for idle when no slot is REQUESTED
  or CONNECTING. A disconnect, forget or long press while `open()` is scanning stores
  IDLE, but `close()` finds no link and the attempt runs on
  (`vernier-adapter.cpp:182-196`); a cancel frees the slot and leaves its entry queued.
  The next pass then claims another slot and queues a rescan behind that attempt.
  `OneSlotHeld` says what holds: of the slots, at most one is REQUESTED or CONNECTING on
  the claim of a pass.
- *Stalled task* (`framed-msgpack-receiver.h:91-93`, "a stalled task with the rest of
  the frame already buffered does not trigger it"): it does if the task had seen the
  buffer empty in the middle of the burst and then stalled for more than the gap. In
  the model `MaxPause + MaxStall <= GapReset`.
- *Old v1 name* (`control-loop.cpp:830-834`, "the slot won't auto-reconnect on next
  boot"): after a forget of slot 0 the v1 key is still in flash and the next boot
  migrates it again: an exception of `ForgottenStays` for slot 0.
- *Forget without flash* (`control-loop.cpp:842-852`): when the boot could not open
  the flash no slot counts as saved, and a forget answers "already empty" while the
  key stays; nor does a forget notice that the key could not be removed. Both are the
  exception `notRemoved` of `ForgottenStays`. Its third, `overtaken`, is finding 4, and
  its kin: the firmware read the flag or found the slot armed before the forget, and
  claims it after.
- *A missed OFF* (`control-loop.cpp:591-595`, `main.h:49-50`): a slot that is OFF and
  armed again between two passes goes on with the clock, gap and in-flight flag of
  the hunt before, so the new hunt may end early. `GiveUpOnTime` measures from the
  start of the earlier hunt (`away`).
- *An introduction cut in two* (`control-loop.cpp:995-999`, "the host's T_HELLO reset
  is undone in the same burst"): only for slots that are READY. A slot the worker is
  introducing when the handshake is repeated, or when the host boots, is skipped, and
  what it was sent before is not repeated until the host asks. Without its exception
  (`lost`) `HostKnowsReady` is violated with one slot and one command.

## 4. Proofs

The theorems hold for every value of the constants that satisfies the named
assumptions of `VernierAdapter` and `SharedState` (`SlotsAssumption`,
`SensorsAssumption`, `FreeAssumption`, `SavedNamesAssumption`,
`CommandsAssumption`, `BoundsAssumption`), or of `ScheduleAssumption`,
`LineAssumption`, `NamesAssumption` and `HostAssumption` for the modules that declare them.

| Theorem | Says |
|---|---|
| `TypeCorrect` | `Spec => []TypeOK` |
| `LockDiscipline` | `Spec => []LockInv`: a slot's lifecycle lock is held by exactly the task that is at a place of the code inside the critical section, on that slot |
| `ConnectingIsOwned` | `Spec => []ConnectingOwned` |
| `ReadyOnlyTornDown` | `Spec => ReadyEndsInTeardown` (an action property) |
| `OffIsFinal` | `Spec => OffStaysOff` (an action property) |
| `ReadyIsDisarmed` | `Spec => []ReadyDisarmed` |
| `HuntsAreTargeted` | `Spec => []HuntHasTarget` |
| `SessionsMatch` | `Spec => []SessionMatchesState` |
| `RequestsAreClaimed` | `Spec => []RequestNotStranded` |
| `HostIsTold` | `Spec => []HostSeesReady` |
| `NoTasksDeadlock` | `Spec => []NoDeadlock` |
| `AdoptionsAreSettled` | `Spec => AdoptionSettled` (an action property) |
| `ControlLoopImplementsLifecycle` | `Spec => LifecycleImplemented`: the refinement |
| `ReconnectScheduleProofs`: `TypeCorrect`, `GapsBounded`, `OneSlotIsHeld` | the invariants `TypeOK`, `BackoffBounded`, `OneSlotHeld` |
| `GapIsKept`, `HuntGivenUpOnTime` | `Spec => GapKept`, `Spec => GiveUpOnTime` (action properties) |
| `ScheduleKeepsLifecycle` | `Spec => Lifecycle!Spec`: `ReconnectSchedule` implements `SlotLifecycle` |
| `FrameReceiverProofs`: `TypeCorrect`, `StaysInBuffer`, `OwedFramesAreDelivered` | the invariants `TypeOK`, `NeverOverrun`, `OwedFramesDelivered` |
| `DispatchesAreWhole` | `Spec => DispatchIsWhole` (an action property) |
| `SavedNamesProofs`: `TypeCorrect`, `SavedNamesAgree`, `ForgottenIsFinal` | the invariants `TypeOK`, `NamesAgree`, `ForgottenStays` |
| `BootKeepsNames` | `Spec => MigrationKeepsNames` (an action property) |
| `HostSessionProofs`: `TypeCorrect`, `SamplesAreAccounted`, `HostKnowsEveryReadySlot` | the invariants `TypeOK`, `SamplesAccounted`, `HostKnowsReady` |
| `HandshakeComesFirst`, `FieldsComeFirst` | `Spec => HandshakeFirst`, `Spec => FieldsFirst` (action properties) |

Argument. `TypeOK` alone is not inductive: `DisarmOthers` and `Save` store the
session's sensor as a name, so they need that the worker is at `saveKey` or `saveFlag` only with
a sensor in the session, and this is kept only because nobody closes the session
while the worker holds the lock. `BaseInv` is therefore `TypeOK`, `LockInv` and
`NameInv` together: who holds which lock, and that the session has a sensor at
those places. `BaseStep` shows it preserved; the type half is split by component
(`AdapterTypeStep`, `TaskTypeStep`, `SharedTypeStep`), the lock half goes action
by action through the places in `HoldPcs`. `ConnInv` adds to it what
`ConnectingOwned` needs: the worker is the only task that stores CONNECTING
(`OthersConnectNothing`), and each place at which it leaves its slot is one at
which the slot is not CONNECTING any more.

The other theorems build on `BaseInv`, each with the invariant that makes its
property inductive:

- `ReadyInv`: the worker is never inside an attempt on a slot that is READY, so
  the stores of IDLE that end an attempt (they take no lock) find it in another
  state. `ReadyOnlyTornDown` follows: what is left are the teardowns.
- `DisarmInv`: a READY slot is OFF, or the worker is between its CONNECTING ->
  READY and the store of OFF, which it makes before it gives the lock back; and
  the arming of a release never comes upon a READY slot. It needs `ReadyInv`.
- `HuntInv`: a saved or armed slot has a name to connect to, and so has every slot
  an arming place has decided to arm. The decision is read before it is used:
  this is kept because a target, once a name, stays one (`TargetStays`).
- `SessionInv`: each stage of a session belongs to a place of the worker or of a
  teardown. Its last two conjuncts are the hard ones: a teardown that found a
  session not up yet leaves it open, and the worker, still inside its attempt,
  gives it up.
- `ClaimedStays`: a claim moves from the claimer to the queue to the worker without
  a gap, whoever else cancels or claims; no further invariant is needed.
- `ViewInv`: the host's table, or the snapshot on its way to it, is right about
  each slot, or some task is at a place behind which a list is inevitable
  (`Owing`). `MutexInv` (one list at a time) makes the last snapshot the one that
  arrives last; `HoldInv` says that the long press remembers having torn a
  slot down until it has pushed its list.

- *No deadlock.* Whoever is waited for holds a lifecycle lock or the list mutex, or is
  the worker in a handshake (`WaitedForHolds`, from `LockInv`, `MutexInv` and
  `SessionInv`). At such a place a task waits for nothing but, in `close()`, the
  worker's handshake, and in a handshake the worker waits for nobody: every wait is at
  most two deep (`WaitsAreShort`), so there is no circle. It is the order of the locks that
  the code never states: no lock is taken while the list mutex is held, no list is
  pushed under a lifecycle lock, and an open holds none of them.
- *Adopted hunts.* An attempt ends in a teardown, a cancel, the worker's own steps or its
  drop (`WorkerEndsAttempt`, `OthersEndAttempt`), and whoever settles the hunt does so or
  hands it on (`SettlersSettle`; a claim that is lost to a READY slot leaves it to the
  worker that published READY, by `DisarmInv`). What is left is that a teardown hits
  an OFF slot: `TornOff` says so of every task in the closing half of a teardown. The
  worker's teardown of an abandoned connect does not disarm, so `TornOff` needs
  `AbandonOff`: once another task has taken the slot away from a connect under
  way, the slot is OFF and stays so until the worker has given it up, because
  nothing can arm a slot that has not been READY since.
- *The refinement.* Each action that stores neither a state nor a hunt keeps `Hunt`
  (`HuntKept`, `NothingStored`), and each that stores one has a lemma that names its
  transition. The hard steps are the first of two stores: `FinishRefines` takes both at
  once and `ReadyOffRefines` then stutters, because the lock keeps every other task from
  storing the slot's hunt in between (`BaseInv`, `DisarmInv`); `ReleaseInv` says that a
  slot whose lost link is being released stays READY, hence OFF, until it is freed.
  `AcquireRefines` needs `ConnInv` for "no other slot is connecting".
- *The schedule.* Everything is stated in differences modulo `ClockRange`. `GapInv`
  relates `overdue` to `rested`: since the gap was set they advance together, from
  `ClockRange - backoff`, so the signed difference is negative exactly until the gap is
  over, and the wrap-around is harmless because twice the cap is within the clock.
  `HuntAge` relates `armedFor` to `away` (a pass sees the loss at most one `MaxPass`
  late) and `OldestHunt` bounds both below `ClockRange`: a hunt that is older than its
  time was adopted, has an attempt under way, or is given up by one of the next two
  passes, so it never laps the clock. `HeldInv` is `OneSlotHeld` made inductive: a pass
  that has not seen a busy slot has seen none held, and a slot is held only while it is
  busy. Of the other tasks these proofs use only what `EnvironmentTurns` derives from
  `SlotLifecycle`.
- *The receiver.* `BoundsInv` (types and `NeverOverrun` together) is inductive by
  itself. What is owed is a matter of the rest of the line: `KeptInv` says that what is
  yet to be read, up to the last byte of a frame that is owed, is the rest of one frame
  followed by whole frames (`WholeFrames`, stated about the whole rest at once, so that
  no induction is needed), that the receiver is in step with it (`InStep`), that a pause
  of the burst is not taken for the gap (`PauseInv`, from `SilenceInv`, which relates
  the receiver's silence to the line's), and that each frame owed was delivered or ends in
  that rest. The line may be tainted behind it: a stray byte or an overrun only cuts the
  rest short (`Cut`). `LineInv` (the bytes come in the order they were sent) and `GotInv`
  (what was delivered comes before what is still coming) give the order. `QuietResets` is
  what makes a resync safe: when the taint is forgotten, nothing is left in the line or
  the buffer and the receiver will start a new frame.
- *The saved names.* `NamesInv` says for each slot how far the task in the middle of
  a save, a forget or the boot has got (`Progress`), and that a save holds the lock the
  teardown of a forget waits for; it is `NamesAgree` at rest. `ForgetInv` says of a
  forgotten slot that while its forget goes on no user has claimed it, and it is connected
  only if it `raced`; and that after it, unless excused, the slot is `Gone`, nobody is
  saving it and the loop task is not about to claim it. The excuses must be recorded
  where the forget ends: what the firmware had begun by then is what can still bring the
  sensor back, and once it has begun nothing it begins nothing, because flag, key and
  hunt are gone.
- *The host session.* `PlaceInv` says where the worker is while a slot is CONNECTING or
  a session is open without being READY; `SamplesAccounted` is inductive with it.
  `FirstInv` and `GreetInv` say who owes the first T_HELLO (the next command, or the
  worker that won the compare-and-swap) and that nothing is introduced until it is sent;
  they need that a connect does not fit between the exchange of `hostLink` and the
  handshake. `TakeInv` carries `isReady()` over to the last frame of the slot's turn: a
  teardown in between empties the queue, and the worker is not at that slot.
  `HostKnowsReady` needs three more: `AnswerInv` (who is being answered), `KnownInv` (a
  slot that is being introduced is known as far as it was introduced, unless `lost`) and
  `ToldInv` (which slots the answer under way has covered, and that a slot missing from
  the list is one the worker is about to list).

Every invariant and action property of the passing runs has a theorem. Only
model-checked are the three liveness properties (under fairness, out of the prover's
reach) and the findings (a violated property has no theorem).

## 5. Not modelled

- `uart-adapter.cpp`: encoding of MsgPack documents and I/O under a send mutex; it has
  no state that the rest reads back. Its mutex is the reason a frame is one step.
- The refresh of T_DEVSTATS in `vernierHandler` and the status mutex, which protects a
  triple of values that are only formatted; the length of the sleeps.
- The sampling period: `setSamplingRate` stores it and restarts a stream; no decision
  but the sleep depends on it. `stopReading` and `pollAll` are never called.
- Logging, build scripts, pin and port set-up.
- GoGoVernier and NimBLE (git submodules, not in the repository) beyond the stages of
  a session that the firmware can tell apart. What `open()`, `close()` and the notify
  task do is taken from how `src/` uses them and marked external.

----------------------------- MODULE SavedNames -----------------------------
(***************************************************************************)
(* The saved sensor names: the keys deviceName0, deviceName1, ... in flash *)
(* and what the firmware holds of them in RAM.  setup() of src/main.cpp    *)
(* loads them and migrates the one name of the v1 firmware,                *)
(* saveConnectedSensor() of the worker stores a name under the slot's      *)
(* lifecycle lock, cmdForget() of the UART task removes it without.        *)
(* Who asked for a connect is kept, the user or the firmware itself: the   *)
(* loop task first finds the slot saved (autoConnectDevice) or armed       *)
(* (reconnectLostSensors) and claims it in a later step.                   *)
(*                                                                         *)
(* The board may be reset between any two steps, and any use of the flash  *)
(* may fail: the namespace does not open, or the write does not succeed.   *)
(* NvsScope holds nvsMutex, so a use of the flash is one step.             *)
(***************************************************************************)
EXTENDS Naturals

CONSTANTS
    N,       \* VERNIER_MAX_SLOTS
    Sensors, \* names of sensors
    NoName   \* no key, or VERNIER_DEFAULT_DEVICE_NAME

Slots == 0 .. N - 1
Names == Sensors \cup {NoName}

ASSUME NamesAssumption == N \in Nat \ {0} /\ NoName \notin Sensors

VARIABLES
    key, legacy,            \* flash: deviceName<i>, and v1's deviceName
    saved, target, found,   \* slotHasSavedDevice, _open_device, foundSavedDevice
    conn,                   \* sensor of the READY slot, or NoName
    claim, armed,           \* who has the slot REQUESTED or CONNECTING; not OFF
    boot, loading,          \* place of setup(), and the slot it loads
    worker, uart, loop,     \* place of a task
    wslot, uslot, lslot,    \* the slot it is about
    failed,     \* the slot's last use of the flash, this boot's or a later one, failed
    raced,      \* the slot last became READY in the middle of its forget
    forgotten,  \* torn down by a forget, and no user asked for a connect since
    notRemoved, \* when that forget ended the key could be in flash: `failed`
    overtaken   \* and the firmware was connecting the slot, or about to

flash == <<key, legacy>>
names == <<saved, target, found>>
slots == <<conn, claim, armed>>
setup == <<boot, loading>>
places == <<worker, uart, loop>>
tasks == <<places, wslot, uslot, lslot>>
forget == <<forgotten, notRemoved, overtaken>>
history == <<failed, raced, forget>>
vars == <<flash, names, slots, setup, tasks, history>>

Set(f, i, v) == [f EXCEPT ![i] = v]
All(v) == [i \in Slots |-> v]

(* A board that was never connected, with or without a v1 name. *)
Init ==
    /\ key = All(NoName)
    /\ legacy \in Names
    /\ saved = All(FALSE) /\ target = All(NoName) /\ found = FALSE
    /\ conn = All(NoName) /\ claim = All("none") /\ armed = All(FALSE)
    /\ boot = "migrate" /\ loading = 0
    /\ worker = "idle" /\ uart = "idle" /\ loop = "idle"
    /\ wslot = 0 /\ uslot = 0 /\ lslot = 0
    /\ failed = All(FALSE) /\ raced = All(FALSE)
    /\ forgotten = All(FALSE) /\ notRemoved = All(FALSE) /\ overtaken = All(FALSE)

Running == boot = "run"
Locked(i) == worker \in {"putKey", "setFlag", "setTarget"} /\ wslot = i
Forgetting(i) == uart \in {"removeKey", "clearFlag"} /\ uslot = i

-----------------------------------------------------------------------------
(* setup() *)

(* The namespace does not open: no name is loaded. *)
BootWithoutNames ==
    /\ boot = "migrate"
    /\ boot' = "run"
    /\ failed' = All(TRUE)
    /\ UNCHANGED <<flash, names, slots, loading, tasks, raced, forget>>

\* MUTANT: the v1 name replaces a newer one.
MustMigrateAlways == legacy # NoName

MustMigrate == legacy # NoName /\ key[0] = NoName

(* v1's name becomes the name of slot 0; its own key stays. *)
Migrate ==
    /\ boot = "migrate"
    /\ boot' = "load" /\ loading' = 0
    /\ IF MustMigrate
         THEN key' = Set(key, 0, legacy) \/ UNCHANGED key
         ELSE UNCHANGED key
    /\ UNCHANGED <<legacy, names, slots, tasks, history>>

\* MUTANT: one slot too many is loaded.
LoadSlotPastEnd ==
    /\ boot = "load"
    /\ IF loading < N
         THEN loading' = loading + 1 /\ UNCHANGED boot
         ELSE boot' = "run" /\ UNCHANGED loading
    /\ IF key[loading] = NoName
         THEN UNCHANGED <<saved, target, found>>
         ELSE /\ target' = Set(target, loading, key[loading])
              /\ saved' = Set(saved, loading, TRUE)
              /\ found' = TRUE
    /\ UNCHANGED <<flash, slots, tasks, history>>

LoadSlot ==
    /\ boot = "load"
    /\ IF loading < N - 1
         THEN loading' = loading + 1 /\ UNCHANGED boot
         ELSE boot' = "run" /\ UNCHANGED loading
    /\ IF key[loading] = NoName
         THEN UNCHANGED <<saved, target, found>>
         ELSE /\ target' = Set(target, loading, key[loading])
              /\ saved' = Set(saved, loading, TRUE)
              /\ found' = TRUE
    /\ UNCHANGED <<flash, slots, tasks, history>>

(* A reset loses all but the flash; a forget in the middle is none. *)
Reset ==
    /\ boot' = "migrate" /\ loading' = 0
    /\ saved' = All(FALSE) /\ target' = All(NoName) /\ found' = FALSE
    /\ conn' = All(NoName) /\ claim' = All("none") /\ armed' = All(FALSE)
    /\ worker' = "idle" /\ uart' = "idle" /\ loop' = "idle"
    /\ wslot' = 0 /\ uslot' = 0 /\ lslot' = 0
    /\ failed' = All(FALSE) /\ raced' = All(FALSE)
    /\ forgotten' = [i \in Slots |-> forgotten[i] /\ ~Forgetting(i)]
    /\ UNCHANGED <<flash, notRemoved, overtaken>>

-----------------------------------------------------------------------------
(* Connects. *)

Free(i) == conn[i] = NoName /\ claim[i] = "none"

(* The slot is torn down to be forgotten, or it is asked for again. *)
ForgetBegins(i, torn) ==
    /\ forgotten' = Set(forgotten, i, torn)
    /\ notRemoved' = Set(notRemoved, i, FALSE) /\ overtaken' = Set(overtaken, i, FALSE)

(* C_CONNECT on the UART task or the button on the loop task: a claim, or the
   attempt under way for an armed slot is taken over.                       *)
UserConnects(i) ==
    /\ Running /\ (uart = "idle" \/ loop = "idle")
    /\ Free(i) \/ (claim[i] = "firmware" /\ armed[i])
    /\ claim' = Set(claim, i, "user")
    /\ ForgetBegins(i, FALSE)
    /\ UNCHANGED <<flash, names, conn, armed, setup, tasks, failed, raced>>

(* autoConnectDevice() finds the slot saved, or reconnectLostSensors() armed. *)
FirmwareLooks(i) ==
    /\ Running /\ loop = "idle"
    /\ saved[i] \/ armed[i]
    /\ loop' = "claim" /\ lslot' = i
    /\ UNCHANGED <<flash, names, slots, setup, worker, uart, wslot, uslot, history>>

FirmwareClaims ==
    /\ loop = "claim"
    /\ claim' = IF Free(lslot) THEN Set(claim, lslot, "firmware") ELSE claim
    /\ loop' = "idle" /\ lslot' = 0
    /\ UNCHANGED <<flash, names, conn, armed, setup, worker, uart, wslot, uslot, history>>

(* The connect fails, is cancelled, or its request is dropped. *)
Fails(i) ==
    /\ Running /\ claim[i] # "none"
    /\ claim' = Set(claim, i, "none")
    /\ UNCHANGED <<flash, names, conn, armed, setup, tasks, history>>

(* The boot connect of a saved slot fails: tryArmFailedConnect(), unless the slot
   was torn down since the flag was read.  Which pass was the boot's is left out, and
   a claim made since is taken for the one that failed.                      *)
FailsAtBoot(i) ==
    /\ Running /\ worker = "idle"
    /\ claim[i] = "firmware" /\ saved[i]
    /\ worker' = "arm" /\ wslot' = i
    /\ UNCHANGED <<flash, names, slots, setup, uart, loop, uslot, lslot, history>>

ArmsFailed ==
    /\ worker = "arm"
    /\ worker' = "idle" /\ wslot' = 0
    /\ armed' = Set(armed, wslot, armed[wslot] \/ claim[wslot] = "firmware")
    /\ claim' = Set(claim, wslot, "none")
    /\ UNCHANGED <<flash, names, conn, setup, uart, loop, uslot, lslot, history>>

(* The hunt is given up, or its sensor was connected to another slot. *)
Disarms(i) ==
    /\ Running /\ armed[i]
    /\ armed' = Set(armed, i, FALSE)
    /\ UNCHANGED <<flash, names, conn, claim, setup, tasks, history>>

-----------------------------------------------------------------------------
(* The worker: publishConnectResult() and saveConnectedSensor(), under the
   lifecycle lock of the slot from READY to the end of the save.            *)

(* Any sensor: a claim may be answered by an older request for the slot. *)
BecomesReady(i, s) ==
    /\ Running /\ worker = "idle"
    /\ conn[i] = NoName /\ claim[i] # "none"
    /\ conn' = Set(conn, i, s)
    /\ claim' = Set(claim, i, "none") /\ armed' = Set(armed, i, FALSE)
    /\ worker' = "putKey" /\ wslot' = i
    /\ raced' = Set(raced, i, Forgetting(i))
    /\ UNCHANGED <<flash, names, setup, uart, loop, uslot, lslot, failed, forget>>

(* putString(), or its failure, which nobody looks at. *)
PutKey ==
    /\ worker = "putKey"
    /\ worker' = "setFlag"
    /\ \/ /\ key' = Set(key, wslot, conn[wslot])
          /\ failed' = Set(failed, wslot, FALSE)
       \/ /\ UNCHANGED key
          /\ failed' = Set(failed, wslot, TRUE)
    /\ UNCHANGED <<legacy, names, slots, setup, uart, loop, wslot, uslot, lslot, raced, forget>>

SetFlag ==
    /\ worker = "setFlag"
    /\ worker' = "setTarget"
    /\ saved' = Set(saved, wslot, TRUE)
    /\ UNCHANGED <<flash, target, found, slots, setup, uart, loop, wslot, uslot, lslot, history>>

\* MUTANT: the slot goes on connecting to the sensor it had before.
SetNoTarget ==
    /\ worker = "setTarget"
    /\ worker' = "idle" /\ wslot' = 0
    /\ found' = TRUE
    /\ UNCHANGED <<flash, saved, target, slots, setup, uart, loop, uslot, lslot, history>>

(* foundSavedDevice and setOpenDevice(), then the lock is given back. *)
SetTarget ==
    /\ worker = "setTarget"
    /\ worker' = "idle" /\ wslot' = 0
    /\ found' = TRUE
    /\ target' = Set(target, wslot, conn[wslot])
    /\ UNCHANGED <<flash, saved, slots, setup, uart, loop, uslot, lslot, history>>

-----------------------------------------------------------------------------
(* The teardowns, which wait for the slot's lifecycle lock. *)

(* C_DISCONNECT on the UART task, a long press on the loop task: the name stays. *)
Disconnects(i) ==
    /\ Running /\ ~Locked(i) /\ (uart = "idle" \/ loop = "idle")
    /\ conn' = Set(conn, i, NoName)
    /\ claim' = Set(claim, i, "none") /\ armed' = Set(armed, i, FALSE)
    /\ UNCHANGED <<flash, names, setup, tasks, history>>

(* releaseLostLinks() reads the flag, then looks for a lost link under the lock. *)
ReleaseReads(i) ==
    /\ Running /\ loop = "idle"
    /\ loop' = IF saved[i] THEN "releaseSaved" ELSE "release"
    /\ lslot' = i
    /\ UNCHANGED <<flash, names, slots, setup, worker, uart, wslot, uslot, history>>

ReleaseLost ==
    /\ loop \in {"releaseSaved", "release"} /\ ~Locked(lslot)
    /\ \/ /\ conn[lslot] # NoName
          /\ conn' = Set(conn, lslot, NoName)
          /\ armed' = Set(armed, lslot, loop = "releaseSaved")
       \/ UNCHANGED <<conn, armed>>
    /\ loop' = "idle" /\ lslot' = 0
    /\ UNCHANGED <<flash, names, claim, setup, worker, uart, wslot, uslot, history>>

(* A forget ends: what was going on then, while the flag or the hunt said yes.  *)
ForgetEnds(i) ==
    /\ notRemoved' = Set(notRemoved, i, failed[i])
    /\ overtaken' = Set(overtaken, i,
         raced[i] \/ claim[i] = "firmware" \/ armed'[i] \/ (loop = "claim" /\ lslot = i))

(* cmdForget(): nothing saved and nothing connected is forgotten already. *)
ForgetsNothing(i) ==
    /\ Running /\ uart = "idle"
    /\ ~saved[i] /\ Free(i)
    /\ armed' = Set(armed, i, FALSE)
    /\ forgotten' = Set(forgotten, i, TRUE)
    /\ ForgetEnds(i)
    /\ UNCHANGED <<flash, names, conn, claim, setup, tasks, failed, raced>>

Forgets(i) ==
    /\ Running /\ uart = "idle"
    /\ saved[i] \/ ~Free(i)
    /\ uart' = "disconnect" /\ uslot' = i
    /\ UNCHANGED <<flash, names, slots, setup, worker, loop, wslot, lslot, history>>

\* MUTANT: the forget does not wait for the slot's lifecycle lock.
ForgetDisconnectsUnlocked ==
    /\ uart = "disconnect"
    /\ uart' = "removeKey"
    /\ conn' = Set(conn, uslot, NoName)
    /\ claim' = Set(claim, uslot, "none") /\ armed' = Set(armed, uslot, FALSE)
    /\ raced' = Set(raced, uslot, FALSE) /\ ForgetBegins(uslot, TRUE)
    /\ UNCHANGED <<flash, names, setup, worker, loop, wslot, uslot, lslot, failed>>

ForgetDisconnects ==
    /\ uart = "disconnect" /\ ~Locked(uslot)
    /\ uart' = "removeKey"
    /\ conn' = Set(conn, uslot, NoName)
    /\ claim' = Set(claim, uslot, "none") /\ armed' = Set(armed, uslot, FALSE)
    /\ raced' = Set(raced, uslot, FALSE) /\ ForgetBegins(uslot, TRUE)
    /\ UNCHANGED <<flash, names, setup, worker, loop, wslot, uslot, lslot, failed>>

(* remove(), or its failure, which nobody looks at. *)
RemoveKey ==
    /\ uart = "removeKey"
    /\ uart' = "clearFlag"
    /\ \/ /\ key' = Set(key, uslot, NoName)
          /\ failed' = Set(failed, uslot, FALSE)
       \/ /\ UNCHANGED key
          /\ failed' = Set(failed, uslot, TRUE)
    /\ UNCHANGED <<legacy, names, slots, setup, worker, loop, wslot, uslot, lslot, raced, forget>>

ClearFlag ==
    /\ uart = "clearFlag"
    /\ uart' = "idle" /\ uslot' = 0
    /\ saved' = Set(saved, uslot, FALSE)
    /\ UNCHANGED armed
    /\ ForgetEnds(uslot)
    /\ UNCHANGED <<flash, target, found, conn, claim, setup, worker, loop, wslot, lslot,
                   failed, raced, forgotten>>

-----------------------------------------------------------------------------
Setup == BootWithoutNames \/ Migrate \/ LoadSlot

Connecting ==
    \/ \E i \in Slots : UserConnects(i) \/ FirmwareLooks(i) \/ Fails(i) \/ FailsAtBoot(i) \/ Disarms(i)
    \/ FirmwareClaims \/ ArmsFailed

Saving == (\E i \in Slots, s \in Sensors : BecomesReady(i, s)) \/ PutKey \/ SetFlag \/ SetTarget

Releasing == (\E i \in Slots : Disconnects(i) \/ ReleaseReads(i)) \/ ReleaseLost

Forget ==
    \/ \E i \in Slots : ForgetsNothing(i) \/ Forgets(i)
    \/ ForgetDisconnects \/ RemoveKey \/ ClearFlag

Next == Setup \/ Reset \/ Connecting \/ Saving \/ Releasing \/ Forget

Spec == Init /\ [][Next]_vars

-----------------------------------------------------------------------------
(* Types of flash, RAM and the places of the tasks. *)
TypeOK ==
    /\ key \in [Slots -> Names] /\ legacy \in Names
    /\ saved \in [Slots -> BOOLEAN] /\ target \in [Slots -> Names] /\ found \in BOOLEAN
    /\ conn \in [Slots -> Names]
    /\ claim \in [Slots -> {"none", "firmware", "user"}] /\ armed \in [Slots -> BOOLEAN]
    /\ boot \in {"migrate", "load", "run"} /\ loading \in Slots
    /\ worker \in {"idle", "arm", "putKey", "setFlag", "setTarget"} /\ wslot \in Slots
    /\ uart \in {"idle", "disconnect", "removeKey", "clearFlag"} /\ uslot \in Slots
    /\ loop \in {"idle", "claim", "releaseSaved", "release"} /\ lslot \in Slots
    /\ failed \in [Slots -> BOOLEAN] /\ raced \in [Slots -> BOOLEAN]
    /\ forgotten \in [Slots -> BOOLEAN] /\ notRemoved \in [Slots -> BOOLEAN]
    /\ overtaken \in [Slots -> BOOLEAN]

AtRest(i) == Running /\ ~Locked(i) /\ (uart = "idle" \/ uslot # i)

(* When nobody is in the middle of saving or forgetting a slot, flash, flag and
   connect target agree, after a boot as after a save or a forget: the slot counts
   as saved exactly if the next boot finds its name, and it is this name it
   connects to.  Not promised are a slot whose last use of the flash failed, and
   one that became READY between the teardown and the end of its forget
   (control-loop.cpp:222-246, 855-868, main.cpp:358-373).                   *)
NamesAgree ==
    \A i \in Slots :
        AtRest(i) /\ ~failed[i] /\ ~raced[i] =>
            /\ saved[i] <=> key[i] # NoName
            /\ saved[i] => target[i] = key[i] /\ found

Gone(i) == key[i] = NoName /\ ~saved[i] /\ Free(i) /\ ~armed[i]

(* A sensor the user forgot is not connected again by the firmware itself, neither
   before nor after a reset, whichever step it comes at: once the forget has ended,
   and until a user asks for a connect, the slot has no name, is not saved, not
   connected, and nobody is connecting or looking for it.  Three exceptions:
   - the key could not be removed, or could not be read at boot, so that the forget
     found nothing saved (notRemoved);
   - when the flag was cleared the firmware had already read it, or found the slot
     armed, and was connecting the slot or about to (overtaken);
   - slot 0 of a board that ran the v1 firmware, whose old name the next boot
     migrates again (control-loop.cpp:540-547, 828-871, main.cpp:338-356).   *)
ForgottenStays ==
    \A i \in Slots :
        forgotten[i] /\ ~Forgetting(i) =>
            \/ Gone(i)
            \/ notRemoved[i] \/ overtaken[i]
            \/ i = 0 /\ legacy # NoName

(* A boot changes no name that is in flash, so a reset in the middle of it, at any
   step and any number of times, lets the migration repeat nothing wrongly; and a
   boot that can use the flash ends with exactly the slots saved whose names it
   found (main.cpp:338-374).                                                *)
MigrationKeepsNames ==
    [][/\ ~Running => \A i \in Slots : key[i] # NoName => key'[i] = key[i]
       /\ boot = "load" /\ boot' = "run" =>
            \A i \in Slots : saved'[i] <=> key[i] # NoName]_vars
=============================================================================

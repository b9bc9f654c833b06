------------------------------ MODULE LoopTask ------------------------------
(***************************************************************************)
(* The Arduino loop(): autoConnectDevice(), releaseLostLinks(),            *)
(* reconnectLostSensors() and buttonHandler(), one after the other, each   *)
(* slot by slot.  Time is abstracted: a delay may have run out at any      *)
(* pass.  The button pin is an input.                                      *)
(***************************************************************************)
EXTENDS SlotOperations

LoopSlot == at["loop"]

-----------------------------------------------------------------------------
(* autoConnectDevice() *)

\* A pass starts when C_SET_PERIOD asked for one or, the first time, when the
\* host has been silent for AUTO_CONNECT_HOSTLESS_DELAY_MS.  Only the first
\* pass counts as the boot connect.
AutoStart ==
    /\ Here("loop", "start")
    /\ startAuto \/ (~started /\ foundSaved)
    /\ startAuto' = FALSE
    /\ started' = TRUE
    /\ Begin("loop", "autoSlot", IF started THEN "auto" ELSE "boot", 0)
    /\ UNCHANGED <<adapterVars, notAuto>>

NoAutoStart ==
    /\ Here("loop", "start")
    /\ ~startAuto
    /\ Begin("loop", "release", "release", 0)
    /\ UNCHANGED <<adapterVars, otherVars>>

AutoSlot ==
    /\ Here("loop", "autoSlot")
    /\ IF saved[LoopSlot] THEN Goto("loop", "claim") ELSE Continue
    /\ UNCHANGED <<adapterVars, otherVars>>

-----------------------------------------------------------------------------
(* releaseLostLinks() and releaseIfLinkLost() *)

\* MUTANT: every lost link is armed, saved name or not.
ReleaseReadNothing ==
    /\ Here("loop", "release")
    /\ GotoWith("loop", "releaseLock", TRUE)
    /\ UNCHANGED <<adapterVars, otherVars>>

ReleaseRead ==
    /\ Here("loop", "release")
    /\ GotoWith("loop", "releaseLock", saved[LoopSlot])
    /\ UNCHANGED <<adapterVars, otherVars>>

LinkLost(s) == isReady(s) /\ ~isLinkUp(s)

\* MUTANT: a link that was lost but not closed yet is left alone.
ReleaseLockIfClosed ==
    /\ Here("loop", "releaseLock")
    /\ lifecycle[LoopSlot] = Free
    /\ IF isReady(LoopSlot) /\ ~isConnected(LoopSlot)
       THEN lockLifecycle(LoopSlot, "loop") /\ Goto("loop", "close")
       ELSE ContinueWith(FALSE) /\ UNCHANGED lifecycle
    /\ UNCHANGED <<connState, reconnect, link, sensor, openDevice, otherVars>>

\* The check is made under the lock; teardown() follows it when it holds.
ReleaseLock ==
    /\ Here("loop", "releaseLock")
    /\ lifecycle[LoopSlot] = Free
    /\ IF LinkLost(LoopSlot)
       THEN lockLifecycle(LoopSlot, "loop") /\ Goto("loop", "close")
       ELSE ContinueWith(FALSE) /\ UNCHANGED lifecycle
    /\ UNCHANGED <<connState, reconnect, link, sensor, openDevice, otherVars>>

\* MUTANT: the lock is given back before the slot is armed.
ReleaseIdleUnlocked ==
    /\ Here("loop", "setIdle")
    /\ op["loop"] = "release"
    /\ setState(LoopSlot, "IDLE")
    /\ unlockLifecycle(LoopSlot)
    /\ Goto("loop", IF flag["loop"] THEN "arm" ELSE "list")
    /\ UNCHANGED <<reconnect, link, sensor, openDevice, otherVars>>

ReleaseIdle ==
    /\ Here("loop", "setIdle")
    /\ op["loop"] = "release"
    /\ setState(LoopSlot, "IDLE")
    /\ IF flag["loop"]
       THEN Goto("loop", "arm") /\ UNCHANGED lifecycle
       ELSE Goto("loop", "list") /\ unlockLifecycle(LoopSlot)
    /\ UNCHANGED <<reconnect, link, sensor, openDevice, otherVars>>

ReleaseArm ==
    /\ Here("loop", "arm")
    /\ setReconnectState(LoopSlot, "ARMED")
    /\ unlockLifecycle(LoopSlot)
    /\ Goto("loop", "list")
    /\ UNCHANGED <<connState, link, sensor, openDevice, otherVars>>

-----------------------------------------------------------------------------
(* reconnectLostSensors() *)

BusyScan ==
    /\ Here("loop", "busyScan")
    /\ GotoWith("loop", "sched",
                \E s \in Slots : connState[s] \in {"REQUESTED", "CONNECTING"})
    /\ UNCHANGED <<adapterVars, otherVars>>

\* A slot that left OFF since the last pass starts its schedule afresh, and its
\* first attempt is one gap away.
JustLeftOff(i) == seen[i] = "OFF" /\ reconnect[i] # "OFF"

StillInFlight(i) == inFlight[i] /\ ~JustLeftOff(i)

SchedulePass ==
    /\ Here("loop", "sched")
    /\ seen' = [seen EXCEPT ![LoopSlot] = reconnect[LoopSlot]]
    /\ UNCHANGED <<adapterVars, notSchedule>>

setInFlight(b) == inFlight' = [inFlight EXCEPT ![LoopSlot] = b]

\* OFF, or ADOPTED by a user connect.
SchedNotArmed ==
    /\ reconnect[LoopSlot] # "ARMED"
    /\ SchedulePass
    /\ setInFlight(FALSE)
    /\ Continue

\* MUTANT: an attempt never counts as resolved.
SchedAlwaysInFlight ==
    /\ reconnect[LoopSlot] = "ARMED"
    /\ StillInFlight(LoopSlot)
    /\ SchedulePass
    /\ setInFlight(TRUE)
    /\ Continue

\* The slot's attempt is resolved once the slot is IDLE again.
SchedInFlight ==
    /\ reconnect[LoopSlot] = "ARMED"
    /\ StillInFlight(LoopSlot)
    /\ SchedulePass
    /\ setInFlight(isSlotOccupied(LoopSlot))
    /\ Continue

SchedResting ==
    /\ reconnect[LoopSlot] = "ARMED"
    /\ ~StillInFlight(LoopSlot)
    /\ SchedulePass
    /\ setInFlight(FALSE)

SchedWait == SchedResting /\ Continue

SchedGiveUp ==
    /\ ~JustLeftOff(LoopSlot)
    /\ SchedResting
    /\ Goto("loop", "giveUp")

SchedDue ==
    /\ ~JustLeftOff(LoopSlot) /\ ~flag["loop"]
    /\ SchedResting
    /\ Goto("loop", "claim")

\* tryGiveUpReconnect() loses to a user connect that adopted the slot; the
\* pass then goes on as if the give-up time had not come.
GiveUp ==
    /\ Here("loop", "giveUp")
    /\ \/ /\ tryGiveUpReconnect(LoopSlot)
          /\ seen' = [seen EXCEPT ![LoopSlot] = "OFF"]
          /\ Continue
       \/ /\ reconnect[LoopSlot] # "ARMED"
          /\ Continue \/ (~flag["loop"] /\ Goto("loop", "claim"))
          /\ UNCHANGED <<reconnect, seen>>
    /\ UNCHANGED <<notReconnect, notSchedule, inFlight>>

-----------------------------------------------------------------------------
(* buttonHandler() *)

\* No event: the button is up, or it is held and nothing is due.
ButtonQuiet ==
    /\ Here("loop", "button")
    /\ button' \in {button, "RELEASE"}
    /\ LoopRest
    /\ UNCHANGED <<adapterVars, notInput, cmds, presses, losses>>

\* A short press connects the nearest sensor to the first free slot.
ButtonPress ==
    /\ Here("loop", "button")
    /\ button = "RELEASE" /\ presses < MaxPresses
    /\ button' = "PRESS" /\ presses' = presses + 1
    /\ IF FirstFreeSlots = {}
       THEN LoopRest
       ELSE \E s \in FirstFreeSlots : Begin("loop", "adopt", "press", s)
    /\ UNCHANGED <<adapterVars, notInput, cmds, losses>>

\* A long press tears every slot down.
ButtonLongPress ==
    /\ Here("loop", "button")
    /\ button = "PRESS"
    /\ button' = "LONG_PRESS"
    /\ Begin("loop", "hold", "hold", 0)
    /\ UNCHANGED <<adapterVars, notInput, cmds, presses, losses>>

\* MUTANT: the teardown is not remembered, so no list is pushed for it.
HoldSlotSilently ==
    /\ Here("loop", "hold")
    /\ Goto("loop", IF isSlotOccupied(LoopSlot) THEN "lock" ELSE "holdDisarm")
    /\ UNCHANGED <<adapterVars, otherVars>>

HoldSlot ==
    /\ Here("loop", "hold")
    /\ IF isSlotOccupied(LoopSlot) THEN GotoWith("loop", "lock", TRUE)
                                   ELSE Goto("loop", "holdDisarm")
    /\ UNCHANGED <<adapterVars, otherVars>>

HoldDisarm ==
    /\ Here("loop", "holdDisarm")
    /\ setReconnectState(LoopSlot, "OFF")
    /\ Continue
    /\ UNCHANGED <<notReconnect, otherVars>>

LoopStep ==
    \/ AutoStart \/ NoAutoStart \/ AutoSlot
    \/ ReleaseRead \/ ReleaseLock \/ ReleaseIdle \/ ReleaseArm
    \/ BusyScan \/ SchedNotArmed \/ SchedInFlight \/ SchedWait \/ SchedGiveUp
    \/ SchedDue \/ GiveUp
    \/ ButtonQuiet \/ ButtonPress \/ ButtonLongPress \/ HoldSlot \/ HoldDisarm
    \/ Adopt("loop") \/ ClaimWon("loop") \/ ClaimLost("loop") \/ Send("loop")
    \/ Lock("loop") \/ Close("loop") \/ SetIdle("loop")
    \/ TakeSnapshot("loop") \/ Push("loop")

=============================================================================

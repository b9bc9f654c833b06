------------------------------ MODULE BleWorker ------------------------------
(***************************************************************************)
(* The worker task: bleWorkerEntry(), VernierAdapter::connect() and        *)
(* publishConnectResult().  What a BLE session does is decided by the      *)
(* sensor and the radio: a scan or a handshake may always fail.            *)
(***************************************************************************)
EXTENDS SlotOperations

WorkerSlot == at["worker"]
WorkerGoto(label) == Goto("worker", label)

-----------------------------------------------------------------------------
(* bleWorkerEntry() *)

Receive ==
    /\ Here("worker", "receive")
    /\ queue # <<>>
    /\ req' = Head(queue)
    /\ queue' = Tail(queue)
    /\ Begin("worker", "acquire", "result", Head(queue).slot)
    /\ UNCHANGED <<adapterVars, overflowed, notRequests>>

\* A request whose slot is no longer REQUESTED is skipped.
Acquire ==
    /\ Here("worker", "acquire")
    /\ \/ /\ tryAcquireConnecting(WorkerSlot)
          /\ WorkerGoto("checkBackground")
          /\ UNCHANGED req
       \/ /\ connState[WorkerSlot] # "REQUESTED"
          /\ WorkerRest
          /\ UNCHANGED connState
    /\ UNCHANGED <<notConnState, queue, overflowed, notRequests>>

\* A background attempt whose slot was disarmed meanwhile is dropped.
CheckBackground ==
    /\ Here("worker", "checkBackground")
    /\ WorkerGoto(
          IF req.origin = "BACKGROUND" /\ reconnect[WorkerSlot] = "OFF"
          THEN "drop" ELSE "announce")
    /\ UNCHANGED <<adapterVars, otherVars>>

\* MUTANT: the claim is not given back.
DropKeepsClaim ==
    /\ Here("worker", "drop")
    /\ WorkerRest
    /\ UNCHANGED <<adapterVars, queue, overflowed, notRequests>>

Drop ==
    /\ Here("worker", "drop")
    /\ setState(WorkerSlot, "IDLE")
    /\ WorkerRest
    /\ UNCHANGED <<notConnState, queue, overflowed, notRequests>>

\* An attempt for a slot that waits for its lost sensor announces nothing.
Announce ==
    /\ Here("worker", "announce")
    /\ IF reconnect[WorkerSlot] = "ARMED"
       THEN WorkerGoto("connect")
       ELSE Begin("worker", "list", "announce", WorkerSlot)
    /\ UNCHANGED <<adapterVars, otherVars>>

-----------------------------------------------------------------------------
(* VernierAdapter::connect(force) *)

\* A session that is still open is kept as it is.
Connect ==
    /\ Here("worker", "connect")
    /\ IF link[WorkerSlot] = "ready"
       THEN Begin("worker", "finish", "result", WorkerSlot) /\ UNCHANGED link
       ELSE /\ openSession(WorkerSlot)
            /\ Begin("worker", "scan", "result", WorkerSlot)
    /\ UNCHANGED <<connState, reconnect, lifecycle, sensor, openDevice,
                   otherVars>>

Target == IF req.force THEN Proximity ELSE openDevice[WorkerSlot]

OpenFails ==
    /\ pc["worker"] \in {"scan", "handshake"}
    /\ endSession(WorkerSlot)
    /\ WorkerGoto("fail")
    /\ UNCHANGED <<notSession, otherVars>>

LinkUp ==
    /\ Here("worker", "scan")
    /\ \E d \in Found(Target, WorkerSlot) : linkTo(WorkerSlot, d)
    /\ WorkerGoto("handshake")
    /\ UNCHANGED <<notSession, otherVars>>

\* The handshake is done and the slot's frames are sent.
Handshake ==
    /\ Here("worker", "handshake")
    /\ handshakeDone(WorkerSlot)
    /\ WorkerGoto("finish")
    /\ UNCHANGED <<notSession, sensor, otherVars>>

-----------------------------------------------------------------------------
(* publishConnectResult() of a connect that succeeded. *)

\* MUTANT: READY is stored without the compare-and-swap.
FinishBlindly ==
    /\ Here("worker", "finish")
    /\ lockLifecycle(WorkerSlot, "worker")
    /\ setState(WorkerSlot, "READY")
    /\ WorkerGoto("readyOff")
    /\ UNCHANGED <<reconnect, link, sensor, openDevice, otherVars>>

\* tryFinishConnecting(): READY is published under the lifecycle lock; when a
\* teardown came first the connect is abandoned.
Finish ==
    /\ Here("worker", "finish")
    /\ lifecycle[WorkerSlot] = Free
    /\ IF connState[WorkerSlot] = "CONNECTING"
       THEN /\ setState(WorkerSlot, "READY")
            /\ lockLifecycle(WorkerSlot, "worker")
            /\ WorkerGoto("readyOff")
       ELSE /\ Begin("worker", "lock", "abandon", WorkerSlot)
            /\ UNCHANGED <<connState, lifecycle>>
    /\ UNCHANGED <<reconnect, link, sensor, openDevice, otherVars>>

\* deviceName() is empty for a sensor without a name and once close() zeroed it.
NameIsEmpty(s) == sensor[s] \in Unnamed \cup {NoSensor}

\* MUTANT: a connect does not end the background reconnect.
ReadyStillHunting ==
    /\ Here("worker", "readyOff")
    /\ IF NameIsEmpty(WorkerSlot)
       THEN WorkerGoto("list") /\ unlockLifecycle(WorkerSlot)
       ELSE WorkerGoto("saveKey") /\ UNCHANGED lifecycle
    /\ UNCHANGED <<connState, reconnect, link, sensor, openDevice, otherVars>>

ReadyOff ==
    /\ Here("worker", "readyOff")
    /\ setReconnectState(WorkerSlot, "OFF")
    /\ IF NameIsEmpty(WorkerSlot)
       THEN WorkerGoto("list") /\ unlockLifecycle(WorkerSlot)
       ELSE WorkerGoto("saveKey") /\ UNCHANGED lifecycle
    /\ UNCHANGED <<connState, link, sensor, openDevice, otherVars>>

\* saveConnectedSensor(): the key in flash, then the flags and the target.
SaveKey ==
    /\ Here("worker", "saveKey")
    /\ nvs' = [nvs EXCEPT ![WorkerSlot] = sensor[WorkerSlot]]
    /\ WorkerGoto("saveFlag")
    /\ UNCHANGED <<adapterVars, notStore, saved, foundSaved>>

SaveFlag ==
    /\ Here("worker", "saveFlag")
    /\ saved' = [saved EXCEPT ![WorkerSlot] = TRUE]
    /\ foundSaved' = TRUE
    /\ openDevice' = [openDevice EXCEPT ![WorkerSlot] = sensor[WorkerSlot]]
    /\ WorkerGoto("disarmOthers")
    /\ UNCHANGED <<connState, reconnect, lifecycle, link, sensor, nvs, notStore>>

\* disarmOtherSlotsWaitingFor()
DisarmOthers ==
    /\ Here("worker", "disarmOthers")
    /\ reconnect' = [j \in Slots |->
                        IF j # WorkerSlot /\ openDevice[j] = sensor[WorkerSlot]
                        THEN "OFF" ELSE reconnect[j]]
    /\ unlockLifecycle(WorkerSlot)
    /\ WorkerGoto("list")
    /\ UNCHANGED <<connState, link, sensor, openDevice, otherVars>>

-----------------------------------------------------------------------------
(* publishConnectResult() of a connect that failed. *)

savedSensorReadyElsewhere(s) ==
    \E i \in Slots \ {s} : isReady(i) /\ openDevice[i] = openDevice[s]

\* Only the boot connect of a saved sensor arms the background reconnect.
Fail ==
    /\ Here("worker", "fail")
    /\ WorkerGoto(
          IF /\ req.origin = "BOOT"
             /\ saved[WorkerSlot]
             /\ ~savedSensorReadyElsewhere(WorkerSlot)
          THEN "armLock" ELSE "failIdle")
    /\ UNCHANGED <<adapterVars, otherVars>>

\* tryArmFailedConnect(): CONNECTING -> IDLE, then OFF -> ARMED.
ArmLock ==
    /\ Here("worker", "armLock")
    /\ lifecycle[WorkerSlot] = Free
    /\ IF connState[WorkerSlot] = "CONNECTING"
       THEN /\ setState(WorkerSlot, "IDLE")
            /\ lockLifecycle(WorkerSlot, "worker")
            /\ WorkerGoto("armSet")
       ELSE WorkerGoto("failIdle") /\ UNCHANGED <<connState, lifecycle>>
    /\ UNCHANGED <<reconnect, link, sensor, openDevice, otherVars>>

ArmSet ==
    /\ Here("worker", "armSet")
    /\ IF reconnect[WorkerSlot] = "OFF"
       THEN setReconnectState(WorkerSlot, "ARMED") /\ WorkerGoto("list")
       ELSE WorkerGoto("failIdle") /\ UNCHANGED reconnect
    /\ unlockLifecycle(WorkerSlot)
    /\ UNCHANGED <<connState, link, sensor, openDevice, otherVars>>

\* MUTANT: a failed connect leaves the slot CONNECTING.
FailKeepsState ==
    /\ Here("worker", "failIdle")
    /\ WorkerGoto("rearm")
    /\ UNCHANGED <<adapterVars, otherVars>>

FailIdle ==
    /\ Here("worker", "failIdle")
    /\ setState(WorkerSlot, "IDLE")
    /\ WorkerGoto("rearm")
    /\ UNCHANGED <<notConnState, otherVars>>

\* A user connect that took over a background reconnect failed: wait on.
Rearm ==
    /\ Here("worker", "rearm")
    /\ \/ tryRearmAdoptedReconnect(WorkerSlot) /\ WorkerGoto("list")
       \/ /\ reconnect[WorkerSlot] # "ADOPTED"
          /\ WorkerGoto("quiet")
          /\ UNCHANGED reconnect
    /\ UNCHANGED <<notReconnect, otherVars>>

\* A failed background attempt changes nothing the host sees: no push.
Quiet ==
    /\ Here("worker", "quiet")
    /\ IF reconnect[WorkerSlot] = "ARMED"
       THEN WorkerRest
       ELSE WorkerGoto("list") /\ UNCHANGED req
    /\ UNCHANGED <<adapterVars, queue, overflowed, notRequests>>

WorkerStep ==
    \/ Receive \/ Acquire \/ CheckBackground \/ Drop \/ Announce
    \/ Connect \/ OpenFails \/ LinkUp \/ Handshake
    \/ Finish \/ ReadyOff \/ SaveKey \/ SaveFlag \/ DisarmOthers
    \/ Fail \/ ArmLock \/ ArmSet \/ FailIdle \/ Rearm \/ Quiet
    \/ Lock("worker") \/ Close("worker") \/ SetIdle("worker")
    \/ TakeSnapshot("worker") \/ Push("worker")

=============================================================================

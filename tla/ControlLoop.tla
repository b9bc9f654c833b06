----------------------------- MODULE ControlLoop -----------------------------
(***************************************************************************)
(* The connection lifecycle of the firmware: the uart, loop and worker     *)
(* tasks of src/control-loop.cpp over the slots of VernierAdapter, with    *)
(* sensors that come and go, and what makes it correct.                    *)
(***************************************************************************)
EXTENDS HostCommands, LoopTask, BleWorker

\* The environment: a sensor goes out of range or is switched off.
LoseLink(s) ==
    /\ link[s] = "ready"
    /\ losses < MaxLosses
    /\ losses' = losses + 1
    /\ link' = [link EXCEPT ![s] = "lost"]
    /\ UNCHANGED <<connState, reconnect, lifecycle, sensor, openDevice,
                   taskVars, notInput, button, cmds, presses>>

Next ==
    \/ dispatchHostCommand
    \/ UartStep
    \/ LoopStep
    \/ WorkerStep
    \/ \E s \in Slots : LoseLink(s)

Spec == Init /\ [][Next]_vars

-----------------------------------------------------------------------------
(* Fairness.  FreeRTOS runs the three tasks for ever (the vTaskDelays of   *)
(* the others let the loop task run), so each is weakly fair; nothing is   *)
(* assumed of the order in which the waiters of a mutex get it.  A hunt    *)
(* that goes on reaches its give-up time: strong fairness of the pass that *)
(* gives up.                                                               *)

Scheduled == WF_vars(UartStep) /\ WF_vars(LoopStep) /\ WF_vars(WorkerStep)

TimePasses == \A s \in Slots : SF_vars(SchedGiveUp /\ LoopSlot = s)

FairSpec == Spec /\ Scheduled /\ TimePasses

-----------------------------------------------------------------------------
(* Safety. *)

\* The places at which the worker is connecting a slot it has acquired.
ConnectingPcs ==
    {"checkBackground", "drop", "announce", "list", "push", "connect", "scan",
     "handshake", "finish", "fail", "armLock", "failIdle"}

\* A slot is CONNECTING only while the worker is connecting it: no teardown,
\* cancel or claim of another task leaves a slot CONNECTING that nobody
\* connects (tryAcquireConnecting, tryCancelConnect, tryFinishConnecting).
ConnectingOwned ==
    \A s \in Slots :
        connState[s] = "CONNECTING" =>
            at["worker"] = s /\ pc["worker"] \in ConnectingPcs

\* The worker has an open under way on slot s, or one to publish or abandon.
Opening(s) ==
    /\ at["worker"] = s
    /\ pc["worker"] \in {"scan", "handshake", "finish", "lock"}

\* The state of a slot agrees with its BLE session whenever nobody is changing
\* the two: a READY slot has a session, up or dropped and not yet released; a
\* slot that is IDLE or only REQUESTED has none but the one the worker opens
\* or is about to give up, so that a teardown, also one in the middle of a
\* connect, really lets the sensor go.
SessionMatchesState ==
    \A s \in Slots :
        lifecycle[s] = Free =>
            /\ connState[s] = "READY" => link[s] \in {"ready", "lost"}
            /\ connState[s] \in {"IDLE", "REQUESTED"} /\ ~Opening(s)
                    => link[s] = "closed"

\* A slot that is READY is not looked for: the connect that made it READY has
\* ended the background reconnect before anybody else can tear it down.
ReadyDisarmed ==
    \A s \in Slots :
        connState[s] = "READY" /\ lifecycle[s] = Free => reconnect[s] = "OFF"

\* Somebody will look at the slot's REQUESTED state: its claimer is about to
\* queue it, it is in the queue, or the worker has just taken it off.
Claimed(s) ==
    \/ \E t \in Tasks : pc[t] = "send" /\ at[t] = s
    \/ \E k \in DOMAIN queue : queue[k].slot = s
    \/ pc["worker"] = "acquire" /\ at["worker"] = s

\* No REQUESTED slot is stranded without a request, whatever cancels, claims
\* and stale queue entries there were, unless the queue was full once.
RequestNotStranded ==
    \A s \in Slots : connState[s] = "REQUESTED" => Claimed(s) \/ overflowed

\* A slot that is looked for has a name to look for: a background attempt
\* never turns into a proximity connect that takes any sensor nearby.
HuntHasTarget ==
    \A s \in Slots : reconnect[s] # "OFF" => openDevice[s] # Proximity

\* Somebody will settle the adopted reconnect of slot s: the task that adopted it
\* is about to claim the slot or the cancel of its request to re-arm it, or the
\* worker, behind a connect, to re-arm or to end it.
Settling(s) ==
    \/ \E t \in Tasks : at[t] = s /\ pc[t] \in {"claim", "cancelRearm"}
    \/ at["worker"] = s /\ pc["worker"] \in {"readyOff", "armSet", "failIdle", "rearm"}

\* Nobody goes on with the hunt of slot s: the pass of the loop task skips an
\* ADOPTED slot, and no connect for it is on its way.
Stranded(s) ==
    /\ reconnect[s] = "ADOPTED"
    /\ connState[s] \notin {"REQUESTED", "CONNECTING"}
    /\ ~Settling(s)

\* Nothing is going on and no dropped link waits to be released.
AtRest ==
    /\ pc["uart"] = "poll" /\ pc["loop"] = "start" /\ pc["worker"] = "receive"
    /\ queue = <<>>
    /\ \A s \in Slots : ~LinkLost(s)

\* At rest the host's table shows exactly the READY slots connected: the lists
\* of the three tasks do not overtake one another (devListMutex), and every
\* change from or to READY is pushed.
HostSeesReady ==
    AtRest => \A s \in Slots : hostView[s] = "READY" <=> isReady(s)

\* Task t waits for what task u holds: the lifecycle lock of its slot, the list
\* mutex, or the session the worker is opening (close() waits for open()).
WaitsFor(t, u) ==
    \/ pc[t] \in {"lock", "releaseLock", "finish", "armLock"} /\ lifecycle[at[t]] = u
    \/ pc[t] = "list" /\ devListMutex = u
    \/ pc[t] = "close" /\ link[at[t]] = "linked" /\ u = "worker"

\* No tasks wait for one another in a circle, nor one for itself (the locks are
\* not recursive): in every group of tasks there is one that waits for nobody
\* in it, whatever teardowns, connects and lists are under way.
NoDeadlock ==
    \A group \in (SUBSET Tasks) \ {{}} :
        \E t \in group : \A u \in group : ~WaitsFor(t, u)

\* A READY slot only leaves READY in a teardown that holds its lifecycle lock:
\* the unlocked stores of IDLE (a dropped or failed attempt, a cancel) never
\* hit a slot that is READY.
ReadyEndsInTeardown ==
    [][\A s \in Slots :
          connState[s] = "READY" /\ connState'[s] # "READY" =>
             \E t \in Tasks : lifecycle[s] = t /\ pc[t] = "setIdle"]_vars

\* After an explicit disarm only a link that was lost again, or a boot connect
\* that failed, arms the slot: no late re-arm of an adopted reconnect can undo
\* a C_DISCONNECT, a C_FORGET or a long press.
OffStaysOff ==
    [][\A s \in Slots :
          reconnect[s] = "OFF" /\ reconnect'[s] # "OFF" =>
             /\ reconnect'[s] = "ARMED"
             /\ \E t \in Tasks : lifecycle[s] = t /\ pc[t] \in {"arm", "armSet"}]_vars

\* A user connect that took a hunt over does not leave the slot ADOPTED for ever:
\* whichever cancels, failures and claims come together, the hunt goes on or ends.
\* The exception is a stale background request the worker drops: a loss that arms
\* the slot and a user connect that adopts it can come between its check and its
\* store of IDLE (control-loop.cpp:434-440), which then hits their connect.
AdoptionSettled ==
    [][\A s \in Slots :
          Stranded(s)' => Stranded(s) \/ (at["worker"] = s /\ pc["worker"] = "drop")]_vars

-----------------------------------------------------------------------------
(* What the comments promise and the code does not keep. *)

\* "once we've won the claim above, the queue is guaranteed to have room"
\* (enqueueConnect): the request of a slot that was claimed fits the queue.
QueueHasRoom == \A t \in Tasks : pc[t] = "send" => HasRoom

\* "One sensor, one slot" (disarmOtherSlotsWaitingFor): no slot looks for the
\* sensor that another slot is connected to.
OneSensorOneSlot ==
    AtRest => \A s, r \in Slots :
        isReady(s) /\ r # s /\ reconnect[r] # "OFF" => openDevice[r] # sensor[s]

-----------------------------------------------------------------------------
(* Liveness. *)

\* Every host command ends: none waits for ever for a mutex, or for a BLE
\* session that another task holds.
CommandsComplete == (pc["uart"] # "poll") ~> (pc["uart"] = "poll")

\* A dropped link is noticed and the slot freed.
LostLinkReleased == \A s \in Slots : LinkLost(s) ~> ~isReady(s)

\* A hunt ends, with the sensor back, a user's command or the give-up time,
\* unless the queue lost the slot's attempt.
HuntEnds ==
    \A s \in Slots :
        (reconnect[s] = "ARMED") ~> (reconnect[s] # "ARMED" \/ overflowed)

=============================================================================

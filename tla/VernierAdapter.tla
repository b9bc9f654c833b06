--------------------------- MODULE VernierAdapter ---------------------------
(***************************************************************************)
(* The per-slot state of the firmware: include/vernier-adapter.h and       *)
(* src/vernier-adapter.cpp.  Every slot owns one adapter.  Its atomics are *)
(* the connection state and the background-reconnect state; its lifecycle  *)
(* mutex serialises teardowns with the publication of READY.  GoGoVernier, *)
(* the BLE library underneath, is external: it is modelled by the stages   *)
(* of one BLE session that the adapter can tell apart.                     *)
(*                                                                         *)
(* The operators below are the atomic steps of the adapter's methods, each *)
(* written as the conjuncts an action of ControlLoop takes it from.        *)
(***************************************************************************)
EXTENDS Naturals, FiniteSets

CONSTANTS
    MaxSlots,    \* VERNIER_MAX_SLOTS
    Sensors,     \* the sensors around, by their advertised name
    Unnamed,     \* those of them that report an empty name
    Proximity,   \* VERNIER_DEFAULT_DEVICE_NAME: no saved name, connect by RSSI
    NoSensor,    \* no sensor in the session
    Free         \* nobody holds the mutex

ASSUME SlotsAssumption == MaxSlots \in Nat \ {0}
ASSUME SensorsAssumption ==
    /\ IsFiniteSet(Sensors)
    /\ Unnamed \subseteq Sensors
    /\ Proximity \notin Sensors
    /\ NoSensor \notin Sensors
ASSUME FreeAssumption == Free \notin {"uart", "loop", "worker"}

Slots == 0 .. MaxSlots - 1

\* The tasks that change a slot: uartHandler, the Arduino loop, bleWorker.
Tasks == {"uart", "loop", "worker"}

ConnStates == {"IDLE", "REQUESTED", "CONNECTING", "READY"}
ReconnectStates == {"OFF", "ARMED", "ADOPTED"}

\* One BLE session of GoGoVernier: open() scans, brings the link up and runs
\* the D2PIO handshake; a dropped link stays open until close() is called.
LinkStates == {"closed", "scanning", "linked", "ready", "lost"}

Names == Sensors \cup {Proximity}

VARIABLES
    connState,   \* _conn_state
    reconnect,   \* _reconnect
    lifecycle,   \* holder of _lifecycle_mutex
    link,        \* stage of the BLE session
    sensor,      \* the sensor of the BLE session
    openDevice   \* _open_device, the target of connect(false)

adapterVars == <<connState, reconnect, lifecycle, link, sensor, openDevice>>

\* All of them but the one, or the session's two, that a name leaves out.
notConnState == <<reconnect, lifecycle, link, sensor, openDevice>>
notReconnect == <<connState, lifecycle, link, sensor, openDevice>>
notSession == <<connState, reconnect, lifecycle, openDevice>>

AdapterTypeOK ==
    /\ connState \in [Slots -> ConnStates]
    /\ reconnect \in [Slots -> ReconnectStates]
    /\ lifecycle \in [Slots -> Tasks \cup {Free}]
    /\ link \in [Slots -> LinkStates]
    /\ sensor \in [Slots -> Sensors \cup {NoSensor}]
    /\ openDevice \in [Slots -> Names]

\* Boot state of the adapters; setup() has loaded the saved names.
AdapterInit(names) ==
    /\ connState = [s \in Slots |-> "IDLE"]
    /\ reconnect = [s \in Slots |-> "OFF"]
    /\ lifecycle = [s \in Slots |-> Free]
    /\ link = [s \in Slots |-> "closed"]
    /\ sensor = [s \in Slots |-> NoSensor]
    /\ openDevice = names

-----------------------------------------------------------------------------
(* Plain stores. *)

setState(s, st) == connState' = [connState EXCEPT ![s] = st]

setReconnectState(s, st) == reconnect' = [reconnect EXCEPT ![s] = st]

-----------------------------------------------------------------------------
(* The compare-and-swap transitions; each is enabled when the swap wins. *)

\* MUTANT: the claim is a plain store.
claimBlindly(s) == setState(s, "REQUESTED")

tryRequestConnect(s) == connState[s] = "IDLE" /\ setState(s, "REQUESTED")

tryAcquireConnecting(s) ==
    connState[s] = "REQUESTED" /\ setState(s, "CONNECTING")

\* MUTANT: the cancel is a plain store.
cancelBlindly(s) == setState(s, "IDLE")

tryCancelConnect(s) == connState[s] = "REQUESTED" /\ setState(s, "IDLE")

tryAdoptReconnect(s) ==
    reconnect[s] = "ARMED" /\ setReconnectState(s, "ADOPTED")

\* MUTANT: a failed user connect re-arms the slot whatever it was.
rearmBlindly(s) == setReconnectState(s, "ARMED")

tryRearmAdoptedReconnect(s) ==
    reconnect[s] = "ADOPTED" /\ setReconnectState(s, "ARMED")

tryGiveUpReconnect(s) == reconnect[s] = "ARMED" /\ setReconnectState(s, "OFF")

-----------------------------------------------------------------------------
(* The lifecycle mutex. *)

lockLifecycle(s, t) ==
    /\ lifecycle[s] = Free
    /\ lifecycle' = [lifecycle EXCEPT ![s] = t]

\* MUTANT: the lock is not given back.
keepLifecycle(s) == lifecycle' = lifecycle

unlockLifecycle(s) == lifecycle' = [lifecycle EXCEPT ![s] = Free]

-----------------------------------------------------------------------------
(* Reads of a slot. *)

isReady(s) == connState[s] = "READY"
isLinkUp(s) == link[s] \in {"linked", "ready"}
isConnected(s) == link[s] \in {"linked", "ready", "lost"}
isSlotOccupied(s) == connState[s] # "IDLE"

-----------------------------------------------------------------------------
(* The BLE session. *)

\* A sensor serves one central at a time: it answers a scan unless another
\* slot's link to it is up.
Answers(d, s) == \A j \in Slots \ {s} : sensor[j] = d => ~isLinkUp(j)

\* The sensors open(target) may come back with.
Found(target, s) ==
    {d \in Sensors : target \in {Proximity, d} /\ Answers(d, s)}

openSession(s) == link' = [link EXCEPT ![s] = "scanning"]

linkTo(s, d) ==
    /\ link' = [link EXCEPT ![s] = "linked"]
    /\ sensor' = [sensor EXCEPT ![s] = d]

handshakeDone(s) == link' = [link EXCEPT ![s] = "ready"]

\* open() failed, or close(): nothing of the session is left.
endSession(s) ==
    /\ link' = [link EXCEPT ![s] = "closed"]
    /\ sensor' = [sensor EXCEPT ![s] = NoSensor]

\* MUTANT: only a link that is up is closed.
closeIfLinkUp(s) ==
    /\ link[s] # "linked"
    /\ IF isLinkUp(s) THEN endSession(s) ELSE UNCHANGED <<link, sensor>>

\* The closing half of teardown().  close() waits for the session mutex that
\* open() holds, so it cannot run while a handshake is under way; before the
\* link is up there is nothing to close and the open goes on.
closeSession(s) ==
    /\ link[s] # "linked"
    /\ IF isConnected(s) THEN endSession(s) ELSE UNCHANGED <<link, sensor>>

\* firstFreeSlot(): the lowest IDLE slot that waits for no sensor, else the
\* lowest IDLE slot; none when every slot is occupied.
FirstFreeSlots ==
    LET idle == {s \in Slots : ~isSlotOccupied(s)}
        calm == {s \in idle : reconnect[s] = "OFF"}
        Lowest(S) == {s \in S : \A r \in S : s <= r}
    IN  IF calm # {} THEN Lowest(calm) ELSE Lowest(idle)

=============================================================================

----------------------------- MODULE SharedState -----------------------------
(***************************************************************************)
(* The state the firmware's tasks share, the place each task is at, and    *)
(* the moves of a task.  Three FreeRTOS tasks change a slot:               *)
(*                                                                         *)
(*   uart    uartHandler, which dispatches one host command at a time;     *)
(*   loop    the Arduino loop(): autoConnectDevice, releaseLostLinks,      *)
(*           reconnectLostSensors and buttonHandler, for ever;             *)
(*   worker  bleWorkerEntry, which takes connect requests off a queue.     *)
(*                                                                         *)
(* pc is where a task is, op what it is doing, at the slot it is doing it  *)
(* to, and flag its one live local Boolean: `adopted` of a user connect,   *)
(* `saved` of releaseLostLinks, `workerBusy` of reconnectLostSensors or    *)
(* `any` of the BOOT long-press, which are never live together.            *)
(***************************************************************************)
EXTENDS VernierAdapter, Sequences

CONSTANTS
    SavedNames,   \* the names NVS may hold at boot: functions Slots -> Names
    Commands,     \* the host commands of this instance
    MaxCmds,      \* bound on the host commands sent
    MaxPresses,   \* bound on the BOOT button presses
    MaxLosses     \* bound on the BLE links that drop

ASSUME SavedNamesAssumption == SavedNames \subseteq [Slots -> Names]
ASSUME CommandsAssumption ==
    Commands \subseteq {"CONNECT", "DISCONNECT", "FORGET", "CANCEL_CONNECT",
                        "SET_PERIOD", "DEV_LIST"}
ASSUME BoundsAssumption ==
    MaxCmds \in Nat /\ MaxPresses \in Nat /\ MaxLosses \in Nat

VARIABLES
    pc, op, at, flag,        \* the tasks
    queue,                   \* bleWorkQueue
    req,                     \* the worker's request
    overflowed,              \* configASSERT(sent == pdTRUE) has failed
    saved,                   \* slotHasSavedDevice
    nvs,                     \* the deviceName keys in flash
    foundSaved,              \* foundSavedDevice
    startAuto,               \* startAutoConnect
    started,                 \* autoConnectDevice's static flag
    devListMutex,            \* holder of devListMutex
    snapshot,                \* emitDevList's entries, per task
    hostView,                \* the slot states of the last T_DEV_LIST sent
    seen, inFlight,          \* ReconnectSchedule
    button,                  \* prevButtonEvent
    cmds, presses, losses    \* how much of each bound is used up

taskVars == <<pc, op, at, flag>>
requestVars == <<queue, req, overflowed>>
storeVars == <<saved, nvs, foundSaved>>
autoVars == <<startAuto, started>>
listVars == <<devListMutex, snapshot, hostView>>
scheduleVars == <<seen, inFlight>>
inputVars == <<button, cmds, presses, losses>>
otherVars == <<requestVars, storeVars, autoVars, listVars, scheduleVars,
               inputVars>>
vars == <<adapterVars, taskVars, otherVars>>

\* Everything but the tasks and the one group that a name leaves out.
notRequests == <<storeVars, autoVars, listVars, scheduleVars, inputVars>>
notStore == <<requestVars, autoVars, listVars, scheduleVars, inputVars>>
notAuto == <<requestVars, storeVars, listVars, scheduleVars, inputVars>>
notSchedule == <<requestVars, storeVars, autoVars, listVars, inputVars>>
notInput == <<requestVars, storeVars, autoVars, listVars, scheduleVars>>

-----------------------------------------------------------------------------
(* Types. *)

UartPcs == {"poll", "adopt", "claim", "send", "lock", "close", "setIdle",
            "forgetDisarm", "forgetKey", "forgetFlag", "cancelRearm",
            "list", "push"}

LoopPcs == {"start", "autoSlot", "claim", "send", "release", "releaseLock",
            "close", "setIdle", "arm", "busyScan", "sched", "giveUp",
            "button", "adopt", "hold", "lock", "holdDisarm", "list", "push"}

WorkerPcs == {"receive", "acquire", "checkBackground", "drop", "announce",
              "connect", "scan", "handshake", "finish", "readyOff",
              "saveKey", "saveFlag", "disarmOthers", "lock", "close", "setIdle",
              "fail", "armLock", "armSet", "failIdle", "rearm", "quiet",
              "list", "push"}

UartOps == {"CONNECT", "DISCONNECT", "FORGET", "CANCEL_CONNECT", "DEV_LIST"}
LoopOps == {"boot", "auto", "release", "sched", "press", "hold"}
WorkerOps == {"announce", "abandon", "result"}

\* ConnectRequest without req_seq, which only logs use.
Origins == {"USER", "BOOT", "BACKGROUND"}
ConnectRequest == [slot : Slots, force : BOOLEAN, origin : Origins]

\* `ConnectRequest req{}`: what the worker holds between two requests.
NoRequest == [slot |-> 0, force |-> FALSE, origin |-> "USER"]

Views == [Slots -> ConnStates]
NoView == [s \in Slots |-> "IDLE"]

TaskTypeOK ==
    /\ pc \in [Tasks -> UartPcs \cup LoopPcs \cup WorkerPcs]
    /\ pc["uart"] \in UartPcs /\ pc["loop"] \in LoopPcs
    /\ pc["worker"] \in WorkerPcs
    /\ op \in [Tasks -> UartOps \cup LoopOps \cup WorkerOps]
    /\ op["uart"] \in UartOps /\ op["loop"] \in LoopOps
    /\ op["worker"] \in WorkerOps
    /\ at \in [Tasks -> Slots]
    /\ flag \in [Tasks -> BOOLEAN]

SharedTypeOK ==
    /\ queue \in Seq(ConnectRequest) /\ Len(queue) <= MaxSlots
    /\ req \in ConnectRequest
    /\ overflowed \in BOOLEAN
    /\ saved \in [Slots -> BOOLEAN]
    /\ nvs \in [Slots -> Names]
    /\ foundSaved \in BOOLEAN /\ startAuto \in BOOLEAN /\ started \in BOOLEAN
    /\ devListMutex \in Tasks \cup {Free}
    /\ snapshot \in [Tasks -> Views]
    /\ hostView \in Views
    /\ seen \in [Slots -> ReconnectStates]
    /\ inFlight \in [Slots -> BOOLEAN]
    /\ button \in {"RELEASE", "PRESS", "LONG_PRESS"}
    /\ cmds \in 0 .. MaxCmds /\ presses \in 0 .. MaxPresses
    /\ losses \in 0 .. MaxLosses

\* The state every variable has its type in.
TypeOK == AdapterTypeOK /\ TaskTypeOK /\ SharedTypeOK

\* setup() has loaded the names, and the host has been heard (hostLink is
\* HEARD), so that announceIfSilent() does nothing.
Init ==
    /\ nvs \in SavedNames
    /\ AdapterInit(nvs)
    /\ saved = [s \in Slots |-> nvs[s] # Proximity]
    /\ foundSaved = (\E s \in Slots : nvs[s] # Proximity)
    /\ pc = [t \in Tasks |-> CASE t = "uart" -> "poll"
                               [] t = "loop" -> "start"
                               [] t = "worker" -> "receive"]
    /\ op = [t \in Tasks |-> CASE t = "uart" -> "DEV_LIST"
                               [] t = "loop" -> "auto"
                               [] t = "worker" -> "result"]
    /\ at = [t \in Tasks |-> 0]
    /\ flag = [t \in Tasks |-> FALSE]
    /\ queue = <<>> /\ req = NoRequest /\ overflowed = FALSE
    /\ startAuto = FALSE /\ started = FALSE
    /\ devListMutex = Free
    /\ snapshot = [t \in Tasks |-> NoView] /\ hostView = NoView
    /\ seen = [s \in Slots |-> "OFF"] /\ inFlight = [s \in Slots |-> FALSE]
    /\ button = "RELEASE"
    /\ cmds = 0 /\ presses = 0 /\ losses = 0

-----------------------------------------------------------------------------
(* The moves of a task. *)

Here(t, label) == pc[t] = label

\* On within the operation, with the local Boolean set to b.
GotoWith(t, label, b) ==
    /\ pc' = [pc EXCEPT ![t] = label]
    /\ flag' = [flag EXCEPT ![t] = b]
    /\ UNCHANGED <<op, at>>

Goto(t, label) ==
    /\ pc' = [pc EXCEPT ![t] = label]
    /\ UNCHANGED <<op, at, flag>>

\* A new operation, on a slot.
Begin(t, label, o, s) ==
    /\ pc' = [pc EXCEPT ![t] = label]
    /\ op' = [op EXCEPT ![t] = o]
    /\ at' = [at EXCEPT ![t] = s]
    /\ flag' = [flag EXCEPT ![t] = FALSE]

UartRest == Begin("uart", "poll", "DEV_LIST", 0)
LoopRest == Begin("loop", "start", "auto", 0)
WorkerRest == Begin("worker", "receive", "result", 0) /\ req' = NoRequest

\* Where the loop task goes on in the next slot of an operation.
Body(o) ==
    CASE o \in {"boot", "auto"} -> "autoSlot"
      [] o = "release" -> "release"
      [] o = "sched" -> "sched"
      [] o = "hold" -> "hold"

\* What loop() does after an operation's last slot; a long press that tore a
\* slot down pushes a list.
EndPass(o, b) ==
    CASE o \in {"boot", "auto"} -> Begin("loop", "release", "release", 0)
      [] o = "release" -> Begin("loop", "busyScan", "sched", 0)
      [] o = "sched" -> Begin("loop", "button", "auto", 0)
      [] o = "press" -> LoopRest
      [] o = "hold" -> IF b THEN GotoWith("loop", "list", FALSE) ELSE LoopRest

\* MUTANT: the slot loops run one slot too far (<= VERNIER_MAX_SLOTS).
ContinueOnePast(b) ==
    IF at["loop"] < MaxSlots
    THEN /\ pc' = [pc EXCEPT !["loop"] = Body(op["loop"])]
         /\ at' = [at EXCEPT !["loop"] = @ + 1]
         /\ flag' = [flag EXCEPT !["loop"] = b]
         /\ UNCHANGED op
    ELSE EndPass(op["loop"], b)

ContinueWith(b) ==
    LET o == op["loop"]
        i == at["loop"] + 1
    IN  IF o # "press" /\ i \in Slots
        THEN /\ pc' = [pc EXCEPT !["loop"] = Body(o)]
             /\ at' = [at EXCEPT !["loop"] = i]
             /\ flag' = [flag EXCEPT !["loop"] = b]
             /\ UNCHANGED op
        ELSE EndPass(o, b)

Continue == ContinueWith(flag["loop"])

=============================================================================

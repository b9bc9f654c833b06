-------------------------- MODULE ControlLoopProofs --------------------------
(***************************************************************************)
(* Safety of ControlLoop for every number of slots, every set of sensors   *)
(* and every bound, on top of the types and the lock discipline: sessions, *)
(* and the background reconnect (who arms a slot, that a READY slot is     *)
(* disarmed, and that a hunt has a name to look for).                      *)
(***************************************************************************)
EXTENDS ControlLoopTypeProofs

-----------------------------------------------------------------------------
(* The steps of a task leave the others where they are. *)

\* The steps that leave the loop task where it is.
NotLoopStep ==
    \/ dispatchHostCommand \/ UartStep \/ WorkerStep \/ \E s \in Slots : LoseLink(s)

LoopKept ==
    /\ pc'["loop"] = pc["loop"] /\ op'["loop"] = op["loop"]
    /\ at'["loop"] = at["loop"] /\ flag'["loop"] = flag["loop"]

LEMMA LoopStays ==
  ASSUME TypeOK, NotLoopStep
  PROVE  LoopKept
<1> USE DEF LoopKept, Goto, GotoWith, Begin, UartRest, WorkerRest, TypeOK, TaskTypeOK, Tasks
<1>1. ASSUME NEW t \in {"uart", "worker"},
             Lock(t) \/ Close(t) \/ TakeSnapshot(t) \/ Push(t)
      PROVE  LoopKept
  BY <1>1 DEF Lock, Close, TakeSnapshot, Push, AfterPush
<1>2. CASE Adopt("uart") \/ ClaimWon("uart") \/ ClaimLost("uart") \/ Send("uart")
  BY <1>2 DEF Adopt, ClaimWon, ClaimLost, Send, Return
<1>3. CASE SetIdle("uart") \/ SetIdle("worker")
  BY <1>3 DEF SetIdle, UartOps, WorkerOps
<1>4. CASE dispatchHostCommand
  BY <1>4 DEF dispatchHostCommand, cmdConnect, cmdDisconnect, cmdForget, cmdDevList,
     cmdCancelConnect, cmdSetPeriod, taskVars
<1>5. CASE ForgetDisarm \/ ForgetKey \/ ForgetFlag \/ CancelRearm
  BY <1>5 DEF ForgetDisarm, ForgetKey, ForgetFlag, CancelRearm
<1>6. CASE \E r \in Slots : LoseLink(r)
  BY <1>6 DEF LoseLink, taskVars
<1> USE DEF WorkerGoto
<1>7. CASE Receive \/ Acquire \/ CheckBackground \/ Drop \/ Announce
  BY <1>7 DEF Receive, Acquire, CheckBackground, Drop, Announce
<1>8. CASE Connect \/ OpenFails \/ LinkUp \/ Handshake
  BY <1>8 DEF Connect, OpenFails, LinkUp, Handshake
<1>9. CASE Finish \/ ReadyOff \/ SaveKey \/ SaveFlag \/ DisarmOthers
  BY <1>9 DEF Finish, ReadyOff, SaveKey, SaveFlag, DisarmOthers
<1>10. CASE Fail \/ ArmLock \/ ArmSet \/ FailIdle \/ Rearm \/ Quiet
  BY <1>10 DEF Fail, ArmLock, ArmSet, FailIdle, Rearm, Quiet
<1> HIDE DEF LoopKept, Goto, GotoWith, Begin, UartRest, WorkerRest, TypeOK, TaskTypeOK,
        Tasks, WorkerGoto
<1> QED
  BY <1>1, <1>2, <1>3, <1>4, <1>5, <1>6, <1>7, <1>8, <1>9, <1>10
  DEF NotLoopStep, UartStep, WorkerStep

\* The steps that leave the uart task where it is.
NotUartStep == LoopStep \/ WorkerStep \/ \E s \in Slots : LoseLink(s)

UartKept ==
    /\ pc'["uart"] = pc["uart"] /\ op'["uart"] = op["uart"]
    /\ at'["uart"] = at["uart"]

LEMMA ContinueKeepsUart ==
  ASSUME TaskTypeOK, NEW b \in BOOLEAN, ContinueWith(b)
  PROVE  UartKept
BY ContinueMoves DEF Moved, UartKept, Tasks

LEMMA UartStays ==
  ASSUME TypeOK, NotUartStep
  PROVE  UartKept
<1> USE DEF UartKept, Goto, GotoWith, Begin, LoopRest, WorkerRest, TypeOK, TaskTypeOK,
        Tasks
<1>1. ASSUME NEW t \in {"loop", "worker"}, Lock(t) \/ Close(t) \/ TakeSnapshot(t)
      PROVE  UartKept
  BY <1>1 DEF Lock, Close, TakeSnapshot
<1>2. CASE Adopt("loop") \/ ClaimWon("loop") \/ ClaimLost("loop") \/ Send("loop")
  BY <1>2, ContinueKeepsUart DEF Adopt, ClaimWon, ClaimLost, Send, Return
<1>3. CASE SetIdle("loop") \/ SetIdle("worker")
  BY <1>3, ContinueKeepsUart DEF SetIdle, Continue, WorkerOps
<1>4. CASE Push("loop") \/ Push("worker")
  BY <1>4, ContinueKeepsUart DEF Push, AfterPush
<1>5. CASE AutoStart \/ NoAutoStart \/ AutoSlot \/ BusyScan
  BY <1>5, ContinueKeepsUart DEF AutoStart, NoAutoStart, AutoSlot, BusyScan, Continue
<1>6. CASE ReleaseRead \/ ReleaseLock \/ ReleaseIdle \/ ReleaseArm
  BY <1>6, ContinueKeepsUart DEF ReleaseRead, ReleaseLock, ReleaseIdle, ReleaseArm
<1>7. CASE SchedNotArmed \/ SchedInFlight \/ SchedWait \/ SchedGiveUp \/ SchedDue
           \/ GiveUp
  BY <1>7, ContinueKeepsUart
  DEF SchedNotArmed, SchedInFlight, SchedWait, SchedGiveUp, SchedDue, SchedResting,
      SchedulePass, GiveUp, Continue
<1>8. CASE ButtonQuiet \/ ButtonPress \/ ButtonLongPress \/ HoldSlot \/ HoldDisarm
  BY <1>8, ContinueKeepsUart
  DEF ButtonQuiet, ButtonPress, ButtonLongPress, HoldSlot, HoldDisarm, Continue
<1>9. CASE \E r \in Slots : LoseLink(r)
  BY <1>9 DEF LoseLink, taskVars
<1> USE DEF WorkerGoto
<1>10. CASE Receive \/ Acquire \/ CheckBackground \/ Drop \/ Announce
  BY <1>10 DEF Receive, Acquire, CheckBackground, Drop, Announce
<1>11. CASE Connect \/ OpenFails \/ LinkUp \/ Handshake
  BY <1>11 DEF Connect, OpenFails, LinkUp, Handshake
<1>12. CASE Finish \/ ReadyOff \/ SaveKey \/ SaveFlag \/ DisarmOthers
  BY <1>12 DEF Finish, ReadyOff, SaveKey, SaveFlag, DisarmOthers
<1>13. CASE Fail \/ ArmLock \/ ArmSet \/ FailIdle \/ Rearm \/ Quiet
  BY <1>13 DEF Fail, ArmLock, ArmSet, FailIdle, Rearm, Quiet
<1> HIDE DEF UartKept, Goto, GotoWith, Begin, LoopRest, WorkerRest, TypeOK, TaskTypeOK,
        Tasks, WorkerGoto
<1> QED
  BY <1>1, <1>2, <1>3, <1>4, <1>5, <1>6, <1>7, <1>8, <1>9, <1>10, <1>11, <1>12, <1>13
  DEF NotUartStep, LoopStep, WorkerStep

-----------------------------------------------------------------------------
(* ConnectingOwned. *)

\* The worker is connecting slot s, which it has acquired.
WorkerOn(s) ==
    /\ at["worker"] = s
    /\ \/ pc["worker"] \in {"checkBackground", "drop", "announce", "connect",
                            "scan", "handshake", "finish", "fail", "armLock",
                            "failIdle"}
       \/ pc["worker"] \in {"list", "push"} /\ op["worker"] = "announce"

ConnInv == \A s \in Slots : connState[s] = "CONNECTING" => WorkerOn(s)

\* Only the worker makes a slot CONNECTING or READY.
LEMMA OthersOnlyRequest ==
  ASSUME TypeOK, OtherStep, NEW s \in Slots, connState'[s] \in {"CONNECTING", "READY"}
  PROVE  connState'[s] = connState[s]
<1> USE DEF TypeOK, AdapterTypeOK, adapterVars, notReconnect, notSession, setState
<1>1. ASSUME NEW t \in {"uart", "loop"},
             Adopt(t) \/ ClaimLost(t) \/ Send(t) \/ Lock(t) \/ Close(t)
             \/ TakeSnapshot(t) \/ Push(t)
      PROVE  connState'[s] = connState[s]
  BY <1>1 DEF Adopt, ClaimLost, Send, Lock, Close, TakeSnapshot, Push
<1>2. ASSUME NEW t \in {"uart", "loop"}, ClaimWon(t) \/ SetIdle(t)
      PROVE  connState'[s] = connState[s]
  BY <1>2 DEF ClaimWon, SetIdle, tryRequestConnect, TaskTypeOK, Tasks
<1>3. CASE dispatchHostCommand
  BY <1>3 DEF dispatchHostCommand, cmdConnect, cmdDisconnect, cmdForget, cmdDevList,
     cmdCancelConnect, cmdSetPeriod, tryCancelConnect
<1>4. CASE ForgetDisarm \/ ForgetKey \/ ForgetFlag \/ CancelRearm
  BY <1>4 DEF ForgetDisarm, ForgetKey, ForgetFlag, CancelRearm
<1>5. CASE AutoStart \/ NoAutoStart \/ AutoSlot \/ ReleaseRead \/ ReleaseLock
           \/ ReleaseArm \/ BusyScan
  BY <1>5 DEF AutoStart, NoAutoStart, AutoSlot, ReleaseRead, ReleaseLock, ReleaseArm,
     BusyScan
<1>6. CASE ReleaseIdle
  BY <1>6 DEF ReleaseIdle, LoopSlot, TaskTypeOK, Tasks
<1>7. CASE SchedNotArmed \/ SchedInFlight \/ SchedWait \/ SchedGiveUp \/ SchedDue
           \/ GiveUp
  BY <1>7 DEF SchedNotArmed, SchedInFlight, SchedWait, SchedGiveUp, SchedDue,
     SchedResting, SchedulePass, GiveUp
<1>8. CASE ButtonQuiet \/ ButtonPress \/ ButtonLongPress \/ HoldSlot \/ HoldDisarm
  BY <1>8 DEF ButtonQuiet, ButtonPress, ButtonLongPress, HoldSlot, HoldDisarm
<1>9. CASE \E r \in Slots : LoseLink(r)
  BY <1>9 DEF LoseLink
<1> HIDE DEF TypeOK, AdapterTypeOK, adapterVars, notReconnect, notSession, setState
<1> QED
  BY <1>1, <1>2, <1>3, <1>4, <1>5, <1>6, <1>7, <1>8, <1>9
  DEF OtherStep, UartStep, LoopStep

LEMMA ConnStep ==
  ASSUME BaseInv, ConnInv, [Next]_vars
  PROVE  ConnInv'
<1>1. CASE OtherStep
  BY <1>1, OthersOnlyRequest, WorkerStays DEF BaseInv, ConnInv, WorkerOn, WorkerKept
<1>2. CASE UNCHANGED vars
  BY <1>2 DEF vars, adapterVars, taskVars, ConnInv, WorkerOn
<1>3. CASE WorkerStep
  <2> USE DEF BaseInv, ConnInv, WorkerOn, TypeOK, AdapterTypeOK, TaskTypeOK, Tasks, Here,
          Goto, Begin, WorkerRest, WorkerGoto, WorkerSlot, setState, adapterVars,
          notConnState, notReconnect, notSession
  <2>1. CASE Receive \/ CheckBackground \/ Announce
    BY <2>1 DEF Receive, CheckBackground, Announce
  <2>2. CASE Acquire
    BY <2>2 DEF Acquire, tryAcquireConnecting
  <2>3. CASE Drop \/ FailIdle
    BY <2>3 DEF Drop, FailIdle
  <2>4. CASE Connect \/ OpenFails \/ LinkUp \/ Handshake
    BY <2>4 DEF Connect, OpenFails, LinkUp, Handshake
  <2>5. CASE Finish \/ ReadyOff \/ SaveKey \/ SaveFlag \/ DisarmOthers
    BY <2>5 DEF Finish, ReadyOff, SaveKey, SaveFlag, DisarmOthers
  <2>6. CASE Fail \/ ArmLock \/ ArmSet
    BY <2>6 DEF Fail, ArmLock, ArmSet
  <2>7. CASE Rearm \/ Quiet
    BY <2>7 DEF Rearm, Quiet
  <2>8. CASE Lock("worker") \/ Close("worker") \/ TakeSnapshot("worker")
    BY <2>8 DEF Lock, Close, TakeSnapshot
  <2>9. CASE SetIdle("worker")
    BY <2>9 DEF SetIdle, WorkerOps
  <2>10. CASE Push("worker")
    BY <2>10 DEF Push, AfterPush
  <2> QED
    BY <1>3, <2>1, <2>2, <2>3, <2>4, <2>5, <2>6, <2>7, <2>8, <2>9, <2>10
    DEF WorkerStep
<1> QED  BY <1>1, <1>2, <1>3 DEF Next, OtherStep

\* A slot is CONNECTING only while the worker connects it.
THEOREM ConnectingIsOwned == Spec => []ConnectingOwned
<1>1. Init => ConnInv
  BY DEF Init, AdapterInit, ConnInv
<1>2. BaseInv /\ ConnInv => ConnectingOwned
  BY DEF ConnInv, ConnectingOwned, WorkerOn, ConnectingPcs
<1> QED  BY <1>1, <1>2, BaseInit, BaseStep, ConnStep, PTL DEF Spec

-----------------------------------------------------------------------------
(* ReadyEndsInTeardown. *)

\* The worker is at slot s, in an attempt that has not made it READY.
Attempting(s) ==
    /\ at["worker"] = s
    /\ \/ pc["worker"] \in {"checkBackground", "drop", "announce", "connect",
                            "scan", "handshake", "finish", "lock", "close",
                            "setIdle", "fail", "armLock", "armSet", "failIdle",
                            "rearm", "quiet"}
       \/ pc["worker"] \in {"list", "push"} /\ op["worker"] = "announce"

\* The worker's attempt at a slot ends before the slot is READY: the stores of
\* IDLE in a dropped or failed attempt find it in another state.
ReadyInv ==
    /\ \A s \in Slots : connState[s] = "READY" => ~Attempting(s)
    /\ pc["worker"] \in {"scan", "handshake", "finish", "readyOff", "saveKey",
                         "saveFlag", "disarmOthers"} => op["worker"] = "result"

LEMMA ReadyStep ==
  ASSUME BaseInv, ReadyInv, [Next]_vars
  PROVE  ReadyInv'
<1>1. CASE OtherStep
  BY <1>1, OthersOnlyRequest, WorkerStays
  DEF BaseInv, ReadyInv, Attempting, WorkerKept
<1>2. CASE UNCHANGED vars
  BY <1>2 DEF vars, adapterVars, taskVars, ReadyInv, Attempting
<1>3. CASE WorkerStep
  <2> USE DEF BaseInv, ReadyInv, Attempting, TypeOK, AdapterTypeOK, TaskTypeOK, Tasks,
          Here, Goto, Begin, WorkerRest, WorkerGoto, WorkerSlot, setState, adapterVars,
          notConnState, notReconnect, notSession
  <2>1. CASE Receive \/ CheckBackground \/ Announce
    BY <2>1 DEF Receive, CheckBackground, Announce
  <2>2. CASE Acquire
    BY <2>2 DEF Acquire, tryAcquireConnecting
  <2>3. CASE Drop \/ FailIdle
    BY <2>3 DEF Drop, FailIdle
  <2>4. CASE Connect \/ OpenFails \/ LinkUp \/ Handshake
    BY <2>4 DEF Connect, OpenFails, LinkUp, Handshake
  <2>5. CASE Finish \/ ReadyOff \/ SaveKey \/ SaveFlag \/ DisarmOthers
    BY <2>5 DEF Finish, ReadyOff, SaveKey, SaveFlag, DisarmOthers
  <2>6. CASE Fail \/ ArmLock \/ ArmSet
    BY <2>6 DEF Fail, ArmLock, ArmSet
  <2>7. CASE Rearm \/ Quiet
    BY <2>7 DEF Rearm, Quiet
  <2>8. CASE Lock("worker") \/ Close("worker") \/ TakeSnapshot("worker")
    BY <2>8 DEF Lock, Close, TakeSnapshot
  <2>9. CASE SetIdle("worker")
    BY <2>9 DEF SetIdle, WorkerOps
  <2>10. CASE Push("worker")
    BY <2>10 DEF Push, AfterPush
  <2> QED
    BY <1>3, <2>1, <2>2, <2>3, <2>4, <2>5, <2>6, <2>7, <2>8, <2>9, <2>10
    DEF WorkerStep
<1> QED  BY <1>1, <1>2, <1>3 DEF Next, OtherStep

LEMMA ReadyInit == Init => ReadyInv
BY DEF Init, AdapterInit, ReadyInv, Tasks

\* READY is published by the worker alone, under the slot's lock.
LEMMA OnlyFinishMakesReady ==
  ASSUME TypeOK, Next, NEW s \in Slots, connState[s] # "READY", connState'[s] = "READY"
  PROVE  /\ lifecycle[s] = Free
         /\ at'["worker"] = s /\ pc'["worker"] = "readyOff"
<1> USE DEF TypeOK, AdapterTypeOK, TaskTypeOK, Tasks, WorkerSlot, setState, adapterVars,
        notConnState, notReconnect, notSession
<1>1. ~OtherStep
  BY OthersOnlyRequest
<1>2. ~(Receive \/ Acquire \/ CheckBackground \/ Drop \/ Announce)
  BY DEF Receive, Acquire, CheckBackground, Drop, Announce, tryAcquireConnecting
<1>3. ~(Connect \/ OpenFails \/ LinkUp \/ Handshake \/ ReadyOff \/ SaveKey \/ SaveFlag \/ DisarmOthers)
  BY DEF Connect, OpenFails, LinkUp, Handshake, ReadyOff, SaveKey, SaveFlag, DisarmOthers
<1>4. ~(Fail \/ ArmLock \/ ArmSet \/ FailIdle \/ Rearm \/ Quiet)
  BY DEF Fail, ArmLock, ArmSet, FailIdle, Rearm, Quiet
<1>5. ~(Lock("worker") \/ Close("worker") \/ SetIdle("worker")
        \/ TakeSnapshot("worker") \/ Push("worker"))
  BY DEF Lock, Close, SetIdle, TakeSnapshot, Push
<1>6. Finish
  BY <1>1, <1>2, <1>3, <1>4, <1>5 DEF Next, OtherStep, WorkerStep
<1> QED  BY <1>6 DEF Finish, WorkerGoto, Goto

\* The worker's stores never hit a READY slot, outside the end of a teardown.
LEMMA WorkerKeepsReady ==
  ASSUME BaseInv, ReadyInv, WorkerStep, NEW s \in Slots, connState[s] = "READY",
         connState'[s] # "READY"
  PROVE  SetIdle("worker")
<1> USE DEF BaseInv, ReadyInv, Attempting, TypeOK, AdapterTypeOK, TaskTypeOK, Tasks,
        Here, WorkerSlot, setState, adapterVars, notConnState, notReconnect, notSession
<1>1. ~(Receive \/ Acquire \/ CheckBackground \/ Announce)
  BY DEF Receive, Acquire, CheckBackground, Announce, tryAcquireConnecting
<1>2. ~(Drop \/ FailIdle)
  BY DEF Drop, FailIdle
<1>3. ~(Connect \/ OpenFails \/ LinkUp \/ Handshake)
  BY DEF Connect, OpenFails, LinkUp, Handshake
<1>4. ~(Finish \/ ReadyOff \/ SaveKey \/ SaveFlag \/ DisarmOthers)
  BY DEF Finish, ReadyOff, SaveKey, SaveFlag, DisarmOthers
<1>5. ~(Fail \/ ArmLock \/ ArmSet \/ Rearm \/ Quiet)
  BY DEF Fail, ArmLock, ArmSet, Rearm, Quiet
<1>6. ~(Lock("worker") \/ Close("worker") \/ TakeSnapshot("worker") \/ Push("worker"))
  BY DEF Lock, Close, TakeSnapshot, Push
<1> QED
  BY <1>1, <1>2, <1>3, <1>4, <1>5, <1>6 DEF WorkerStep

\* Nor do those of the other tasks.
LEMMA OthersKeepReady ==
  ASSUME TypeOK, OtherStep, NEW s \in Slots, connState[s] = "READY",
         connState'[s] # "READY"
  PROVE  ReleaseIdle \/ \E t \in {"uart", "loop"} : SetIdle(t)
<1> USE DEF TypeOK, AdapterTypeOK, adapterVars, notReconnect, notSession, setState,
        Tasks
<1>1. ASSUME NEW t \in {"uart", "loop"}
      PROVE  ~(Adopt(t) \/ ClaimLost(t) \/ Send(t) \/ Lock(t) \/ Close(t)
               \/ TakeSnapshot(t) \/ Push(t))
  BY DEF Adopt, ClaimLost, Send, Lock, Close, TakeSnapshot, Push
<1>2. ASSUME NEW t \in {"uart", "loop"}, ClaimWon(t)
      PROVE  FALSE
  BY <1>2 DEF ClaimWon, tryRequestConnect, TaskTypeOK
<1>3. ~dispatchHostCommand
  BY DEF dispatchHostCommand, cmdConnect, cmdDisconnect, cmdForget, cmdDevList,
     cmdCancelConnect, cmdSetPeriod, tryCancelConnect
<1>4. ~(ForgetDisarm \/ ForgetKey \/ ForgetFlag \/ CancelRearm)
  BY DEF ForgetDisarm, ForgetKey, ForgetFlag, CancelRearm
<1>5. ~(AutoStart \/ NoAutoStart \/ AutoSlot \/ ReleaseRead \/ ReleaseLock
        \/ ReleaseArm \/ BusyScan)
  BY DEF AutoStart, NoAutoStart, AutoSlot, ReleaseRead, ReleaseLock, ReleaseArm, BusyScan
<1>6. ~(SchedNotArmed \/ SchedInFlight \/ SchedWait \/ SchedGiveUp \/ SchedDue
        \/ GiveUp)
  BY DEF SchedNotArmed, SchedInFlight, SchedWait, SchedGiveUp, SchedDue, SchedResting,
     SchedulePass, GiveUp
<1>7. ~(ButtonQuiet \/ ButtonPress \/ ButtonLongPress \/ HoldSlot \/ HoldDisarm)
  BY DEF ButtonQuiet, ButtonPress, ButtonLongPress, HoldSlot, HoldDisarm
<1>8. ~\E r \in Slots : LoseLink(r)
  BY DEF LoseLink
<1> HIDE DEF TypeOK, AdapterTypeOK, adapterVars, notReconnect, notSession, setState
<1> QED
  BY <1>1, <1>2, <1>3, <1>4, <1>5, <1>6, <1>7, <1>8 DEF OtherStep, UartStep, LoopStep

\* A READY slot leaves READY only in a teardown under its lifecycle lock, with
\* any number of slots, commands and drops: no late store of an attempt that
\* was dropped, cancelled or failed disconnects a sensor.
THEOREM ReadyOnlyTornDown == Spec => ReadyEndsInTeardown
<1>1. BaseInv /\ ReadyInv /\ [Next]_vars
        => [\A s \in Slots :
               connState[s] = "READY" /\ connState'[s] # "READY" =>
                  \E t \in Tasks : lifecycle[s] = t /\ pc[t] = "setIdle"]_vars
  <2> SUFFICES ASSUME BaseInv, ReadyInv, Next, NEW s \in Slots,
                      connState[s] = "READY", connState'[s] # "READY"
               PROVE  \E t \in Tasks : lifecycle[s] = t /\ pc[t] = "setIdle"
    OBVIOUS
  <2>1. PICK t \in Tasks : SetIdle(t) \/ (t = "loop" /\ ReleaseIdle)
    BY WorkerKeepsReady, OthersKeepReady DEF BaseInv, Next, OtherStep, Tasks
  <2>2. pc[t] = "setIdle" /\ setState(at[t], "IDLE")
    BY <2>1 DEF SetIdle, ReleaseIdle, LoopSlot, Here
  <2>3. at[t] = s
    BY <2>2 DEF setState, BaseInv, TypeOK, AdapterTypeOK, TaskTypeOK
  <2> QED  BY <2>2, <2>3 DEF BaseInv, LockInv, HoldPcs
<1> QED  BY <1>1, BaseInit, BaseStep, ReadyInit, ReadyStep, PTL DEF Spec, ReadyEndsInTeardown

-----------------------------------------------------------------------------
(* SessionMatchesState. *)

WorkerAt(s, labels) == at["worker"] = s /\ pc["worker"] \in labels

\* A teardown has closed the session of slot s and not yet stored IDLE.
Closed(s) == \E t \in Tasks : at[t] = s /\ pc[t] = "setIdle"

\* An opening session is the worker's; a slot that is READY, or whose connect is
\* about to be published, has a session unless a teardown has just closed it;
\* any other session is one the worker opens or gives up; and what a teardown
\* leaves open is a session that was not up yet when it looked.
SlotSession(s) ==
    /\ link[s] = "scanning" <=> WorkerAt(s, {"scan"})
    /\ link[s] = "linked" <=> WorkerAt(s, {"handshake"})
    /\ connState[s] = "READY" => link[s] \in {"ready", "lost"} \/ Closed(s)
    /\ connState[s] = "CONNECTING" /\ WorkerAt(s, {"finish"})
          => link[s] \in {"ready", "lost"} \/ Closed(s)
    /\ connState[s] # "READY" /\ link[s] # "closed"
          => WorkerAt(s, {"scan", "handshake", "finish", "lock", "close"})
    /\ Closed(s) /\ link[s] # "closed"
          => WorkerAt(s, {"scan", "handshake", "finish"})

SessionInv == \A s \in Slots : SlotSession(s)

-----------------------------------------------------------------------------
(* The steps of the other two tasks and of the environment. *)

\* What a step of theirs does to the state of a slot.
OtherState(s) ==
    \/ connState'[s] = connState[s]
    \/ connState[s] \in {"IDLE", "REQUESTED"} /\ connState'[s] \in {"IDLE", "REQUESTED"}
    \/ /\ connState'[s] = "IDLE"
       /\ \E t \in Tasks : at[t] = s /\ pc[t] = "setIdle"

LEMMA OthersChangeState ==
  ASSUME TypeOK, OtherStep, NEW s \in Slots
  PROVE  OtherState(s)
<1> USE DEF OtherState, TypeOK, AdapterTypeOK, adapterVars, notReconnect, notSession,
        setState
<1>1. ASSUME NEW t \in {"uart", "loop"},
             Adopt(t) \/ ClaimLost(t) \/ Send(t) \/ Lock(t) \/ Close(t)
             \/ TakeSnapshot(t) \/ Push(t)
      PROVE  connState' = connState
  BY <1>1 DEF Adopt, ClaimLost, Send, Lock, Close, TakeSnapshot, Push
<1>2. ASSUME NEW t \in {"uart", "loop"}, ClaimWon(t) \/ SetIdle(t)
      PROVE  OtherState(s)
  BY <1>2 DEF ClaimWon, SetIdle, tryRequestConnect, TaskTypeOK, Tasks, Here
<1>3. CASE dispatchHostCommand
  BY <1>3 DEF dispatchHostCommand, cmdConnect, cmdDisconnect, cmdForget, cmdDevList,
     cmdCancelConnect, cmdSetPeriod, tryCancelConnect
<1>4. CASE ForgetDisarm \/ ForgetKey \/ ForgetFlag \/ CancelRearm
  BY <1>4 DEF ForgetDisarm, ForgetKey, ForgetFlag, CancelRearm
<1>5. CASE AutoStart \/ NoAutoStart \/ AutoSlot \/ ReleaseRead \/ ReleaseLock
           \/ ReleaseArm \/ BusyScan
  BY <1>5 DEF AutoStart, NoAutoStart, AutoSlot, ReleaseRead, ReleaseLock, ReleaseArm,
     BusyScan
<1>6. CASE ReleaseIdle
  BY <1>6 DEF ReleaseIdle, LoopSlot, TaskTypeOK, Tasks, Here
<1>7. CASE SchedNotArmed \/ SchedInFlight \/ SchedWait \/ SchedGiveUp \/ SchedDue
           \/ GiveUp
  BY <1>7 DEF SchedNotArmed, SchedInFlight, SchedWait, SchedGiveUp, SchedDue,
     SchedResting, SchedulePass, GiveUp
<1>8. CASE ButtonQuiet \/ ButtonPress \/ ButtonLongPress \/ HoldSlot \/ HoldDisarm
  BY <1>8 DEF ButtonQuiet, ButtonPress, ButtonLongPress, HoldSlot, HoldDisarm
<1>9. CASE \E r \in Slots : LoseLink(r)
  BY <1>9 DEF LoseLink
<1> HIDE DEF TypeOK, AdapterTypeOK, adapterVars, notReconnect, notSession, setState
<1> QED
  BY <1>1, <1>2, <1>3, <1>4, <1>5, <1>6, <1>7, <1>8, <1>9
  DEF OtherStep, UartStep, LoopStep

\* What a step of theirs does to the session of a slot.
OtherLink(s) ==
    \/ link'[s] = link[s]
    \/ link[s] = "ready" /\ link'[s] = "lost"
    \/ /\ link[s] \in {"ready", "lost"} /\ link'[s] = "closed"
       /\ \E t \in {"uart", "loop"} : Close(t) /\ at[t] = s

LEMMA OthersChangeLink ==
  ASSUME TypeOK, OtherStep, NEW s \in Slots
  PROVE  OtherLink(s)
<1> USE DEF OtherLink, adapterVars, notConnState, notReconnect
<1>1. ASSUME NEW t \in {"uart", "loop"},
             Adopt(t) \/ ClaimWon(t) \/ ClaimLost(t) \/ Send(t) \/ Lock(t)
             \/ SetIdle(t) \/ TakeSnapshot(t) \/ Push(t)
      PROVE  link' = link
  BY <1>1 DEF Adopt, ClaimWon, ClaimLost, Send, Lock, SetIdle, TakeSnapshot, Push
<1>2. ASSUME NEW t \in {"uart", "loop"}, Close(t)
      PROVE  OtherLink(s)
  <2>1. CASE isConnected(at[t])
    BY <1>2, <2>1 DEF Close, closeSession, endSession, isConnected, TypeOK, AdapterTypeOK
  <2>2. CASE ~isConnected(at[t])
    BY <1>2, <2>2 DEF Close, closeSession
  <2> QED  BY <2>1, <2>2
<1>3. CASE dispatchHostCommand
  BY <1>3 DEF dispatchHostCommand, cmdConnect, cmdDisconnect, cmdForget, cmdDevList,
     cmdCancelConnect, cmdSetPeriod
<1>4. CASE ForgetDisarm \/ ForgetKey \/ ForgetFlag \/ CancelRearm
  BY <1>4 DEF ForgetDisarm, ForgetKey, ForgetFlag, CancelRearm
<1>5. CASE AutoStart \/ NoAutoStart \/ AutoSlot \/ ReleaseRead \/ ReleaseLock
           \/ ReleaseIdle \/ ReleaseArm \/ BusyScan
  BY <1>5 DEF AutoStart, NoAutoStart, AutoSlot, ReleaseRead, ReleaseLock, ReleaseIdle,
     ReleaseArm, BusyScan
<1>6. CASE SchedNotArmed \/ SchedInFlight \/ SchedWait \/ SchedGiveUp \/ SchedDue
           \/ GiveUp
  BY <1>6 DEF SchedNotArmed, SchedInFlight, SchedWait, SchedGiveUp, SchedDue,
     SchedResting, SchedulePass, GiveUp
<1>7. CASE ButtonQuiet \/ ButtonPress \/ ButtonLongPress \/ HoldSlot \/ HoldDisarm
  BY <1>7 DEF ButtonQuiet, ButtonPress, ButtonLongPress, HoldSlot, HoldDisarm
<1>8. CASE \E r \in Slots : LoseLink(r)
  BY <1>8 DEF LoseLink, TypeOK, AdapterTypeOK
<1> HIDE DEF OtherLink, adapterVars, notConnState, notReconnect
<1>9. link' = link => OtherLink(s)
  BY DEF OtherLink
<1> QED
  BY <1>1, <1>2, <1>3, <1>4, <1>5, <1>6, <1>7, <1>8, <1>9
  DEF OtherStep, UartStep, LoopStep

-----------------------------------------------------------------------------
(* The end of a teardown. *)

\* A task comes to "setIdle" by closing the session, and leaves it by storing
\* IDLE.
TeardownPlace(t) ==
    /\ pc'[t] = "setIdle" => at'[t] = at[t] /\ (Close(t) \/ pc[t] = "setIdle")
    /\ pc[t] = "setIdle" /\ pc'[t] # "setIdle" => connState'[at[t]] = "IDLE"

\* A step that moves task u alone, from and to another place.
LEMMA AwayFromTeardown ==
  ASSUME NEW u \in Tasks, NEW t \in Tasks,
         \A v \in Tasks \ {u} : pc'[v] = pc[v] /\ at'[v] = at[v],
         pc[u] # "setIdle", pc'[u] # "setIdle"
  PROVE  TeardownPlace(t)
<1>1. CASE t = u
  BY <1>1 DEF TeardownPlace
<1>2. CASE t # u
  BY <1>2 DEF TeardownPlace
<1> QED  BY <1>1, <1>2

\* Continue and the rests lead elsewhere.
LEMMA ContinueAway ==
  ASSUME TaskTypeOK, NEW b \in BOOLEAN, ContinueWith(b)
  PROVE  /\ \A v \in Tasks \ {"loop"} : pc'[v] = pc[v] /\ at'[v] = at[v]
         /\ pc'["loop"] # "setIdle"
BY ContinueMoves DEF Moved, LoopStops

LEMMA TeardownPlaces ==
  ASSUME TypeOK, Next, NEW t \in Tasks
  PROVE  TeardownPlace(t)
<1> USE DEF Goto, GotoWith, Begin, UartRest, LoopRest, WorkerRest, TypeOK, TaskTypeOK,
        Tasks, Here
<1>1. ASSUME NEW u \in {"uart", "loop"}, Adopt(u) \/ ClaimWon(u)
      PROVE  TeardownPlace(t)
  BY <1>1, AwayFromTeardown DEF Adopt, ClaimWon
<1>2. ASSUME NEW u \in {"uart", "loop"}, ClaimLost(u) \/ Send(u)
      PROVE  TeardownPlace(t)
  BY <1>2, AwayFromTeardown, ContinueAway DEF ClaimLost, Send, Return
<1>3. ASSUME NEW u \in Tasks, Lock(u) \/ TakeSnapshot(u)
      PROVE  TeardownPlace(t)
  BY <1>3, AwayFromTeardown DEF Lock, TakeSnapshot
<1>4. ASSUME NEW u \in Tasks, Push(u)
      PROVE  TeardownPlace(t)
  BY <1>4, AwayFromTeardown, ContinueAway DEF Push, AfterPush
<1>5. ASSUME NEW u \in Tasks, Close(u)
      PROVE  TeardownPlace(t)
  BY <1>5 DEF Close, TeardownPlace
<1>6. ASSUME NEW u \in Tasks, SetIdle(u)
      PROVE  TeardownPlace(t)
  <2>1. /\ \A v \in Tasks \ {u} : pc'[v] = pc[v] /\ at'[v] = at[v]
        /\ pc'[u] # "setIdle"
    BY <1>6, ContinueAway DEF SetIdle, Continue, UartOps, WorkerOps
  <2>2. connState'[at[u]] = "IDLE"
    BY <1>6 DEF SetIdle, setState, AdapterTypeOK
  <2> QED  BY <2>1, <2>2 DEF TeardownPlace
<1>7. CASE dispatchHostCommand
  BY <1>7, AwayFromTeardown DEF dispatchHostCommand, cmdConnect, cmdDisconnect, cmdForget,
     cmdDevList, cmdCancelConnect, cmdSetPeriod, Command, taskVars
<1>8. CASE ForgetDisarm \/ ForgetKey \/ ForgetFlag \/ CancelRearm
  BY <1>8, AwayFromTeardown DEF ForgetDisarm, ForgetKey, ForgetFlag, CancelRearm
<1>9. CASE AutoStart \/ NoAutoStart \/ AutoSlot \/ ReleaseRead \/ BusyScan
  BY <1>9, AwayFromTeardown, ContinueAway
  DEF AutoStart, NoAutoStart, AutoSlot, ReleaseRead, BusyScan, Continue
<1>10. CASE ReleaseLock \/ ReleaseArm
  BY <1>10, AwayFromTeardown, ContinueAway DEF ReleaseLock, ReleaseArm
<1>11. CASE ReleaseIdle
  BY <1>11 DEF ReleaseIdle, LoopSlot, setState, AdapterTypeOK, TeardownPlace
<1>12. CASE SchedNotArmed \/ SchedInFlight \/ SchedWait \/ SchedGiveUp \/ SchedDue
            \/ GiveUp
  BY <1>12, AwayFromTeardown, ContinueAway
  DEF SchedNotArmed, SchedInFlight, SchedWait, SchedGiveUp, SchedDue, SchedResting,
      SchedulePass, GiveUp, Continue
<1>13. CASE ButtonQuiet \/ ButtonPress \/ ButtonLongPress \/ HoldSlot \/ HoldDisarm
  BY <1>13, AwayFromTeardown, ContinueAway
  DEF ButtonQuiet, ButtonPress, ButtonLongPress, HoldSlot, HoldDisarm, Continue
<1>14. CASE \E r \in Slots : LoseLink(r)
  BY <1>14 DEF LoseLink, taskVars, TeardownPlace
<1> USE DEF WorkerGoto
<1>15. CASE Receive \/ Acquire \/ CheckBackground \/ Drop \/ Announce
  BY <1>15, AwayFromTeardown DEF Receive, Acquire, CheckBackground, Drop, Announce
<1>16. CASE Connect \/ OpenFails \/ LinkUp \/ Handshake
  BY <1>16, AwayFromTeardown DEF Connect, OpenFails, LinkUp, Handshake
<1>17. CASE Finish \/ ReadyOff \/ SaveKey \/ SaveFlag \/ DisarmOthers
  BY <1>17, AwayFromTeardown DEF Finish, ReadyOff, SaveKey, SaveFlag, DisarmOthers
<1>18. CASE Fail \/ ArmLock \/ ArmSet \/ FailIdle \/ Rearm \/ Quiet
  BY <1>18, AwayFromTeardown DEF Fail, ArmLock, ArmSet, FailIdle, Rearm, Quiet
<1> HIDE DEF Goto, GotoWith, Begin, UartRest, LoopRest, WorkerRest, TypeOK, TaskTypeOK,
        Tasks, Here, WorkerGoto
<1> QED
  BY <1>1, <1>2, <1>3, <1>4, <1>5, <1>6, <1>7, <1>8, <1>9, <1>10, <1>11, <1>12, <1>13,
     <1>14, <1>15, <1>16, <1>17, <1>18
  DEF Next, UartStep, LoopStep, WorkerStep, Tasks

-----------------------------------------------------------------------------
(* SessionMatchesState. *)

LEMMA SessionOtherStep ==
  ASSUME BaseInv, OtherStep, NEW s \in Slots, SlotSession(s)
  PROVE  SlotSession(s)'
<1>1. OtherState(s)
  BY OthersChangeState DEF BaseInv
<1>2. OtherLink(s)
  BY OthersChangeLink DEF BaseInv
<1>3. pc'["worker"] = pc["worker"] /\ at'["worker"] = at["worker"]
  BY WorkerStays DEF BaseInv, WorkerKept
<1>4. \A t \in Tasks : TeardownPlace(t)
  BY TeardownPlaces DEF BaseInv, Next, OtherStep
<1>5. link'[s] = "scanning" <=> link[s] = "scanning"
  BY <1>2 DEF OtherLink
<1>6. link'[s] = "linked" <=> link[s] = "linked"
  BY <1>2 DEF OtherLink
<1>7. connState'[s] \in {"READY", "CONNECTING"} => connState'[s] = connState[s]
  BY <1>1 DEF OtherState
<1>8. ASSUME link[s] \in {"ready", "lost"} \/ Closed(s),
             connState'[s] \in {"READY", "CONNECTING"}
      PROVE  link'[s] \in {"ready", "lost"} \/ Closed(s)'
  <2>1. CASE Closed(s)
    <3>1. PICK t \in Tasks : at[t] = s /\ pc[t] = "setIdle"
      BY <2>1 DEF Closed
    <3>2. pc'[t] = "setIdle" /\ at'[t] = s
      BY <1>4, <1>8, <3>1 DEF TeardownPlace, Close, Here
    <3> QED  BY <3>2 DEF Closed
  <2>2. CASE link[s] \in {"ready", "lost"} /\ link'[s] = "closed"
    <3>1. PICK t \in {"uart", "loop"} : Close(t) /\ at[t] = s
      BY <1>2, <2>2 DEF OtherLink
    <3>2. pc'[t] = "setIdle" /\ at'[t] = s
      BY <3>1 DEF Close, Goto, BaseInv, TypeOK, TaskTypeOK, Tasks
    <3> QED  BY <3>2 DEF Closed, Tasks
  <2> QED  BY <1>2, <1>8, <2>1, <2>2 DEF OtherLink
<1>9. ASSUME connState'[s] # "READY", link'[s] # "closed"
      PROVE  WorkerAt(s, {"scan", "handshake", "finish", "lock", "close"})
  <2>1. link[s] # "closed"
    BY <1>2, <1>9 DEF OtherLink
  <2>2. CASE connState[s] = "READY"
    <3>1. Closed(s)
      BY <1>1, <1>9, <2>2 DEF OtherState, Closed
    <3> QED  BY <2>1, <3>1 DEF SlotSession, WorkerAt
  <2>3. CASE connState[s] # "READY"
    BY <2>1, <2>3 DEF SlotSession
  <2> QED  BY <2>2, <2>3
<1>10. ASSUME Closed(s)', link'[s] # "closed"
       PROVE  WorkerAt(s, {"scan", "handshake", "finish"})
  <2>1. link[s] # "closed"
    BY <1>2, <1>10 DEF OtherLink
  <2>2. PICK t \in Tasks : at'[t] = s /\ pc'[t] = "setIdle"
    BY <1>10 DEF Closed
  <2>3. at[t] = s /\ (Close(t) \/ pc[t] = "setIdle")
    BY <1>4, <2>2 DEF TeardownPlace
  <2>4. CASE pc[t] = "setIdle"
    BY <2>1, <2>3, <2>4 DEF SlotSession, Closed
  <2>5. CASE Close(t)
    <3>1. link[s] = "scanning"
      BY <1>10, <2>1, <2>3, <2>5
      DEF Close, closeSession, endSession, isConnected, BaseInv, TypeOK, AdapterTypeOK,
          LinkStates
    <3> QED  BY <3>1 DEF SlotSession, WorkerAt
  <2> QED  BY <2>3, <2>4, <2>5
<1> QED
  BY <1>3, <1>5, <1>6, <1>7, <1>8, <1>9, <1>10 DEF SlotSession, WorkerAt

LEMMA SessionWorkerStep ==
  ASSUME BaseInv, ReadyInv, WorkerStep, NEW s \in Slots, SlotSession(s)
  PROVE  SlotSession(s)'
<1> DEFINE Elsewhere == \E t \in {"uart", "loop"} : at[t] = s /\ pc[t] = "setIdle"
<1>1. Elsewhere' <=> Elsewhere
  BY LoopStays, UartStays DEF BaseInv, NotLoopStep, NotUartStep, LoopKept, UartKept
<1>2. Closed(s) <=> Elsewhere \/ WorkerAt(s, {"setIdle"})
  BY DEF Closed, WorkerAt, Tasks
<1>3. Closed(s)' <=> Elsewhere' \/ WorkerAt(s, {"setIdle"})'
  BY DEF Closed, WorkerAt, Tasks
<1>4. Elsewhere => lifecycle[s] # Free
  BY FreeAssumption DEF BaseInv, LockInv, HoldPcs, Tasks
<1> HIDE DEF Elsewhere
<1> USE <1>1, <1>2, <1>3, <1>4
    DEF SlotSession, WorkerAt, BaseInv, ReadyInv, Attempting, TypeOK, AdapterTypeOK,
        TaskTypeOK, Tasks, Here, Goto, Begin, WorkerRest, WorkerGoto, WorkerSlot, setState,
        adapterVars, notConnState, notReconnect, notSession
<1>5. CASE Receive \/ CheckBackground \/ Announce
  BY <1>5 DEF Receive, CheckBackground, Announce
<1>6. CASE Acquire
  BY <1>6 DEF Acquire, tryAcquireConnecting
<1>7. CASE Drop \/ FailIdle
  BY <1>7 DEF Drop, FailIdle
<1>8. CASE Connect
  BY <1>8 DEF Connect, openSession
<1>9. CASE OpenFails
  BY <1>9 DEF OpenFails, endSession
<1>10. CASE LinkUp
  BY <1>10 DEF LinkUp, linkTo
<1>11. CASE Handshake
  BY <1>11 DEF Handshake, handshakeDone
<1>12. CASE Finish
  BY <1>12 DEF Finish
<1>13. CASE ReadyOff \/ SaveKey \/ SaveFlag \/ DisarmOthers
  BY <1>13 DEF ReadyOff, SaveKey, SaveFlag, DisarmOthers
<1>14. CASE Fail \/ ArmLock \/ ArmSet
  BY <1>14 DEF Fail, ArmLock, ArmSet
<1>15. CASE Rearm \/ Quiet
  BY <1>15 DEF Rearm, Quiet
<1>16. CASE Lock("worker")
  BY <1>16 DEF Lock
<1>17. CASE Close("worker")
  BY <1>17 DEF Close, closeSession, endSession, isConnected, LinkStates
<1>18. CASE SetIdle("worker")
  BY <1>18 DEF SetIdle, WorkerOps
<1>19. CASE TakeSnapshot("worker") \/ Push("worker")
  BY <1>19 DEF TakeSnapshot, Push, AfterPush
<1> QED
  BY <1>5, <1>6, <1>7, <1>8, <1>9, <1>10, <1>11, <1>12, <1>13, <1>14, <1>15, <1>16,
     <1>17, <1>18, <1>19
  DEF WorkerStep

LEMMA SessionInit == Init => SessionInv
BY DEF Init, AdapterInit, SessionInv, SlotSession, WorkerAt, Closed, Tasks

LEMMA SessionStep == BaseInv /\ ReadyInv /\ SessionInv /\ [Next]_vars => SessionInv'
<1> SUFFICES ASSUME BaseInv, ReadyInv, SessionInv, [Next]_vars, NEW s \in Slots
             PROVE  SlotSession(s)'
  BY DEF SessionInv
<1>1. SlotSession(s)
  BY DEF SessionInv
<1>2. CASE UNCHANGED vars
  BY <1>1, <1>2 DEF vars, adapterVars, taskVars, SlotSession, WorkerAt, Closed
<1>3. CASE WorkerStep
  BY <1>1, <1>3, SessionWorkerStep
<1>4. CASE OtherStep
  BY <1>1, <1>4, SessionOtherStep
<1> QED  BY <1>2, <1>3, <1>4 DEF Next, OtherStep

\* A READY slot that nobody is changing has a session, up or dropped; a slot
\* that is free has none but one the worker is opening or giving up: whatever
\* tears a slot down, in the middle of a connect or after it, no session is
\* left open behind a free slot and no slot is READY without one.
THEOREM SessionsMatch == Spec => []SessionMatchesState
<1>1. BaseInv /\ SessionInv => SessionMatchesState
  <2> SUFFICES ASSUME BaseInv, SessionInv, NEW s \in Slots, lifecycle[s] = Free
               PROVE  /\ connState[s] = "READY" => link[s] \in {"ready", "lost"}
                      /\ connState[s] \in {"IDLE", "REQUESTED"} /\ ~Opening(s)
                            => link[s] = "closed"
    BY DEF SessionMatchesState
  <2>1. \A t \in Tasks : ~(at[t] = s /\ pc[t] \in HoldPcs)
    BY FreeAssumption DEF BaseInv, LockInv, Tasks
  <2>2. ~Closed(s) /\ ~WorkerAt(s, {"close"})
    BY <2>1 DEF Closed, WorkerAt, HoldPcs, Tasks
  <2>3. SlotSession(s)
    BY DEF SessionInv
  <2> QED  BY <2>2, <2>3 DEF SlotSession, WorkerAt, Opening
<1> QED
  BY <1>1, SessionInit, SessionStep, BaseInit, BaseStep, ReadyInit, ReadyStep, PTL DEF Spec


-----------------------------------------------------------------------------
(* OffStaysOff. *)

\* Arms(s): a step that arms slot s under its lifecycle lock.
Arms(s) == (ReleaseArm /\ at["loop"] = s) \/ (ArmSet /\ at["worker"] = s)

\* Every other step that changes the reconnect state needs it not OFF, or ends
\* it.
LEMMA OnlyArmsLeaveOff ==
  ASSUME TypeOK, Next, NEW s \in Slots, reconnect[s] = "OFF", reconnect'[s] # "OFF"
  PROVE  Arms(s)
<1> USE DEF TypeOK, AdapterTypeOK, TaskTypeOK, Tasks, adapterVars, notConnState,
        notSession, setReconnectState, tryRearmAdoptedReconnect
<1>1. ASSUME NEW t \in {"uart", "loop"}
      PROVE  ~(Adopt(t) \/ ClaimWon(t) \/ ClaimLost(t) \/ Send(t))
  BY DEF Adopt, ClaimWon, ClaimLost, Send, tryAdoptReconnect
<1>2. ASSUME NEW t \in Tasks
      PROVE  ~(Lock(t) \/ Close(t) \/ SetIdle(t) \/ TakeSnapshot(t) \/ Push(t))
  BY DEF Lock, Close, SetIdle, TakeSnapshot, Push
<1>3. ~dispatchHostCommand
  BY DEF dispatchHostCommand, cmdConnect, cmdDisconnect, cmdForget, cmdDevList,
     cmdCancelConnect, cmdSetPeriod
<1>4. ~(ForgetDisarm \/ ForgetKey \/ ForgetFlag \/ CancelRearm)
  BY DEF ForgetDisarm, ForgetKey, ForgetFlag, CancelRearm
<1>5. ~(AutoStart \/ NoAutoStart \/ AutoSlot \/ ReleaseRead \/ ReleaseLock
        \/ ReleaseIdle \/ BusyScan)
  BY DEF AutoStart, NoAutoStart, AutoSlot, ReleaseRead, ReleaseLock, ReleaseIdle, BusyScan
<1>6. ~(SchedNotArmed \/ SchedInFlight \/ SchedWait \/ SchedGiveUp \/ SchedDue
        \/ GiveUp)
  BY DEF SchedNotArmed, SchedInFlight, SchedWait, SchedGiveUp, SchedDue, SchedResting,
     SchedulePass, GiveUp, tryGiveUpReconnect, LoopSlot
<1>7. ~(ButtonQuiet \/ ButtonPress \/ ButtonLongPress \/ HoldSlot \/ HoldDisarm)
  BY DEF ButtonQuiet, ButtonPress, ButtonLongPress, HoldSlot, HoldDisarm, LoopSlot
<1>8. ~\E r \in Slots : LoseLink(r)
  BY DEF LoseLink
<1>9. ~(Receive \/ Acquire \/ CheckBackground \/ Drop \/ Announce)
  BY DEF Receive, Acquire, CheckBackground, Drop, Announce
<1>10. ~(Connect \/ OpenFails \/ LinkUp \/ Handshake)
  BY DEF Connect, OpenFails, LinkUp, Handshake
<1>11. ~(Finish \/ ReadyOff \/ SaveKey \/ SaveFlag \/ DisarmOthers)
  BY DEF Finish, ReadyOff, SaveKey, SaveFlag, DisarmOthers, WorkerSlot
<1>12. ~(Fail \/ ArmLock \/ FailIdle \/ Rearm \/ Quiet)
  BY DEF Fail, ArmLock, FailIdle, Rearm, Quiet, WorkerSlot
<1>13. ReleaseArm => at["loop"] = s
  BY DEF ReleaseArm, LoopSlot
<1>14. ArmSet => at["worker"] = s
  BY DEF ArmSet, WorkerSlot
<1> HIDE DEF TypeOK, AdapterTypeOK, TaskTypeOK, adapterVars, notConnState, notSession,
        setReconnectState, tryRearmAdoptedReconnect
<1> QED
  BY <1>1, <1>2, <1>3, <1>4, <1>5, <1>6, <1>7, <1>8, <1>9, <1>10, <1>11, <1>12, <1>13,
     <1>14
  DEF Next, UartStep, LoopStep, WorkerStep, Arms

\* An explicit disarm is final: only the release of a link that was lost again
\* or a failed boot connect, each under the slot's lifecycle lock, arms a slot.
THEOREM OffIsFinal == Spec => OffStaysOff
<1>1. BaseInv /\ [Next]_vars
        => [\A s \in Slots :
               reconnect[s] = "OFF" /\ reconnect'[s] # "OFF" =>
                  /\ reconnect'[s] = "ARMED"
                  /\ \E t \in Tasks : lifecycle[s] = t /\ pc[t] \in {"arm", "armSet"}]_vars
  <2> SUFFICES ASSUME BaseInv, Next, NEW s \in Slots, reconnect[s] = "OFF",
                      reconnect'[s] # "OFF"
               PROVE  /\ reconnect'[s] = "ARMED"
                      /\ \E t \in Tasks : lifecycle[s] = t /\ pc[t] \in {"arm", "armSet"}
    OBVIOUS
  <2> USE DEF BaseInv, TypeOK, AdapterTypeOK, LockInv, HoldPcs, Tasks, Here,
          setReconnectState
  <2>1. Arms(s)
    BY OnlyArmsLeaveOff
  <2>2. CASE ReleaseArm /\ at["loop"] = s
    BY <2>2 DEF ReleaseArm, LoopSlot
  <2>3. CASE ArmSet /\ at["worker"] = s
    BY <2>3 DEF ArmSet, WorkerSlot
  <2> QED  BY <2>1, <2>2, <2>3 DEF Arms
<1> QED  BY <1>1, BaseInit, BaseStep, PTL DEF Spec, OffStaysOff

-----------------------------------------------------------------------------
(* ReadyDisarmed. *)

\* The loop task comes to "arm" only from the end of the teardown of a lost link.
LEMMA OnlyReleaseIdleLeadsToArm ==
  ASSUME TypeOK, LoopStep, pc'["loop"] = "arm"
  PROVE  ReleaseIdle
<1> USE DEF Goto, GotoWith, Begin, TypeOK, TaskTypeOK, Tasks
<1>1. ASSUME NEW b \in BOOLEAN PROVE ~ContinueWith(b)
  BY ContinueMoves DEF Moved, LoopStops
<1>2. ~Continue
  BY <1>1 DEF Continue
<1>3. ~LoopRest
  BY DEF LoopRest
<1> HIDE DEF ContinueWith
<1>4. ~(Adopt("loop") \/ ClaimWon("loop") \/ ClaimLost("loop") \/ Send("loop"))
  BY <1>1 DEF Adopt, ClaimWon, ClaimLost, Send, Return
<1>5. ~(Lock("loop") \/ Close("loop") \/ SetIdle("loop"))
  BY <1>2 DEF Lock, Close, SetIdle
<1>6. ~(TakeSnapshot("loop") \/ Push("loop"))
  BY <1>1, <1>3 DEF TakeSnapshot, Push, AfterPush
<1>7. ~(AutoStart \/ NoAutoStart \/ AutoSlot \/ ReleaseRead \/ ReleaseLock
        \/ ReleaseArm \/ BusyScan)
  BY <1>1, <1>2 DEF AutoStart, NoAutoStart, AutoSlot, ReleaseRead, ReleaseLock,
     ReleaseArm, BusyScan
<1>8. ~(SchedNotArmed \/ SchedInFlight \/ SchedWait \/ SchedGiveUp \/ SchedDue
        \/ GiveUp)
  BY <1>2 DEF SchedNotArmed, SchedInFlight, SchedWait, SchedGiveUp, SchedDue, GiveUp
<1>9. ~(ButtonQuiet \/ ButtonPress \/ ButtonLongPress \/ HoldSlot \/ HoldDisarm)
  BY <1>2, <1>3 DEF ButtonQuiet, ButtonPress, ButtonLongPress, HoldSlot, HoldDisarm
<1> QED
  BY <1>4, <1>5, <1>6, <1>7, <1>8, <1>9 DEF LoopStep

\* The connect that made a slot READY ends its background reconnect before the
\* lock is given back, and a slot whose lost link is released is not READY
\* again before it is armed.
DisarmInv ==
    /\ \A s \in Slots :
          connState[s] = "READY" =>
             reconnect[s] = "OFF" \/ (at["worker"] = s /\ pc["worker"] = "readyOff")
    /\ pc["loop"] = "arm" => connState[at["loop"]] # "READY"

LEMMA DisarmStep ==
  ASSUME BaseInv, ReadyInv, DisarmInv, Next
  PROVE  DisarmInv'
<1>1. ASSUME NEW s \in Slots, connState'[s] = "READY"
      PROVE  reconnect'[s] = "OFF" \/ (at'["worker"] = s /\ pc'["worker"] = "readyOff")
  <2>1. CASE connState[s] # "READY"
    BY <1>1, <2>1, OnlyFinishMakesReady DEF BaseInv
  <2>2. CASE connState[s] = "READY" /\ reconnect[s] = "OFF"
    <3>1. ~Arms(s)
      BY <2>2 DEF Arms, DisarmInv, ReadyInv, Attempting, ReleaseArm, ArmSet, Here
    <3> QED  BY <2>2, <3>1, OnlyArmsLeaveOff DEF BaseInv
  <2>3. CASE connState[s] = "READY" /\ at["worker"] = s /\ pc["worker"] = "readyOff"
    <3>1. CASE OtherStep
      BY <2>3, <3>1, WorkerStays DEF BaseInv, WorkerKept
    <3>2. CASE WorkerStep
      <4>1. ReadyOff
        BY <2>3, <3>2 DEF WorkerStep, Here, Receive, Acquire, CheckBackground, Drop,
           Announce, Connect, OpenFails, LinkUp, Handshake, Finish, SaveKey, SaveFlag, DisarmOthers,
           Fail, ArmLock, ArmSet, FailIdle, Rearm, Quiet, Lock, Close, SetIdle,
           TakeSnapshot, Push
      <4> QED
        BY <2>3, <4>1 DEF ReadyOff, WorkerSlot, setReconnectState, BaseInv, TypeOK,
           AdapterTypeOK
    <3> QED  BY <3>1, <3>2 DEF Next, OtherStep
  <2> QED  BY <2>1, <2>2, <2>3 DEF DisarmInv
<1>2. ASSUME pc'["loop"] = "arm"  PROVE connState'[at'["loop"]] # "READY"
  <2>1. CASE LoopStep
    BY <1>2, <2>1, OnlyReleaseIdleLeadsToArm
    DEF BaseInv, TypeOK, AdapterTypeOK, TaskTypeOK, Tasks, ReleaseIdle, LoopSlot,
        setState, Goto
  <2>2. CASE NotLoopStep
    <3>1. pc["loop"] = "arm" /\ at'["loop"] = at["loop"]
      BY <1>2, <2>2, LoopStays DEF BaseInv, LoopKept
    <3>2. at["loop"] \in Slots /\ lifecycle[at["loop"]] = "loop"
      BY <3>1 DEF BaseInv, TypeOK, TaskTypeOK, LockInv, HoldPcs, Tasks
    <3> QED
      BY <3>1, <3>2, OnlyFinishMakesReady, FreeAssumption DEF DisarmInv, BaseInv
  <2> QED  BY <2>1, <2>2 DEF Next, NotLoopStep
<1> QED  BY <1>1, <1>2 DEF DisarmInv

LEMMA DisarmInit == Init => DisarmInv
BY DEF Init, AdapterInit, DisarmInv, Tasks

\* A READY slot that nobody is changing is not looked for: no dropped link and
\* no adopted reconnect leaves it armed.
THEOREM ReadyIsDisarmed == Spec => []ReadyDisarmed
<1>1. BaseInv /\ ReadyInv /\ DisarmInv /\ [Next]_vars => DisarmInv'
  <2>1. CASE UNCHANGED vars
    BY <2>1 DEF vars, adapterVars, taskVars, DisarmInv
  <2> QED  BY <2>1, DisarmStep
<1>2. BaseInv /\ DisarmInv => ReadyDisarmed
  BY FreeAssumption
  DEF BaseInv, TypeOK, TaskTypeOK, LockInv, HoldPcs, Tasks, DisarmInv, ReadyDisarmed
<1> QED
  BY <1>1, <1>2, DisarmInit, BaseInit, BaseStep, ReadyInit, ReadyStep, PTL DEF Spec

-----------------------------------------------------------------------------
(* HuntHasTarget. *)

\* The loop task is in the release of a lost link, before it arms the slot.
Releasing ==
    pc["loop"] \in {"releaseLock", "close", "setIdle"} /\ op["loop"] = "release"

\* A saved or hunting slot has a name to look for, and so has a slot that is
\* about to be armed: by the loop task, which read the saved flag before it
\* took the lock, or by the worker, which checked it after a failed connect.
HuntInv ==
    /\ \A s \in Slots :
          saved[s] \/ reconnect[s] # "OFF" => openDevice[s] # Proximity
    /\ Releasing /\ flag["loop"] => openDevice[at["loop"]] # Proximity
    /\ pc["loop"] = "arm" => openDevice[at["loop"]] # Proximity
    /\ pc["loop"] \in {"hold", "lock"} => op["loop"] = "hold"
    /\ pc["worker"] \in {"armLock", "armSet"} => openDevice[at["worker"]] # Proximity

\* The places of a release, which the flag is about.
ReleasePcs == {"releaseLock", "close", "setIdle", "arm"}

\* Only a save changes what a slot looks for, and it stores a sensor's name.
LEMMA TargetStays ==
  ASSUME BaseInv, Next, NEW s \in Slots
  PROVE  /\ openDevice[s] # Proximity => openDevice'[s] # Proximity
         /\ saved'[s] => saved[s] \/ openDevice'[s] # Proximity
<1>1. CASE SaveFlag
  <2> USE DEF BaseInv, TypeOK, AdapterTypeOK, SharedTypeOK, TaskTypeOK, Tasks
  <2>1. sensor[at["worker"]] # Proximity
    BY <1>1, SensorsAssumption DEF NameInv, SaveFlag, Here
  <2> QED  BY <1>1, <2>1 DEF SaveFlag, WorkerSlot
<1>2. CASE ~SaveFlag
  <2> USE DEF adapterVars, notConnState, notReconnect, notSession, otherVars, storeVars,
          notRequests, notAuto, notSchedule, notInput
  <2>1. CASE ForgetFlag
    BY <2>1 DEF ForgetFlag, BaseInv, TypeOK, SharedTypeOK, TaskTypeOK, Tasks
  <2>2. CASE dispatchHostCommand
    BY <2>2 DEF dispatchHostCommand, cmdConnect, cmdDisconnect, cmdForget, cmdDevList,
       cmdCancelConnect, cmdSetPeriod, Command
  <2>3. ASSUME NEW t \in Tasks,
               Adopt(t) \/ ClaimWon(t) \/ ClaimLost(t) \/ Send(t) \/ Lock(t)
               \/ Close(t) \/ SetIdle(t) \/ TakeSnapshot(t) \/ Push(t)
        PROVE  openDevice' = openDevice /\ saved' = saved
    BY <2>3 DEF Adopt, ClaimWon, ClaimLost, Send, Lock, Close, SetIdle, TakeSnapshot, Push
  <2>4. CASE ForgetDisarm \/ ForgetKey \/ CancelRearm
    BY <2>4 DEF ForgetDisarm, ForgetKey, CancelRearm
  <2>5. CASE AutoStart \/ NoAutoStart \/ AutoSlot \/ ReleaseRead \/ ReleaseLock
             \/ ReleaseIdle \/ ReleaseArm \/ BusyScan
    BY <2>5 DEF AutoStart, NoAutoStart, AutoSlot, ReleaseRead, ReleaseLock, ReleaseIdle,
       ReleaseArm, BusyScan
  <2>6. CASE SchedNotArmed \/ SchedInFlight \/ SchedWait \/ SchedGiveUp \/ SchedDue
             \/ GiveUp
    BY <2>6 DEF SchedNotArmed, SchedInFlight, SchedWait, SchedGiveUp, SchedDue,
       SchedResting, SchedulePass, GiveUp
  <2>7. CASE ButtonQuiet \/ ButtonPress \/ ButtonLongPress \/ HoldSlot \/ HoldDisarm
    BY <2>7 DEF ButtonQuiet, ButtonPress, ButtonLongPress, HoldSlot, HoldDisarm
  <2>8. CASE \E r \in Slots : LoseLink(r)
    BY <2>8 DEF LoseLink
  <2>9. CASE Receive \/ Acquire \/ CheckBackground \/ Drop \/ Announce
    BY <2>9 DEF Receive, Acquire, CheckBackground, Drop, Announce
  <2>10. CASE Connect \/ OpenFails \/ LinkUp \/ Handshake \/ Finish \/ ReadyOff
              \/ SaveKey \/ DisarmOthers
    BY <2>10 DEF Connect, OpenFails, LinkUp, Handshake, Finish, ReadyOff, SaveKey,
       DisarmOthers
  <2>11. CASE Fail \/ ArmLock \/ ArmSet \/ FailIdle \/ Rearm \/ Quiet
    BY <2>11 DEF Fail, ArmLock, ArmSet, FailIdle, Rearm, Quiet
  <2> HIDE DEF adapterVars, notConnState, notReconnect, notSession, otherVars, storeVars,
          notRequests, notAuto, notSchedule, notInput
  <2> QED
    BY <1>2, <2>1, <2>2, <2>3, <2>4, <2>5, <2>6, <2>7, <2>8, <2>9, <2>10, <2>11
    DEF Next, UartStep, LoopStep, WorkerStep, Tasks
<1> QED  BY <1>1, <1>2

\* The loop task goes on in a hold only from a hold.
LEMMA ContinueHolds ==
  ASSUME TaskTypeOK, NEW b \in BOOLEAN, ContinueWith(b)
  PROVE  /\ pc'["loop"] \notin ReleasePcs \cup {"lock"}
         /\ pc'["loop"] = "hold" => op'["loop"] = "hold"
<1>1. pc'["loop"] \in LoopStops
  BY ContinueMoves DEF Moved
<1>2. ASSUME pc'["loop"] = "hold" PROVE op'["loop"] = "hold"
  BY <1>2 DEF ContinueWith, EndPass, Body, LoopRest, GotoWith, Begin, TaskTypeOK, LoopOps,
     Tasks
<1> QED  BY <1>1, <1>2 DEF LoopStops, ReleasePcs

\* What the loop task carries from the flag it read to the arming.
LoopHunt ==
    /\ Releasing /\ flag["loop"] => openDevice[at["loop"]] # Proximity
    /\ pc["loop"] = "arm" => openDevice[at["loop"]] # Proximity
    /\ pc["loop"] \in {"hold", "lock"} => op["loop"] = "hold"

LEMMA LoopHuntStep ==
  ASSUME BaseInv, HuntInv, LoopStep, openDevice' = openDevice
  PROVE  LoopHunt'
<1> USE DEF HuntInv, LoopHunt, Releasing, ReleasePcs, Goto, GotoWith, Begin, BaseInv, TypeOK,
        TaskTypeOK, Tasks, Here, LoopSlot
<1>1. ASSUME NEW b \in BOOLEAN, ContinueWith(b) PROVE LoopHunt'
  BY <1>1, ContinueHolds
<1>2. ASSUME Continue PROVE LoopHunt'
  BY <1>1, <1>2 DEF Continue
<1>3. ASSUME LoopRest PROVE LoopHunt'
  BY <1>3 DEF LoopRest
<1>4. CASE Adopt("loop") \/ ClaimWon("loop") \/ ClaimLost("loop") \/ Send("loop")
  BY <1>1, <1>4 DEF Adopt, ClaimWon, ClaimLost, Send, Return
<1>5. CASE Lock("loop") \/ Close("loop")
  BY <1>5 DEF Lock, Close
<1>6. CASE SetIdle("loop")
  BY <1>2, <1>6 DEF SetIdle
<1>7. CASE TakeSnapshot("loop") \/ Push("loop")
  BY <1>1, <1>3, <1>7 DEF TakeSnapshot, Push, AfterPush
<1>8. CASE AutoStart \/ NoAutoStart \/ AutoSlot \/ BusyScan
  BY <1>2, <1>8 DEF AutoStart, NoAutoStart, AutoSlot, BusyScan
<1>9. CASE ReleaseRead
  BY <1>9 DEF ReleaseRead, SharedTypeOK
<1>10. CASE ReleaseLock \/ ReleaseIdle \/ ReleaseArm
  BY <1>1, <1>10 DEF ReleaseLock, ReleaseIdle, ReleaseArm
<1>11. CASE SchedNotArmed \/ SchedInFlight \/ SchedWait \/ SchedGiveUp \/ SchedDue
            \/ GiveUp
  BY <1>2, <1>11 DEF SchedNotArmed, SchedInFlight, SchedWait, SchedGiveUp, SchedDue, GiveUp
<1>12. CASE ButtonQuiet \/ ButtonPress \/ ButtonLongPress \/ HoldSlot \/ HoldDisarm
  BY <1>2, <1>3, <1>12 DEF ButtonQuiet, ButtonPress, ButtonLongPress, HoldSlot, HoldDisarm
<1> QED
  BY <1>4, <1>5, <1>6, <1>7, <1>8, <1>9, <1>10, <1>11, <1>12 DEF LoopStep

\* Only a save changes openDevice.
LEMMA LoopKeepsTarget == LoopStep => openDevice' = openDevice
<1> SUFFICES ASSUME LoopStep PROVE openDevice' = openDevice
  OBVIOUS
<1> QED
  BY DEF LoopStep, adapterVars, notConnState, notReconnect, notSession, Adopt, ClaimWon,
     ClaimLost, Send, Lock, Close, SetIdle, TakeSnapshot, Push, AutoStart, NoAutoStart,
     AutoSlot, ReleaseRead, ReleaseLock, ReleaseIdle, ReleaseArm, BusyScan, SchedNotArmed,
     SchedInFlight, SchedWait, SchedGiveUp, SchedDue, SchedResting, SchedulePass, GiveUp,
     ButtonQuiet, ButtonPress, ButtonLongPress, HoldSlot, HoldDisarm

\* The worker comes to armLock and armSet with a saved slot.
LEMMA WorkerHuntStep ==
  ASSUME BaseInv, HuntInv, WorkerStep, pc'["worker"] \in {"armLock", "armSet"}
  PROVE  openDevice[at'["worker"]] # Proximity
<1> USE DEF Goto, Begin, WorkerRest, WorkerGoto, WorkerSlot, BaseInv, TypeOK, TaskTypeOK,
        Tasks, Here
<1>1. ~(Receive \/ Acquire \/ CheckBackground \/ Drop \/ Announce)
  BY DEF Receive, Acquire, CheckBackground, Drop, Announce
<1>2. ~(Connect \/ OpenFails \/ LinkUp \/ Handshake)
  BY DEF Connect, OpenFails, LinkUp, Handshake
<1>3. ~(Finish \/ ReadyOff \/ SaveKey \/ SaveFlag \/ DisarmOthers)
  BY DEF Finish, ReadyOff, SaveKey, SaveFlag, DisarmOthers
<1>4. ~(ArmSet \/ FailIdle \/ Rearm \/ Quiet)
  BY DEF ArmSet, FailIdle, Rearm, Quiet
<1>5. ~(Lock("worker") \/ Close("worker") \/ SetIdle("worker"))
  BY DEF Lock, Close, SetIdle, WorkerOps
<1>6. ~(TakeSnapshot("worker") \/ Push("worker"))
  BY DEF TakeSnapshot, Push, AfterPush
<1>7. CASE Fail
  BY <1>7 DEF Fail, HuntInv
<1>8. CASE ArmLock
  BY <1>8 DEF ArmLock, HuntInv
<1> QED  BY <1>1, <1>2, <1>3, <1>4, <1>5, <1>6, <1>7, <1>8 DEF WorkerStep

LEMMA HuntStep ==
  ASSUME BaseInv, HuntInv, Next
  PROVE  HuntInv'
<1>1. ASSUME NEW s \in Slots, saved'[s] \/ reconnect'[s] # "OFF"
      PROVE  openDevice'[s] # Proximity
  <2>1. CASE saved[s] \/ reconnect[s] # "OFF" \/ saved'[s]
    BY <2>1, TargetStays DEF HuntInv
  <2>2. CASE reconnect[s] = "OFF" /\ reconnect'[s] # "OFF"
    <3>1. Arms(s)
      BY <2>2, OnlyArmsLeaveOff DEF BaseInv
    <3>2. openDevice[s] # Proximity
      BY <3>1 DEF Arms, HuntInv, ReleaseArm, ArmSet, Here
    <3> QED  BY <3>2, TargetStays
  <2> QED  BY <1>1, <2>1, <2>2
<1>2. LoopHunt'
  <2>1. CASE LoopStep
    BY <2>1, LoopHuntStep, LoopKeepsTarget
  <2>2. CASE NotLoopStep
    <3>1. at["loop"] \in Slots
      BY DEF BaseInv, TypeOK, TaskTypeOK, Tasks
    <3> QED  BY <2>2, <3>1, LoopStays, TargetStays DEF BaseInv, LoopKept, Releasing, HuntInv, LoopHunt
  <2> QED  BY <2>1, <2>2 DEF Next, NotLoopStep
<1>3. ASSUME pc'["worker"] \in {"armLock", "armSet"}
      PROVE  openDevice'[at'["worker"]] # Proximity
  <2>0. at["worker"] \in Slots /\ at'["worker"] \in Slots
    BY BaseStep DEF BaseInv, TypeOK, TaskTypeOK, Tasks
  <2>1. CASE WorkerStep
    BY <1>3, <2>0, <2>1, WorkerHuntStep, TargetStays
  <2>2. CASE OtherStep
    BY <1>3, <2>0, <2>2, WorkerStays, TargetStays DEF BaseInv, WorkerKept, HuntInv
  <2> QED  BY <2>1, <2>2 DEF Next, OtherStep
<1> QED  BY <1>1, <1>2, <1>3 DEF HuntInv, LoopHunt

LEMMA HuntInit == Init => HuntInv
<1> SUFFICES ASSUME Init PROVE HuntInv
  OBVIOUS
<1>1. ASSUME NEW s \in Slots, saved[s] \/ reconnect[s] # "OFF"
      PROVE  openDevice[s] # Proximity
  BY <1>1 DEF Init, AdapterInit
<1>2. pc["loop"] = "start" /\ pc["worker"] = "receive"
  BY DEF Init, Tasks
<1> QED  BY <1>1, <1>2 DEF HuntInv, Releasing

\* A slot that is looked for has a name to look for: a background attempt never
\* becomes a proximity connect that takes any sensor nearby.
THEOREM HuntsAreTargeted == Spec => []HuntHasTarget
<1>1. BaseInv /\ HuntInv /\ [Next]_vars => HuntInv'
  <2>1. CASE UNCHANGED vars
    BY <2>1 DEF vars, adapterVars, taskVars, otherVars, storeVars, HuntInv, Releasing
  <2> QED  BY <2>1, HuntStep
<1>2. HuntInv => HuntHasTarget
  BY DEF HuntInv, HuntHasTarget
<1> QED  BY <1>1, <1>2, HuntInit, BaseInit, BaseStep, PTL DEF Spec

=============================================================================

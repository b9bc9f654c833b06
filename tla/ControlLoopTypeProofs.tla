------------------------ MODULE ControlLoopTypeProofs ------------------------
(***************************************************************************)
(* Proofs about ControlLoop for every number of slots, every set of        *)
(* sensors and every bound.                                                *)
(***************************************************************************)
EXTENDS ControlLoop, TLAPS

\* The places at which a task holds the lifecycle lock of its slot.
HoldPcs == {"close", "setIdle", "arm", "readyOff", "saveKey", "saveFlag", "disarmOthers",
            "armSet"}

\* The lock discipline: a task is inside the critical section of a slot exactly
\* when it holds the slot's lifecycle lock.
LockInv ==
    \A s \in Slots, t \in Tasks :
        lifecycle[s] = t <=> at[t] = s /\ pc[t] \in HoldPcs

\* The name that the worker saves is still there: nobody closes the session
\* under it (onSensorReady runs under the lifecycle lock).
NameInv ==
    pc["worker"] \in {"saveKey", "saveFlag", "disarmOthers"} => sensor[at["worker"]] \in Sensors

BaseInv == TypeOK /\ LockInv /\ NameInv

-----------------------------------------------------------------------------
(* The moves of a task. *)

\* The places at which an operation of the loop task goes on.
LoopStops == {"autoSlot", "release", "sched", "hold", "busyScan", "button",
              "start", "list"}

\* A move of task t to a place of `labels` leaves every other task alone.
Moved(t, labels) ==
    /\ TaskTypeOK'
    /\ pc'[t] \in labels
    /\ \A u \in Tasks \ {t} : pc'[u] = pc[u] /\ op'[u] = op[u] /\ at'[u] = at[u]
                              /\ flag'[u] = flag[u]

PcsOf(t) == CASE t = "uart" -> UartPcs [] t = "loop" -> LoopPcs
              [] t = "worker" -> WorkerPcs
OpsOf(t) == CASE t = "uart" -> UartOps [] t = "loop" -> LoopOps
              [] t = "worker" -> WorkerOps

LEMMA GotoMoves ==
  ASSUME TaskTypeOK, NEW t \in Tasks, NEW label \in PcsOf(t), Goto(t, label)
  PROVE  Moved(t, {label}) /\ op'[t] = op[t] /\ at'[t] = at[t]
         /\ flag'[t] = flag[t]
BY DEF TaskTypeOK, Goto, Moved, PcsOf, Tasks

LEMMA GotoWithMoves ==
  ASSUME TaskTypeOK, NEW t \in Tasks, NEW label \in PcsOf(t),
         NEW b \in BOOLEAN, GotoWith(t, label, b)
  PROVE  Moved(t, {label}) /\ op'[t] = op[t] /\ at'[t] = at[t]
         /\ flag'[t] = b
BY DEF TaskTypeOK, GotoWith, Moved, PcsOf, Tasks

LEMMA BeginMoves ==
  ASSUME TaskTypeOK, NEW t \in Tasks, NEW label \in PcsOf(t),
         NEW o \in OpsOf(t), NEW s \in Slots, Begin(t, label, o, s)
  PROVE  Moved(t, {label}) /\ op'[t] = o /\ at'[t] = s /\ flag'[t] = FALSE
BY DEF TaskTypeOK, Begin, Moved, PcsOf, OpsOf, Tasks

LEMMA ZeroIsSlot == 0 \in Slots
BY SlotsAssumption DEF Slots

LEMMA ContinueMoves ==
  ASSUME TaskTypeOK, NEW b \in BOOLEAN, ContinueWith(b)
  PROVE  Moved("loop", LoopStops)
<1> DEFINE o == op["loop"]
<1> DEFINE i == at["loop"] + 1
<1>1. "loop" \in Tasks /\ o \in LoopOps
  BY DEF Tasks, TaskTypeOK
<1>2. CASE o # "press" /\ i \in Slots
  <2>1. Body(o) \in LoopStops
    BY <1>1, <1>2 DEF Body, LoopOps, LoopStops
  <2>2. Body(o) \in LoopPcs
    BY <1>1, <1>2 DEF Body, LoopOps, LoopPcs
  <2>3. /\ pc' = [pc EXCEPT !["loop"] = Body(o)]
        /\ at' = [at EXCEPT !["loop"] = i]
        /\ flag' = [flag EXCEPT !["loop"] = b]
        /\ op' = op
    BY <1>2 DEF ContinueWith
  <2> QED  BY <1>1, <1>2, <2>1, <2>2, <2>3 DEF TaskTypeOK, Moved, Tasks
<1>3. CASE ~(o # "press" /\ i \in Slots)
  <2>1. EndPass(o, b)
    BY <1>3 DEF ContinueWith
  <2>2. CASE o \in {"boot", "auto"}
    <3>1. Begin("loop", "release", "release", 0)
      BY <2>1, <2>2 DEF EndPass
    <3> QED  BY <1>1, <3>1, ZeroIsSlot
                DEF TaskTypeOK, Begin, Moved, LoopStops, LoopPcs, LoopOps, Tasks
  <2>3. CASE o = "release"
    <3>1. Begin("loop", "busyScan", "sched", 0)
      BY <2>1, <2>3 DEF EndPass
    <3> QED  BY <1>1, <3>1, ZeroIsSlot
                DEF TaskTypeOK, Begin, Moved, LoopStops, LoopPcs, LoopOps, Tasks
  <2>4. CASE o = "sched"
    <3>1. Begin("loop", "button", "auto", 0)
      BY <2>1, <2>4 DEF EndPass
    <3> QED  BY <1>1, <3>1, ZeroIsSlot
                DEF TaskTypeOK, Begin, Moved, LoopStops, LoopPcs, LoopOps, Tasks
  <2>5. CASE o = "press" \/ (o = "hold" /\ ~b)
    <3>1. Begin("loop", "start", "auto", 0)
      BY <2>1, <2>5 DEF EndPass, LoopRest
    <3> QED  BY <1>1, <3>1, ZeroIsSlot
                DEF TaskTypeOK, Begin, Moved, LoopStops, LoopPcs, LoopOps, Tasks
  <2>6. CASE o = "hold" /\ b
    <3>1. GotoWith("loop", "list", FALSE)
      BY <2>1, <2>6 DEF EndPass
    <3> QED  BY <1>1, <3>1, GotoWithMoves
                DEF Moved, LoopStops, PcsOf, LoopPcs
  <2> QED  BY <1>1, <2>2, <2>3, <2>4, <2>5, <2>6 DEF LoopOps
<1> QED  BY <1>2, <1>3

-----------------------------------------------------------------------------
(* Types. *)

LEMMA AdapterTypeStep ==
  ASSUME TypeOK, NameInv, [Next]_vars
  PROVE  AdapterTypeOK'
<1> USE DEF TypeOK, AdapterTypeOK, TaskTypeOK, Tasks, ConnStates, ReconnectStates,
        LinkStates, setState, setReconnectState, lockLifecycle, unlockLifecycle,
        adapterVars, notConnState, notReconnect, notSession
<1>1. ASSUME NEW t \in {"uart", "loop"}, Adopt(t)  PROVE AdapterTypeOK'
  BY <1>1 DEF Adopt, tryAdoptReconnect
<1>2. ASSUME NEW t \in {"uart", "loop"}, ClaimWon(t) \/ ClaimLost(t) \/ Send(t)
      PROVE  AdapterTypeOK'
  BY <1>2 DEF ClaimWon, ClaimLost, Send, tryRequestConnect
<1>3. ASSUME NEW t \in Tasks, Lock(t) PROVE AdapterTypeOK'
  BY <1>3 DEF Lock
<1>4. ASSUME NEW t \in Tasks, Close(t) PROVE AdapterTypeOK'
  BY <1>4 DEF Close, closeSession, endSession
<1>5. ASSUME NEW t \in Tasks, SetIdle(t) PROVE AdapterTypeOK'
  BY <1>5 DEF SetIdle
<1>6. ASSUME NEW t \in Tasks, TakeSnapshot(t) \/ Push(t) PROVE AdapterTypeOK'
  BY <1>6 DEF TakeSnapshot, Push
<1>7. CASE dispatchHostCommand
  BY <1>7 DEF dispatchHostCommand, cmdConnect, cmdDisconnect, cmdForget, cmdCancelConnect, cmdSetPeriod, cmdDevList, tryCancelConnect
<1>8. CASE ForgetDisarm \/ ForgetKey \/ ForgetFlag \/ CancelRearm
  BY <1>8 DEF ForgetDisarm, ForgetKey, ForgetFlag, CancelRearm, tryRearmAdoptedReconnect
<1>9. CASE AutoStart \/ NoAutoStart \/ AutoSlot \/ ReleaseRead \/ BusyScan \/ SchedNotArmed \/ SchedInFlight \/ SchedWait \/ SchedGiveUp
     \/ SchedDue \/ ButtonQuiet \/ ButtonPress \/ ButtonLongPress \/ HoldSlot
  BY <1>9 DEF AutoStart, NoAutoStart, AutoSlot, ReleaseRead, BusyScan, SchedNotArmed, SchedInFlight, SchedWait, SchedGiveUp,
     SchedDue, ButtonQuiet, ButtonPress, ButtonLongPress, HoldSlot, SchedResting, SchedulePass
<1>10. CASE ReleaseLock
  BY <1>10 DEF ReleaseLock, LoopSlot
<1>11. CASE ReleaseIdle
  BY <1>11 DEF ReleaseIdle, LoopSlot
<1>12. CASE ReleaseArm
  BY <1>12 DEF ReleaseArm, LoopSlot
<1>13. CASE GiveUp
  BY <1>13 DEF GiveUp, LoopSlot, tryGiveUpReconnect
<1>14. CASE HoldDisarm
  BY <1>14 DEF HoldDisarm, LoopSlot
<1>15. CASE Receive \/ CheckBackground \/ Announce \/ Quiet \/ Fail
  BY <1>15 DEF Receive, CheckBackground, Announce, Quiet, Fail
<1>16. CASE Acquire
  BY <1>16 DEF Acquire, WorkerSlot, tryAcquireConnecting
<1>17. CASE Drop \/ FailIdle
  BY <1>17 DEF Drop, FailIdle, WorkerSlot
<1>18. CASE Connect
  BY <1>18 DEF Connect, WorkerSlot, openSession
<1>19. CASE OpenFails
  BY <1>19 DEF OpenFails, WorkerSlot, endSession
<1>20. CASE LinkUp
  BY <1>20 DEF LinkUp, WorkerSlot, linkTo, Found
<1>21. CASE Handshake
  BY <1>21 DEF Handshake, WorkerSlot, handshakeDone
<1>22. CASE Finish
  BY <1>22 DEF Finish, WorkerSlot
<1>23. CASE ReadyOff
  BY <1>23 DEF ReadyOff, WorkerSlot
<1>24. CASE SaveKey \/ SaveFlag
  BY <1>24 DEF SaveKey, SaveFlag, adapterVars, WorkerSlot, NameInv, Here, Names
<1>25. CASE DisarmOthers
  BY <1>25 DEF DisarmOthers, WorkerSlot
<1>26. CASE ArmLock
  BY <1>26 DEF ArmLock, WorkerSlot
<1>27. CASE ArmSet
  BY <1>27 DEF ArmSet, WorkerSlot
<1>28. CASE Rearm
  BY <1>28 DEF Rearm, WorkerSlot, tryRearmAdoptedReconnect
<1>29. CASE \E s \in Slots : LoseLink(s)
  BY <1>29 DEF LoseLink
<1>30. CASE UNCHANGED vars
  BY <1>30 DEF vars
<1> QED
  BY <1>1, <1>2, <1>3, <1>4, <1>5, <1>6, <1>7, <1>8, <1>9, <1>10, <1>11, <1>12, <1>13,
     <1>14, <1>15, <1>16, <1>17, <1>18, <1>19, <1>20, <1>21, <1>22, <1>23, <1>24, <1>25, <1>26,
     <1>27, <1>28, <1>29, <1>30
  DEF Next, UartStep, LoopStep, WorkerStep

LEMMA ContinueTypes ==
  ASSUME TaskTypeOK, NEW b \in BOOLEAN, ContinueWith(b)
  PROVE  TaskTypeOK'
BY ContinueMoves DEF Moved

LEMMA FlagType == TaskTypeOK => \A t \in Tasks : flag[t] \in BOOLEAN
BY DEF TaskTypeOK

LEMMA AtType == TaskTypeOK => \A t \in Tasks : at[t] \in Slots
BY DEF TaskTypeOK

LEMMA RestTypes ==
  ASSUME TaskTypeOK, UartRest \/ LoopRest \/ WorkerRest
  PROVE  TaskTypeOK'
BY ZeroIsSlot, BeginMoves DEF UartRest, LoopRest, WorkerRest, Moved, PcsOf, OpsOf,
   UartPcs, UartOps, LoopPcs, LoopOps, WorkerPcs, WorkerOps, Tasks

LEMMA ReturnTypes ==
  ASSUME TaskTypeOK, NEW t \in {"uart", "loop"}, NEW b \in BOOLEAN, Return(t, b)
  PROVE  TaskTypeOK'
BY RestTypes, ContinueTypes DEF Return

LEMMA TaskTypeStep ==
  ASSUME TypeOK, [Next]_vars
  PROVE  TaskTypeOK'
<1> USE DEF TypeOK, Moved
<1>1. ASSUME NEW t \in {"uart", "loop"}, Adopt(t) PROVE TaskTypeOK'
  BY <1>1, GotoMoves, GotoWithMoves DEF Adopt, PcsOf, UartPcs, LoopPcs, Tasks
<1>2. ASSUME NEW t \in {"uart", "loop"}, ClaimWon(t) PROVE TaskTypeOK'
  BY <1>2, GotoWithMoves DEF ClaimWon, PcsOf, UartPcs, LoopPcs, Tasks
<1>3. ASSUME NEW t \in {"uart", "loop"}, ClaimLost(t) PROVE TaskTypeOK'
  BY <1>3, GotoWithMoves, ReturnTypes DEF ClaimLost, PcsOf, UartPcs, LoopPcs, Tasks
<1>4. ASSUME NEW t \in {"uart", "loop"}, Send(t) PROVE TaskTypeOK'
  BY <1>4, ReturnTypes DEF Send
<1>5. ASSUME NEW t \in Tasks, Lock(t) PROVE TaskTypeOK'
  BY <1>5, GotoMoves DEF Lock, PcsOf, UartPcs, LoopPcs, WorkerPcs, Tasks
<1>6. ASSUME NEW t \in Tasks, Close(t) PROVE TaskTypeOK'
  BY <1>6, GotoMoves DEF Close, PcsOf, UartPcs, LoopPcs, WorkerPcs, Tasks
<1>7. ASSUME NEW t \in Tasks, SetIdle(t) PROVE TaskTypeOK'
  <2>1. CASE op[t] = "FORGET"
    BY <1>7, <2>1, GotoMoves DEF SetIdle, PcsOf, UartPcs, Tasks, TaskTypeOK, UartOps, LoopOps, WorkerOps
  <2>2. CASE op[t] = "hold"
    BY <1>7, <2>2, ContinueTypes, FlagType DEF SetIdle, Continue, Tasks
  <2>3. CASE op[t] \notin {"FORGET", "hold"}
    BY <1>7, <2>3, GotoMoves DEF SetIdle, PcsOf, UartPcs, LoopPcs, WorkerPcs, Tasks
  <2> QED  BY <2>1, <2>2, <2>3
<1>8. ASSUME NEW t \in Tasks, TakeSnapshot(t) PROVE TaskTypeOK'
  BY <1>8, GotoMoves DEF TakeSnapshot, PcsOf, UartPcs, LoopPcs, WorkerPcs, Tasks
<1>9. ASSUME NEW t \in Tasks, Push(t) PROVE TaskTypeOK'
  <2>1. CASE t = "uart"
    BY <1>9, <2>1, RestTypes DEF Push, AfterPush
  <2>2. CASE t = "loop"
    BY <1>9, <2>2, RestTypes, ContinueTypes DEF Push, AfterPush
  <2>3. CASE t = "worker"
    BY <1>9, <2>3, RestTypes, GotoMoves DEF Push, AfterPush, WorkerPcs, PcsOf, Tasks
  <2> QED  BY <2>1, <2>2, <2>3 DEF Tasks
<1>10. CASE cmdConnect
  BY <1>10, ZeroIsSlot, BeginMoves DEF cmdConnect, Tasks, PcsOf, OpsOf, UartPcs, UartOps
<1>11. CASE cmdDisconnect
  BY <1>11, ZeroIsSlot, BeginMoves DEF cmdDisconnect, Tasks, PcsOf, OpsOf, UartPcs, UartOps
<1>12. CASE cmdForget
  BY <1>12, ZeroIsSlot, BeginMoves DEF cmdForget, Tasks, PcsOf, OpsOf, UartPcs, UartOps
<1>13. CASE cmdDevList
  BY <1>13, ZeroIsSlot, BeginMoves DEF cmdDevList, Tasks, PcsOf, OpsOf, UartPcs, UartOps
<1>14. CASE cmdCancelConnect
  <2>1. CASE UNCHANGED taskVars
    BY <2>1 DEF taskVars, TaskTypeOK
  <2>2. ASSUME NEW s \in Slots, Begin("uart", "cancelRearm", "CANCEL_CONNECT", s)
        PROVE  TaskTypeOK'
    BY <2>2, BeginMoves DEF Tasks, PcsOf, OpsOf, UartPcs, UartOps
  <2> QED  BY <1>14, <2>1, <2>2 DEF cmdCancelConnect, taskVars
<1>15. CASE cmdSetPeriod
  BY <1>15 DEF cmdSetPeriod, taskVars, TaskTypeOK
<1>16. CASE ForgetDisarm
  BY <1>16, GotoMoves DEF ForgetDisarm, Tasks, PcsOf, UartPcs
<1>17. CASE ForgetKey
  BY <1>17, GotoMoves DEF ForgetKey, Tasks, PcsOf, UartPcs
<1>18. CASE ForgetFlag
  BY <1>18, GotoMoves DEF ForgetFlag, Tasks, PcsOf, UartPcs
<1>19. CASE CancelRearm
  BY <1>19, GotoMoves DEF CancelRearm, Tasks, PcsOf, UartPcs
<1>20. CASE AutoStart
  BY <1>20, ZeroIsSlot, BeginMoves DEF AutoStart, Tasks, PcsOf, OpsOf, LoopPcs, LoopOps
<1>21. CASE NoAutoStart
  BY <1>21, ZeroIsSlot, BeginMoves DEF NoAutoStart, Tasks, PcsOf, OpsOf, LoopPcs, LoopOps
<1>22. CASE ButtonLongPress
  BY <1>22, ZeroIsSlot, BeginMoves DEF ButtonLongPress, Tasks, PcsOf, OpsOf, LoopPcs, LoopOps
<1>23. CASE AutoSlot
  BY <1>23, GotoMoves, ContinueTypes, FlagType DEF AutoSlot, Continue, Tasks, PcsOf, LoopPcs
<1>24. CASE ReleaseRead
  BY <1>24 DEF ReleaseRead, LoopSlot, SharedTypeOK, TaskTypeOK, GotoWith, LoopPcs, Tasks
<1>25. CASE ReleaseLock
  BY <1>25, GotoMoves, ContinueTypes DEF ReleaseLock, Tasks, PcsOf, LoopPcs
<1>26. CASE ReleaseIdle
  BY <1>26, GotoMoves DEF ReleaseIdle, Tasks, PcsOf, LoopPcs
<1>27. CASE ReleaseArm
  BY <1>27, GotoMoves DEF ReleaseArm, Tasks, PcsOf, LoopPcs
<1>28. CASE BusyScan
  BY <1>28 DEF BusyScan, TaskTypeOK, GotoWith, LoopPcs, Tasks
<1>29. CASE SchedNotArmed
  BY <1>29, GotoMoves, ContinueTypes, FlagType DEF SchedNotArmed, Continue, Tasks, PcsOf, LoopPcs
<1>30. CASE SchedInFlight
  BY <1>30, GotoMoves, ContinueTypes, FlagType DEF SchedInFlight, Continue, Tasks, PcsOf, LoopPcs
<1>31. CASE SchedWait
  BY <1>31, GotoMoves, ContinueTypes, FlagType DEF SchedWait, Continue, Tasks, PcsOf, LoopPcs
<1>32. CASE SchedGiveUp
  BY <1>32, GotoMoves, ContinueTypes, FlagType DEF SchedGiveUp, Continue, Tasks, PcsOf, LoopPcs
<1>33. CASE SchedDue
  BY <1>33, GotoMoves, ContinueTypes, FlagType DEF SchedDue, Continue, Tasks, PcsOf, LoopPcs
<1>34. CASE GiveUp
  BY <1>34, GotoMoves, ContinueTypes, FlagType DEF GiveUp, Continue, Tasks, PcsOf, LoopPcs
<1>35. CASE HoldDisarm
  BY <1>35, GotoMoves, ContinueTypes, FlagType DEF HoldDisarm, Continue, Tasks, PcsOf, LoopPcs
<1>36. CASE ButtonQuiet
  BY <1>36, RestTypes DEF ButtonQuiet
<1>37. CASE ButtonPress
  BY <1>37, RestTypes, BeginMoves DEF ButtonPress, FirstFreeSlots, Tasks, PcsOf, OpsOf, LoopPcs, LoopOps
<1>38. CASE HoldSlot
  BY <1>38, GotoMoves, GotoWithMoves DEF HoldSlot, Tasks, PcsOf, LoopPcs
<1>39. CASE Receive
  <2>1. Head(queue) \in ConnectRequest
    BY <1>39 DEF Receive, SharedTypeOK
  <2>2. Head(queue).slot \in Slots
    BY <2>1 DEF ConnectRequest
  <2> QED
    BY <1>39, <2>2, BeginMoves DEF Receive, Tasks, PcsOf, OpsOf, WorkerPcs, WorkerOps
<1>40. CASE Acquire
  BY <1>40, RestTypes, GotoMoves DEF Acquire, Tasks, PcsOf, OpsOf, WorkerPcs, WorkerOps, WorkerGoto
<1>41. CASE Drop
  BY <1>41, RestTypes DEF Drop
<1>42. CASE Quiet
  BY <1>42, RestTypes, GotoMoves DEF Quiet, Tasks, PcsOf, OpsOf, WorkerPcs, WorkerOps, WorkerGoto
<1>43. CASE Announce
  BY <1>43, AtType, GotoMoves, BeginMoves DEF Announce, WorkerSlot, Tasks, PcsOf, OpsOf, WorkerPcs, WorkerOps, WorkerGoto
<1>44. CASE Connect
  BY <1>44, AtType, BeginMoves DEF Connect, WorkerSlot, Tasks, PcsOf, OpsOf, WorkerPcs, WorkerOps, WorkerGoto
<1>45. CASE Finish
  BY <1>45, AtType, GotoMoves, BeginMoves DEF Finish, WorkerSlot, Tasks, PcsOf, OpsOf, WorkerPcs, WorkerOps, WorkerGoto
<1>46. CASE CheckBackground
  BY <1>46, GotoMoves DEF CheckBackground, Tasks, PcsOf, OpsOf, WorkerPcs, WorkerOps, WorkerGoto
<1>47. CASE OpenFails
  BY <1>47, GotoMoves DEF OpenFails, Tasks, PcsOf, OpsOf, WorkerPcs, WorkerOps, WorkerGoto
<1>48. CASE LinkUp
  BY <1>48, GotoMoves DEF LinkUp, Tasks, PcsOf, OpsOf, WorkerPcs, WorkerOps, WorkerGoto
<1>49. CASE Handshake
  BY <1>49, GotoMoves DEF Handshake, Tasks, PcsOf, OpsOf, WorkerPcs, WorkerOps, WorkerGoto
<1>50. CASE ReadyOff
  BY <1>50, GotoMoves DEF ReadyOff, Tasks, PcsOf, OpsOf, WorkerPcs, WorkerOps, WorkerGoto
<1>51. CASE SaveKey \/ SaveFlag
  BY <1>51, GotoMoves DEF SaveKey, SaveFlag, Tasks, PcsOf, OpsOf, WorkerPcs, WorkerOps,
     WorkerGoto
<1>52. CASE DisarmOthers
  BY <1>52, GotoMoves DEF DisarmOthers, Tasks, PcsOf, OpsOf, WorkerPcs, WorkerOps, WorkerGoto
<1>53. CASE Fail
  BY <1>53, GotoMoves DEF Fail, Tasks, PcsOf, OpsOf, WorkerPcs, WorkerOps, WorkerGoto
<1>54. CASE ArmLock
  BY <1>54, GotoMoves DEF ArmLock, Tasks, PcsOf, OpsOf, WorkerPcs, WorkerOps, WorkerGoto
<1>55. CASE ArmSet
  BY <1>55, GotoMoves DEF ArmSet, Tasks, PcsOf, OpsOf, WorkerPcs, WorkerOps, WorkerGoto
<1>56. CASE FailIdle
  BY <1>56, GotoMoves DEF FailIdle, Tasks, PcsOf, OpsOf, WorkerPcs, WorkerOps, WorkerGoto
<1>57. CASE Rearm
  BY <1>57, GotoMoves DEF Rearm, Tasks, PcsOf, OpsOf, WorkerPcs, WorkerOps, WorkerGoto
<1>58. CASE \E s \in Slots : LoseLink(s)
  BY <1>58 DEF LoseLink, taskVars, TaskTypeOK
<1>59. CASE UNCHANGED vars
  BY <1>59 DEF vars, taskVars, TaskTypeOK
<1> QED
  BY <1>1, <1>2, <1>3, <1>4, <1>5, <1>6, <1>7, <1>8, <1>9, <1>10, <1>11, <1>12, <1>13, <1>14, <1>15, <1>16, <1>17, <1>18, <1>19, <1>20, <1>21, <1>22, <1>23, <1>24, <1>25, <1>26, <1>27, <1>28, <1>29, <1>30, <1>31, <1>32, <1>33, <1>34, <1>35, <1>36, <1>37, <1>38, <1>39, <1>40, <1>41, <1>42, <1>43, <1>44, <1>45, <1>46, <1>47, <1>48, <1>49, <1>50, <1>51, <1>52, <1>53, <1>54, <1>55, <1>56, <1>57, <1>58, <1>59
  DEF Next, UartStep, LoopStep, WorkerStep, dispatchHostCommand, Tasks

LEMMA NoRequestType == NoRequest \in ConnectRequest
BY ZeroIsSlot DEF NoRequest, ConnectRequest, Origins

LEMMA SharedTypeStep ==
  ASSUME TypeOK, NameInv, [Next]_vars
  PROVE  SharedTypeOK'
<1> USE DEF TypeOK, SharedTypeOK, otherVars, requestVars, storeVars, autoVars,
        listVars, scheduleVars, inputVars, notRequests, notStore, notAuto,
        notSchedule, notInput, Here
<1>1. CASE UNCHANGED otherVars
  BY <1>1
<1>2. ASSUME NEW t \in {"uart", "loop"}, Send(t) PROVE SharedTypeOK'
  <2>1. Request(t) \in ConnectRequest
    BY DEF Request, ConnectRequest, Origin, Origins, ByUser, TaskTypeOK, Tasks
  <2>2. queue' \in Seq(ConnectRequest) /\ Len(queue') <= MaxSlots
    BY <1>2, <2>1, SlotsAssumption DEF Send, Enqueued, HasRoom
  <2>3. overflowed' \in BOOLEAN
    BY <1>2 DEF Send, HasRoom
  <2>4. inFlight' \in [Slots -> BOOLEAN]
    BY <1>2 DEF Send, TaskTypeOK
  <2> QED  BY <1>2, <2>2, <2>3, <2>4 DEF Send
<1>3. ASSUME NEW t \in Tasks, TakeSnapshot(t) PROVE SharedTypeOK'
  <2>1. [s \in Slots |-> Listed(s)] \in Views
    BY DEF Listed, Views, AdapterTypeOK, ConnStates
  <2>2. snapshot' \in [Tasks -> Views] /\ devListMutex' \in Tasks \cup {Free}
    BY <1>3, <2>1 DEF TakeSnapshot, takeDevListMutex
  <2> QED  BY <1>3, <2>2 DEF TakeSnapshot
<1>4. ASSUME NEW t \in Tasks, Push(t) PROVE SharedTypeOK'
  <2>1. NoView \in Views
    BY DEF NoView, Views, ConnStates
  <2>2. /\ snapshot' \in [Tasks -> Views] /\ hostView' \in Views
        /\ devListMutex' = Free
    BY <1>4, <2>1 DEF Push
  <2>3. req' \in ConnectRequest
    BY <1>4, NoRequestType DEF Push, AfterPush, WorkerRest
  <2> QED  BY <1>4, <2>2, <2>3 DEF Push
<1>5. CASE cmdConnect \/ cmdDisconnect \/ cmdForget \/ cmdCancelConnect \/ cmdDevList
  BY <1>5, BoundsAssumption
     DEF cmdConnect, cmdDisconnect, cmdForget, cmdCancelConnect, cmdDevList, Command
<1>6. CASE cmdSetPeriod
  BY <1>6, BoundsAssumption DEF cmdSetPeriod
<1>7. CASE ForgetKey
  BY <1>7 DEF ForgetKey, Names
<1>8. CASE ForgetFlag
  BY <1>8 DEF ForgetFlag
<1>9. CASE AutoStart
  BY <1>9 DEF AutoStart
<1>10. CASE SchedNotArmed \/ SchedInFlight \/ SchedWait \/ SchedGiveUp \/ SchedDue
  <2>1. SchedulePass
    BY <1>10 DEF SchedNotArmed, SchedInFlight, SchedWait, SchedGiveUp, SchedDue,
       SchedResting
  <2>2. inFlight' \in [Slots -> BOOLEAN]
    <3>1. CASE SchedInFlight
      BY <3>1 DEF SchedInFlight, setInFlight, isSlotOccupied
    <3>2. CASE SchedNotArmed \/ SchedWait \/ SchedGiveUp \/ SchedDue
      <4>1. CASE SchedNotArmed
        BY <4>1 DEF SchedNotArmed, setInFlight
      <4>2. CASE SchedResting
        BY <4>2 DEF SchedResting, setInFlight
      <4> QED  BY <3>2, <4>1, <4>2 DEF SchedWait, SchedGiveUp, SchedDue
    <3> QED  BY <1>10, <3>1, <3>2
  <2> QED
    BY <2>1, <2>2 DEF SchedulePass, AdapterTypeOK, TaskTypeOK, Tasks, LoopSlot
<1>11. CASE GiveUp
  BY <1>11 DEF GiveUp, LoopSlot, ReconnectStates
<1>12. CASE ButtonQuiet
  BY <1>12 DEF ButtonQuiet
<1>13. CASE ButtonPress \/ ButtonLongPress
  BY <1>13, BoundsAssumption DEF ButtonPress, ButtonLongPress
<1>14. CASE Receive
  <2>1. /\ Head(queue) \in ConnectRequest
        /\ Tail(queue) \in Seq(ConnectRequest)
        /\ Len(Tail(queue)) <= MaxSlots
    BY <1>14, SlotsAssumption DEF Receive
  <2> QED  BY <1>14, <2>1 DEF Receive
<1>15. CASE Acquire \/ Drop \/ Quiet
  BY <1>15, NoRequestType DEF Acquire, Drop, Quiet, WorkerRest
<1>16. CASE SaveKey \/ SaveFlag
  BY <1>16 DEF SaveKey, SaveFlag, Here, NameInv, WorkerSlot, Names
<1>17. ASSUME NEW s \in Slots, LoseLink(s) PROVE SharedTypeOK'
  BY <1>17, BoundsAssumption DEF LoseLink
<1>18. ASSUME NEW t \in Tasks,
              Adopt(t) \/ ClaimWon(t) \/ ClaimLost(t) \/ Lock(t) \/ Close(t) \/ SetIdle(t)
       PROVE  UNCHANGED otherVars
  BY <1>18 DEF Adopt, ClaimWon, ClaimLost, Lock, Close, SetIdle
<1>19. CASE ForgetDisarm \/ CancelRearm \/ NoAutoStart \/ AutoSlot \/ ReleaseRead
            \/ ReleaseLock \/ ReleaseIdle \/ ReleaseArm \/ BusyScan \/ HoldSlot
            \/ HoldDisarm
  BY <1>1, <1>19 DEF ForgetDisarm, CancelRearm, NoAutoStart, AutoSlot, ReleaseRead,
     ReleaseLock, ReleaseIdle, ReleaseArm, BusyScan, HoldSlot, HoldDisarm
<1>20. CASE CheckBackground \/ Announce \/ Connect \/ OpenFails \/ LinkUp \/ Handshake
            \/ Finish \/ ReadyOff \/ DisarmOthers \/ Fail \/ ArmLock \/ ArmSet
            \/ FailIdle \/ Rearm
  BY <1>1, <1>20 DEF CheckBackground, Announce, Connect, OpenFails, LinkUp, Handshake,
     Finish, ReadyOff, DisarmOthers, Fail, ArmLock, ArmSet, FailIdle, Rearm
<1>21. CASE UNCHANGED vars
  BY <1>21 DEF vars
<1> QED
  BY <1>1, <1>2, <1>3, <1>4, <1>5, <1>6, <1>7, <1>8, <1>9, <1>10, <1>11, <1>12, <1>13, <1>14,
     <1>15, <1>16, <1>17, <1>18, <1>19, <1>20, <1>21
  DEF Next, UartStep, LoopStep, WorkerStep, dispatchHostCommand, Tasks

-----------------------------------------------------------------------------
(* The lock discipline.  A step of task t outside a critical section, inside   *)
(* it, into it and out of it.                                                  *)

OthersStay(t) ==
    \A u \in Tasks \ {t} : pc'[u] = pc[u] /\ at'[u] = at[u]

LEMMA StaysOut ==
  ASSUME LockInv, NEW t \in Tasks, OthersStay(t),
         pc[t] \notin HoldPcs, pc'[t] \notin HoldPcs, lifecycle' = lifecycle
  PROVE  LockInv'
BY DEF LockInv, OthersStay

LEMMA StaysIn ==
  ASSUME LockInv, NEW t \in Tasks, OthersStay(t), at'[t] = at[t],
         pc[t] \in HoldPcs, pc'[t] \in HoldPcs, lifecycle' = lifecycle
  PROVE  LockInv'
BY DEF LockInv, OthersStay

LEMMA GoesIn ==
  ASSUME TypeOK, LockInv, NEW t \in Tasks, OthersStay(t), at'[t] = at[t],
         pc[t] \notin HoldPcs, pc'[t] \in HoldPcs, lockLifecycle(at[t], t)
  PROVE  LockInv'
BY FreeAssumption
   DEF LockInv, OthersStay, TypeOK, AdapterTypeOK, TaskTypeOK, lockLifecycle, Tasks

LEMMA GoesOut ==
  ASSUME TypeOK, LockInv, NEW t \in Tasks, OthersStay(t),
         pc[t] \in HoldPcs, pc'[t] \notin HoldPcs, unlockLifecycle(at[t])
  PROVE  LockInv'
BY FreeAssumption
   DEF LockInv, OthersStay, TypeOK, AdapterTypeOK, TaskTypeOK, unlockLifecycle, Tasks

\* The moves that end an operation leave every critical section.
LEMMA ContinueLeaves ==
  ASSUME TaskTypeOK, NEW b \in BOOLEAN, ContinueWith(b)
  PROVE  OthersStay("loop") /\ pc'["loop"] \notin HoldPcs
BY ContinueMoves DEF Moved, OthersStay, LoopStops, HoldPcs

LEMMA RestLeaves ==
  ASSUME TaskTypeOK
  PROVE  /\ UartRest => OthersStay("uart") /\ pc'["uart"] \notin HoldPcs
         /\ LoopRest => OthersStay("loop") /\ pc'["loop"] \notin HoldPcs
         /\ WorkerRest => OthersStay("worker") /\ pc'["worker"] \notin HoldPcs
BY DEF UartRest, LoopRest, WorkerRest, Begin, TaskTypeOK, OthersStay, HoldPcs, Tasks

LEMMA ReturnLeaves ==
  ASSUME TaskTypeOK, NEW t \in {"uart", "loop"}, NEW b \in BOOLEAN, Return(t, b)
  PROVE  OthersStay(t) /\ pc'[t] \notin HoldPcs
BY RestLeaves, ContinueLeaves DEF Return

LEMMA LockStep ==
  ASSUME TypeOK, LockInv, [Next]_vars
  PROVE  LockInv'
<1> USE DEF TypeOK, TaskTypeOK, Here, Goto, GotoWith, Begin, OthersStay, HoldPcs, Tasks
<1>1. ASSUME NEW t \in {"uart", "loop"}, Adopt(t) \/ ClaimWon(t) PROVE
       LockInv'
  BY <1>1, StaysOut DEF Adopt, ClaimWon, notReconnect, notConnState
<1>2. ASSUME NEW t \in {"uart", "loop"}, ClaimLost(t) \/ Send(t) PROVE
       LockInv'
  BY <1>2, ReturnLeaves, StaysOut, ZenonT(60) DEF ClaimLost, Send, adapterVars
<1>3. ASSUME NEW t \in Tasks, Lock(t) PROVE LockInv'
  BY <1>3, GoesIn DEF Lock
<1>4. ASSUME NEW t \in Tasks, Close(t) PROVE LockInv'
  BY <1>4, StaysIn DEF Close, notSession
<1>5. ASSUME NEW t \in Tasks, SetIdle(t) PROVE LockInv'
  <2>1. CASE op[t] = "hold"
    <3>1. t = "loop"
      BY <2>1 DEF UartOps, WorkerOps
    <3>2. OthersStay("loop") /\ pc'["loop"] \notin HoldPcs
      BY <1>5, <2>1, ContinueLeaves, FlagType DEF SetIdle, Continue
    <3> QED  BY <1>5, <3>1, <3>2, GoesOut DEF SetIdle
  <2>2. CASE op[t] # "hold"
    BY <1>5, <2>2, GoesOut DEF SetIdle
  <2> QED  BY <2>1, <2>2
<1>6. ASSUME NEW t \in Tasks, TakeSnapshot(t) PROVE LockInv'
  BY <1>6, StaysOut DEF TakeSnapshot, adapterVars
<1>7. ASSUME NEW t \in Tasks, Push(t) PROVE LockInv'
  BY <1>7, RestLeaves, ContinueLeaves, StaysOut DEF Push, AfterPush,
     adapterVars
<1>8. CASE cmdConnect \/ cmdDisconnect \/ cmdForget \/ cmdDevList
  BY <1>8, StaysOut DEF cmdConnect, cmdDisconnect, cmdForget, cmdDevList,
     Command, adapterVars
<1>9. CASE cmdCancelConnect \/ cmdSetPeriod
  BY <1>9, StaysOut DEF cmdCancelConnect, cmdSetPeriod, Command, taskVars,
     adapterVars, notConnState, LockInv
<1>10. CASE ForgetDisarm \/ ForgetKey \/ ForgetFlag \/ CancelRearm
  BY <1>10, StaysOut DEF ForgetDisarm, ForgetKey, ForgetFlag, CancelRearm,
     adapterVars, notReconnect
<1>11. CASE AutoStart \/ NoAutoStart \/ AutoSlot \/ ReleaseRead \/ BusyScan
  BY <1>11, ContinueLeaves, FlagType, StaysOut DEF AutoStart, NoAutoStart,
     AutoSlot, ReleaseRead, BusyScan, Continue, adapterVars
<1>12. CASE ReleaseLock
  BY <1>12, ContinueLeaves, GoesIn, StaysOut DEF ReleaseLock, LoopSlot
<1>13. CASE ReleaseIdle
  BY <1>13, StaysIn, GoesOut DEF ReleaseIdle, LoopSlot
<1>14. CASE ReleaseArm
  BY <1>14, GoesOut DEF ReleaseArm, LoopSlot
<1>15. CASE SchedNotArmed \/ SchedInFlight \/ SchedWait \/ SchedGiveUp \/
       SchedDue
  BY <1>15, ContinueLeaves, FlagType, StaysOut DEF SchedNotArmed,
     SchedInFlight, SchedWait, SchedGiveUp, SchedDue, SchedResting,
     SchedulePass, Continue, adapterVars
<1>16. CASE GiveUp \/ HoldDisarm
  BY <1>16, ContinueLeaves, FlagType, StaysOut DEF GiveUp, HoldDisarm,
     Continue, notReconnect
<1>17. CASE ButtonQuiet \/ ButtonPress \/ ButtonLongPress \/ HoldSlot
  BY <1>17, RestLeaves, StaysOut DEF ButtonQuiet, ButtonPress,
     ButtonLongPress, HoldSlot, adapterVars
<1>18. CASE Receive \/ CheckBackground \/ Announce \/ Fail \/ Quiet
  BY <1>18, RestLeaves, StaysOut DEF Receive, CheckBackground, Announce,
     Fail, Quiet, WorkerGoto, adapterVars
<1>19. CASE Acquire \/ Drop \/ FailIdle \/ Rearm
  BY <1>19, RestLeaves, StaysOut DEF Acquire, Drop, FailIdle, Rearm,
     WorkerGoto, notConnState, notReconnect
<1>20. CASE Connect \/ OpenFails \/ LinkUp \/ Handshake
  BY <1>20, StaysOut DEF Connect, OpenFails, LinkUp, Handshake,
     WorkerGoto, notSession
<1>21. CASE Finish
  BY <1>21, GoesIn, StaysOut DEF Finish, WorkerSlot, WorkerGoto
<1>22. CASE ReadyOff \/ SaveKey \/ SaveFlag \/ DisarmOthers
  BY <1>22, StaysIn, GoesOut DEF ReadyOff, SaveKey, SaveFlag, DisarmOthers, WorkerSlot,
     WorkerGoto, adapterVars
<1>23. CASE ArmLock
  BY <1>23, GoesIn, StaysOut DEF ArmLock, WorkerSlot, WorkerGoto
<1>24. CASE ArmSet
  BY <1>24, GoesOut DEF ArmSet, WorkerSlot, WorkerGoto
<1>25. CASE (\E s \in Slots : LoseLink(s)) \/ UNCHANGED vars
  BY <1>25, StaysOut DEF LoseLink, vars, taskVars, adapterVars, LockInv
<1> HIDE DEF TypeOK, TaskTypeOK, Here, Goto, GotoWith, Begin, OthersStay, HoldPcs
<1> QED
  BY <1>1, <1>2, <1>3, <1>4, <1>5, <1>6, <1>7, <1>8, <1>9, <1>10, <1>11,
     <1>12, <1>13, <1>14, <1>15, <1>16, <1>17, <1>18, <1>19, <1>20, <1>21,
     <1>22, <1>23, <1>24, <1>25
  DEF Next, UartStep, LoopStep, WorkerStep, dispatchHostCommand

-----------------------------------------------------------------------------
(* The name that is saved. *)

\* While the worker saves a name, no step of another task moves the worker or
\* changes the name.
LEMMA OthersKeepName ==
  ASSUME TypeOK, LockInv, pc["worker"] \in {"saveKey", "saveFlag", "disarmOthers"},
         pc'["worker"] = pc["worker"], at'["worker"] = at["worker"],
         NEW t \in Tasks, Close(t) \/ sensor' = sensor
  PROVE  sensor'[at["worker"]] = sensor[at["worker"]]
BY DEF TypeOK, AdapterTypeOK, TaskTypeOK, LockInv, Close, closeSession, endSession,
   Here, HoldPcs, Goto, Tasks

\* The steps of the other two tasks and of the environment.
OtherStep ==
    \/ dispatchHostCommand \/ UartStep \/ LoopStep \/ \E s \in Slots : LoseLink(s)

WorkerKept ==
    /\ pc'["worker"] = pc["worker"] /\ op'["worker"] = op["worker"]
    /\ at'["worker"] = at["worker"] /\ req' = req

LEMMA ReturnKeepsWorker ==
  ASSUME TaskTypeOK, NEW t \in {"uart", "loop"}, NEW b \in BOOLEAN,
         Return(t, b) \/ ContinueWith(b) \/ UartRest \/ LoopRest
  PROVE  /\ pc'["worker"] = pc["worker"] /\ op'["worker"] = op["worker"]
         /\ at'["worker"] = at["worker"]
<1>1. CASE ContinueWith(b)
  BY <1>1, ContinueMoves DEF Moved, Tasks
<1>2. CASE UartRest \/ LoopRest
  BY <1>2 DEF UartRest, LoopRest, Begin, TaskTypeOK, Tasks
<1> QED  BY <1>1, <1>2 DEF Return

LEMMA WorkerStays ==
  ASSUME TypeOK, OtherStep
  PROVE  WorkerKept
<1> USE DEF WorkerKept, Goto, GotoWith, Begin, TypeOK, TaskTypeOK, Tasks, otherVars, requestVars
<1>1. ASSUME NEW t \in {"uart", "loop"},
             Adopt(t) \/ ClaimWon(t) \/ Lock(t) \/ Close(t) \/ TakeSnapshot(t)
      PROVE  WorkerKept
  BY <1>1 DEF Adopt, ClaimWon, Lock, Close, TakeSnapshot
<1>2. ASSUME NEW t \in {"uart", "loop"}, ClaimLost(t) \/ Send(t)
      PROVE  WorkerKept
  BY <1>2, ReturnKeepsWorker DEF ClaimLost, Send
<1>3. ASSUME NEW t \in {"uart", "loop"}, SetIdle(t) PROVE WorkerKept
  BY <1>3, ReturnKeepsWorker, FlagType DEF SetIdle, Continue
<1>4. ASSUME NEW t \in {"uart", "loop"}, Push(t) PROVE WorkerKept
  BY <1>4, ReturnKeepsWorker DEF Push, AfterPush
<1>5. CASE dispatchHostCommand
  BY <1>5 DEF dispatchHostCommand, cmdConnect, cmdDisconnect, cmdForget, cmdDevList,
     cmdCancelConnect, cmdSetPeriod, Command, notInput, taskVars
<1>6. CASE ForgetDisarm \/ ForgetKey \/ ForgetFlag \/ CancelRearm
  BY <1>6 DEF ForgetDisarm, ForgetKey, ForgetFlag, CancelRearm, notStore
<1>7. CASE AutoStart \/ NoAutoStart \/ AutoSlot \/ BusyScan
  BY <1>7, ReturnKeepsWorker, FlagType
     DEF AutoStart, NoAutoStart, AutoSlot, BusyScan, Continue, notAuto
<1>8. CASE ReleaseRead \/ ReleaseLock \/ ReleaseIdle \/ ReleaseArm
  BY <1>8, ReturnKeepsWorker DEF ReleaseRead, ReleaseLock, ReleaseIdle, ReleaseArm
<1>9. CASE SchedNotArmed \/ SchedInFlight \/ SchedWait \/ SchedGiveUp \/ SchedDue
  BY <1>9, ReturnKeepsWorker, FlagType
     DEF SchedNotArmed, SchedInFlight, SchedWait, SchedGiveUp, SchedDue, SchedResting,
     SchedulePass, Continue, notSchedule
<1>10. CASE GiveUp \/ HoldDisarm
  BY <1>10, ReturnKeepsWorker, FlagType DEF GiveUp, HoldDisarm, Continue, notSchedule
<1>11. CASE ButtonQuiet \/ ButtonPress \/ ButtonLongPress \/ HoldSlot
  BY <1>11, ReturnKeepsWorker
     DEF ButtonQuiet, ButtonPress, ButtonLongPress, HoldSlot, notInput
<1>12. CASE \E s \in Slots : LoseLink(s)
  BY <1>12 DEF LoseLink, taskVars, notInput
<1> HIDE DEF WorkerKept, Goto, GotoWith, Begin, TypeOK, TaskTypeOK, otherVars, requestVars
<1> QED
  BY <1>1, <1>2, <1>3, <1>4, <1>5, <1>6, <1>7, <1>8, <1>9, <1>10, <1>11, <1>12
  DEF OtherStep, UartStep, LoopStep

LEMMA SensorKept ==
  ASSUME OtherStep
  PROVE  sensor' = sensor \/ \E t \in Tasks : Close(t)
<1> USE DEF adapterVars, notConnState, notReconnect
<1>1. CASE dispatchHostCommand
  BY <1>1 DEF dispatchHostCommand, cmdConnect, cmdDisconnect, cmdForget, cmdDevList,
     cmdCancelConnect, cmdSetPeriod
<1>2. ASSUME NEW t \in {"uart", "loop"},
             Adopt(t) \/ ClaimWon(t) \/ ClaimLost(t) \/ Send(t) \/ Lock(t)
             \/ SetIdle(t) \/ TakeSnapshot(t) \/ Push(t)
      PROVE  sensor' = sensor
  BY <1>2 DEF Adopt, ClaimWon, ClaimLost, Send, Lock, SetIdle, TakeSnapshot, Push
<1>3. CASE ForgetDisarm \/ ForgetKey \/ ForgetFlag \/ CancelRearm
  BY <1>3 DEF ForgetDisarm, ForgetKey, ForgetFlag, CancelRearm
<1>4. CASE LoopStep
  BY <1>2, <1>4 DEF LoopStep, AutoStart, NoAutoStart, AutoSlot, ReleaseRead, ReleaseLock, ReleaseIdle, ReleaseArm,
     BusyScan, SchedNotArmed, SchedInFlight, SchedWait, SchedGiveUp, SchedDue, SchedResting,
     SchedulePass, GiveUp, HoldDisarm, ButtonQuiet, ButtonPress, ButtonLongPress, HoldSlot, Tasks
<1>5. CASE \E s \in Slots : LoseLink(s)
  BY <1>5 DEF LoseLink
<1> QED  BY <1>1, <1>2, <1>3, <1>4, <1>5 DEF OtherStep, UartStep, Tasks

LEMMA NameStep ==
  ASSUME TypeOK, LockInv, NameInv, [Next]_vars
  PROVE  NameInv'
<1> USE DEF NameInv
<1>1. CASE WorkerStep
  <2>1. CASE ReadyOff
    BY <2>1 DEF ReadyOff, NameIsEmpty, WorkerSlot, WorkerGoto, Goto, TypeOK,
       TaskTypeOK, AdapterTypeOK, Tasks
  <2>2. CASE SaveKey \/ SaveFlag
    BY <2>2 DEF SaveKey, SaveFlag, adapterVars, Here, WorkerSlot, WorkerGoto, Goto, TypeOK, TaskTypeOK
  <2>3. CASE ~ReadyOff /\ ~SaveKey /\ ~SaveFlag
    <3>1. pc'["worker"] \notin {"saveKey", "saveFlag", "disarmOthers"}
      <4> USE DEF Goto, Begin, WorkerRest, WorkerGoto, TypeOK, TaskTypeOK, Tasks
      <4>1. CASE Receive \/ Acquire \/ CheckBackground \/ Drop \/ Announce
        BY <4>1 DEF Receive, Acquire, CheckBackground, Drop, Announce
      <4>2. CASE Connect \/ OpenFails \/ LinkUp \/ Handshake \/ Finish \/ DisarmOthers
        BY <4>2 DEF Connect, OpenFails, LinkUp, Handshake, Finish, DisarmOthers
      <4>3. CASE Fail \/ ArmLock \/ ArmSet \/ FailIdle \/ Rearm \/ Quiet
        BY <4>3 DEF Fail, ArmLock, ArmSet, FailIdle, Rearm, Quiet
      <4>4. CASE Lock("worker") \/ Close("worker") \/ TakeSnapshot("worker")
        BY <4>4 DEF Lock, Close, TakeSnapshot
      <4>5. CASE SetIdle("worker")
        BY <4>5 DEF SetIdle, WorkerOps
      <4>6. CASE Push("worker")
        BY <4>6 DEF Push, AfterPush
      <4> QED
        BY <1>1, <2>3, <4>1, <4>2, <4>3, <4>4, <4>5, <4>6 DEF WorkerStep
    <3> QED  BY <3>1
  <2> QED  BY <2>1, <2>2, <2>3
<1>2. CASE UNCHANGED vars
  BY <1>2 DEF vars, adapterVars, taskVars<1>3. CASE OtherStep
  <2>1. pc'["worker"] = pc["worker"] /\ at'["worker"] = at["worker"]
    BY <1>3, WorkerStays DEF WorkerKept
  <2> QED  BY <1>3, <2>1, SensorKept, OthersKeepName, TypeOK DEF Tasks
<1> QED  BY <1>1, <1>2, <1>3 DEF Next, OtherStep

LEMMA BaseInit == Init => BaseInv
<1> SUFFICES ASSUME Init PROVE BaseInv
  OBVIOUS
<1>1. nvs \in [Slots -> Names]
  BY SavedNamesAssumption DEF Init
<1>2. AdapterTypeOK
  BY <1>1 DEF Init, AdapterInit, AdapterTypeOK, ConnStates, ReconnectStates, LinkStates
<1>3. TaskTypeOK
  BY ZeroIsSlot DEF Init, TaskTypeOK, Tasks, UartPcs, LoopPcs, WorkerPcs, UartOps, LoopOps,
     WorkerOps
<1>4. SharedTypeOK
  <2>1. queue \in Seq(ConnectRequest) /\ Len(queue) <= MaxSlots
    BY SlotsAssumption DEF Init
  <2>2. NoView \in Views
    BY DEF NoView, Views, ConnStates
  <2>3. /\ cmds \in 0 .. MaxCmds /\ presses \in 0 .. MaxPresses
        /\ losses \in 0 .. MaxLosses
    BY BoundsAssumption DEF Init
  <2> QED
    BY <1>1, <2>1, <2>2, <2>3, NoRequestType DEF Init, SharedTypeOK, ReconnectStates
<1>5. LockInv /\ NameInv
  BY FreeAssumption DEF Init, AdapterInit, LockInv, NameInv, HoldPcs, Tasks
<1> QED  BY <1>2, <1>3, <1>4, <1>5 DEF BaseInv, TypeOK

LEMMA BaseStep == BaseInv /\ [Next]_vars => BaseInv'
BY AdapterTypeStep, TaskTypeStep, SharedTypeStep, LockStep, NameStep
   DEF BaseInv, TypeOK

\* Every variable keeps its type, whatever the number of slots, the sensors and
\* the bounds (the declarations of VernierAdapter and control-loop.cpp).
THEOREM TypeCorrect == Spec => []TypeOK
<1>1. BaseInv => TypeOK
  BY DEF BaseInv
<1> QED  BY <1>1, BaseInit, BaseStep, PTL DEF Spec

\* A task that is inside a teardown or that publishes a connect holds the
\* slot's lifecycle mutex, and only one task is (LifecycleLock).
THEOREM LockDiscipline == Spec => []LockInv
<1>1. BaseInv => LockInv
  BY DEF BaseInv
<1> QED  BY <1>1, BaseInit, BaseStep, PTL DEF Spec

=============================================================================

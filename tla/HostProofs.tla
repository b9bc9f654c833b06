----------------------------- MODULE HostProofs -----------------------------
(***************************************************************************)
(* What the host of ControlLoop can rely on, for every number of slots,    *)
(* every set of sensors and every bound: a request is not stranded, and    *)
(* the slot table it was sent shows what is connected.                     *)
(***************************************************************************)
EXTENDS ControlLoopProofs, SequenceTheorems

-----------------------------------------------------------------------------
(* RequestNotStranded. *)

\* A slot becomes REQUESTED only by a claim.
LEMMA OnlyClaimRequests ==
  ASSUME TypeOK, Next, NEW s \in Slots, connState[s] # "REQUESTED",
         connState'[s] = "REQUESTED"
  PROVE  \E t \in {"uart", "loop"} : ClaimWon(t) /\ at[t] = s
<1> USE DEF TypeOK, AdapterTypeOK, TaskTypeOK, Tasks, setState, adapterVars, notConnState,
        notReconnect, notSession
<1>1. ASSUME NEW t \in Tasks
      PROVE  ~(Adopt(t) \/ ClaimLost(t) \/ Send(t) \/ Lock(t) \/ Close(t) \/ SetIdle(t)
               \/ TakeSnapshot(t) \/ Push(t))
  BY DEF Adopt, ClaimLost, Send, Lock, Close, SetIdle, TakeSnapshot, Push
<1>2. ~dispatchHostCommand
  BY DEF dispatchHostCommand, cmdConnect, cmdDisconnect, cmdForget, cmdDevList,
     cmdCancelConnect, cmdSetPeriod, tryCancelConnect
<1>3. ~(ForgetDisarm \/ ForgetKey \/ ForgetFlag \/ CancelRearm)
  BY DEF ForgetDisarm, ForgetKey, ForgetFlag, CancelRearm
<1>4. ~(AutoStart \/ NoAutoStart \/ AutoSlot \/ ReleaseRead \/ ReleaseLock
        \/ ReleaseIdle \/ ReleaseArm \/ BusyScan)
  BY DEF AutoStart, NoAutoStart, AutoSlot, ReleaseRead, ReleaseLock, ReleaseIdle,
     ReleaseArm, BusyScan, LoopSlot
<1>5. ~(SchedNotArmed \/ SchedInFlight \/ SchedWait \/ SchedGiveUp \/ SchedDue
        \/ GiveUp)
  BY DEF SchedNotArmed, SchedInFlight, SchedWait, SchedGiveUp, SchedDue, SchedResting,
     SchedulePass, GiveUp
<1>6. ~(ButtonQuiet \/ ButtonPress \/ ButtonLongPress \/ HoldSlot \/ HoldDisarm)
  BY DEF ButtonQuiet, ButtonPress, ButtonLongPress, HoldSlot, HoldDisarm
<1>7. ~\E r \in Slots : LoseLink(r)
  BY DEF LoseLink
<1>8. ~(Receive \/ Acquire \/ CheckBackground \/ Drop \/ Announce)
  BY DEF Receive, Acquire, CheckBackground, Drop, Announce, WorkerSlot, tryAcquireConnecting
<1>9. ~(Connect \/ OpenFails \/ LinkUp \/ Handshake)
  BY DEF Connect, OpenFails, LinkUp, Handshake
<1>10. ~(Finish \/ ReadyOff \/ SaveKey \/ SaveFlag \/ DisarmOthers)
  BY DEF Finish, ReadyOff, SaveKey, SaveFlag, DisarmOthers, WorkerSlot
<1>11. ~(Fail \/ ArmLock \/ ArmSet \/ FailIdle \/ Rearm \/ Quiet)
  BY DEF Fail, ArmLock, ArmSet, FailIdle, Rearm, Quiet, WorkerSlot
<1>12. ASSUME NEW t \in {"uart", "loop"}, ClaimWon(t)
       PROVE  at[t] = s
  BY <1>12 DEF ClaimWon, tryRequestConnect
<1> HIDE DEF TypeOK, AdapterTypeOK, TaskTypeOK, setState, adapterVars, notConnState,
        notReconnect, notSession
<1> QED
  BY <1>1, <1>2, <1>3, <1>4, <1>5, <1>6, <1>7, <1>8, <1>9, <1>10, <1>11, <1>12
  DEF Next, UartStep, LoopStep, WorkerStep, Tasks

\* A task that is about to queue a request does nothing else.
LEMMA SendStays ==
  ASSUME TypeOK, Next, NEW t \in {"uart", "loop"}, pc[t] = "send"
  PROVE  Send(t) \/ (pc'[t] = "send" /\ at'[t] = at[t])
<1>1. CASE t = "uart"
  <2>1. ASSUME dispatchHostCommand \/ UartStep PROVE Send("uart")
    BY <1>1, <2>1
    DEF Here, dispatchHostCommand, cmdConnect, cmdDisconnect, cmdForget, cmdDevList,
        cmdCancelConnect, cmdSetPeriod, Command, UartStep, Adopt, ClaimWon, ClaimLost, Lock,
        Close, SetIdle, ForgetDisarm, ForgetKey, ForgetFlag, CancelRearm, TakeSnapshot, Push
  <2>2. CASE NotUartStep
    BY <1>1, <2>2, UartStays DEF UartKept
  <2> QED  BY <1>1, <2>1, <2>2 DEF Next, NotUartStep
<1>2. CASE t = "loop"
  <2>1. ASSUME LoopStep PROVE Send("loop")
    BY <1>2, <2>1
    DEF Here, LoopStep, Adopt, ClaimWon, ClaimLost, Lock, Close, SetIdle, TakeSnapshot, Push,
        AutoStart, NoAutoStart, AutoSlot, ReleaseRead, ReleaseLock, ReleaseIdle, ReleaseArm,
        BusyScan, SchedNotArmed, SchedInFlight, SchedWait, SchedGiveUp, SchedDue,
        SchedResting, SchedulePass, GiveUp, ButtonQuiet, ButtonPress, ButtonLongPress,
        HoldSlot, HoldDisarm
  <2>2. CASE NotLoopStep
    BY <1>2, <2>2, LoopStays DEF LoopKept
  <2> QED  BY <1>2, <2>1, <2>2 DEF Next, NotLoopStep
<1> QED  BY <1>1, <1>2

\* What a step does to the queue.
LEMMA QueueSteps ==
  ASSUME Next
  PROVE  \/ UNCHANGED <<queue, overflowed>>
         \/ \E t \in {"uart", "loop"} : Send(t)
         \/ Receive
<1> USE DEF adapterVars, otherVars, requestVars, notRequests, notStore, notAuto, notSchedule,
        notInput
<1>1. ASSUME NEW t \in Tasks,
             Adopt(t) \/ ClaimWon(t) \/ ClaimLost(t) \/ Lock(t) \/ Close(t) \/ SetIdle(t)
             \/ TakeSnapshot(t) \/ Push(t)
      PROVE  UNCHANGED <<queue, overflowed>>
  BY <1>1 DEF Adopt, ClaimWon, ClaimLost, Lock, Close, SetIdle, TakeSnapshot, Push
<1>2. CASE dispatchHostCommand
  BY <1>2 DEF dispatchHostCommand, cmdConnect, cmdDisconnect, cmdForget, cmdDevList,
     cmdCancelConnect, cmdSetPeriod, Command
<1>3. CASE ForgetDisarm \/ ForgetKey \/ ForgetFlag \/ CancelRearm
  BY <1>3 DEF ForgetDisarm, ForgetKey, ForgetFlag, CancelRearm
<1>4. CASE AutoStart \/ NoAutoStart \/ AutoSlot \/ ReleaseRead \/ ReleaseLock
           \/ ReleaseIdle \/ ReleaseArm \/ BusyScan
  BY <1>4 DEF AutoStart, NoAutoStart, AutoSlot, ReleaseRead, ReleaseLock, ReleaseIdle,
     ReleaseArm, BusyScan
<1>5. CASE SchedNotArmed \/ SchedInFlight \/ SchedWait \/ SchedGiveUp \/ SchedDue
           \/ GiveUp
  BY <1>5 DEF SchedNotArmed, SchedInFlight, SchedWait, SchedGiveUp, SchedDue, SchedResting,
     SchedulePass, GiveUp
<1>6. CASE ButtonQuiet \/ ButtonPress \/ ButtonLongPress \/ HoldSlot \/ HoldDisarm
  BY <1>6 DEF ButtonQuiet, ButtonPress, ButtonLongPress, HoldSlot, HoldDisarm
<1>7. CASE \E r \in Slots : LoseLink(r)
  BY <1>7 DEF LoseLink
<1>8. CASE Acquire \/ CheckBackground \/ Drop \/ Announce
  BY <1>8 DEF Acquire, CheckBackground, Drop, Announce
<1>9. CASE Connect \/ OpenFails \/ LinkUp \/ Handshake
  BY <1>9 DEF Connect, OpenFails, LinkUp, Handshake
<1>10. CASE Finish \/ ReadyOff \/ SaveKey \/ SaveFlag \/ DisarmOthers
  BY <1>10 DEF Finish, ReadyOff, SaveKey, SaveFlag, DisarmOthers
<1>11. CASE Fail \/ ArmLock \/ ArmSet \/ FailIdle \/ Rearm \/ Quiet
  BY <1>11 DEF Fail, ArmLock, ArmSet, FailIdle, Rearm, Quiet
<1> HIDE DEF adapterVars, otherVars, requestVars, notRequests, notStore, notAuto,
        notSchedule, notInput
<1> QED
  BY <1>1, <1>2, <1>3, <1>4, <1>5, <1>6, <1>7, <1>8, <1>9, <1>10, <1>11
  DEF Next, UartStep, LoopStep, WorkerStep, Tasks

\* Whoever is to look at a slot's request is kept until the worker has looked.
LEMMA ClaimedStays ==
  ASSUME TypeOK, Next, NEW s \in Slots, Claimed(s), connState[s] = "REQUESTED",
         connState'[s] = "REQUESTED"
  PROVE  Claimed(s)' \/ overflowed'
<1> USE DEF Claimed
<1>1. CASE \E t \in Tasks : pc[t] = "send" /\ at[t] = s
  <2>1. PICK t \in {"uart", "loop"} : pc[t] = "send" /\ at[t] = s
    BY <1>1 DEF TypeOK, TaskTypeOK, WorkerPcs, Tasks
  <2>2. CASE pc'[t] = "send" /\ at'[t] = at[t]
    BY <2>1, <2>2 DEF Tasks
  <2>3. CASE Send(t) /\ HasRoom
    <3>1. queue \in Seq(ConnectRequest) /\ Request(t).slot = s
      BY <2>1 DEF TypeOK, SharedTypeOK, Request
    <3>2. queue' = Append(queue, Request(t))
      BY <2>3 DEF Send, Enqueued
    <3>3. Request(t) \in ConnectRequest
      BY <2>1 DEF Request, ConnectRequest, Origin, Origins, ByUser, TypeOK, TaskTypeOK, Tasks
    <3>4. Len(queue) + 1 \in DOMAIN queue' /\ queue'[Len(queue) + 1] = Request(t)
      BY <3>1, <3>2, <3>3, AppendProperties
    <3> QED  BY <3>1, <3>4
  <2>4. CASE Send(t) /\ ~HasRoom
    BY <2>4 DEF Send
  <2> QED  BY <2>1, <2>2, <2>3, <2>4, SendStays
<1>2. CASE \E k \in DOMAIN queue : queue[k].slot = s
  <2>1. PICK k \in DOMAIN queue : queue[k].slot = s
    BY <1>2
  <2>2. queue \in Seq(ConnectRequest) /\ k \in 1 .. Len(queue)
    BY <2>1 DEF TypeOK, SharedTypeOK
  <2>3. CASE queue' = queue
    BY <2>1, <2>3
  <2>4. CASE \E t \in {"uart", "loop"} : Send(t)
    <3>1. PICK t \in {"uart", "loop"} : Send(t)
      BY <2>4
    <3>2. Request(t) \in ConnectRequest
      BY <3>1 DEF Request, ConnectRequest, Origin, Origins, ByUser, TypeOK, TaskTypeOK, Tasks
    <3>3. queue' = Append(queue, Request(t)) \/ queue' = queue
      BY <3>1 DEF Send, Enqueued
    <3>4. k \in DOMAIN queue' /\ queue'[k] = queue[k]
      BY <2>2, <3>2, <3>3, AppendProperties
    <3> QED  BY <2>1, <3>4
  <2>5. CASE Receive /\ k = 1
    BY <2>1, <2>5, <2>2 DEF Receive, Begin, TypeOK, TaskTypeOK, Tasks
  <2>6. CASE Receive /\ k > 1
    <3>1. queue' = Tail(queue)
      BY <2>6 DEF Receive
    <3>2. k - 1 \in DOMAIN queue' /\ queue'[k - 1] = queue[k]
      BY <2>2, <2>6, <3>1
    <3> QED  BY <2>1, <3>2
  <2> QED  BY <2>2, <2>3, <2>4, <2>5, <2>6, QueueSteps
<1>3. CASE pc["worker"] = "acquire" /\ at["worker"] = s
  <2>1. CASE OtherStep
    BY <1>3, <2>1, WorkerStays DEF WorkerKept
  <2>2. CASE WorkerStep
    <3>1. Acquire
      BY <1>3, <2>2 DEF WorkerStep, Here, Receive, CheckBackground, Drop,
         Announce, Connect, OpenFails, LinkUp, Handshake, Finish, ReadyOff, SaveKey, SaveFlag,
         DisarmOthers, Fail, ArmLock, ArmSet, FailIdle, Rearm, Quiet, Lock, Close, SetIdle,
         TakeSnapshot, Push
    <3>2. connState'[s] = "CONNECTING"
      BY <1>3, <3>1 DEF Acquire, tryAcquireConnecting, setState, WorkerSlot, TypeOK,
         AdapterTypeOK
    <3> QED  BY <3>2
  <2> QED  BY <2>1, <2>2 DEF Next, OtherStep
<1> QED  BY <1>1, <1>2, <1>3

\* No request is stranded, whatever is cancelled, claimed again or stale in the
\* queue, unless the queue was full once: no slot stays REQUESTED for ever.
THEOREM RequestsAreClaimed == Spec => []RequestNotStranded
<1>1. Init => RequestNotStranded
  BY DEF Init, AdapterInit, RequestNotStranded
<1>2. TypeOK /\ RequestNotStranded /\ [Next]_vars => RequestNotStranded'
  <2> SUFFICES ASSUME TypeOK, RequestNotStranded, [Next]_vars, NEW s \in Slots,
                      connState'[s] = "REQUESTED"
               PROVE  Claimed(s)' \/ overflowed'
    BY DEF RequestNotStranded
  <2>1. CASE UNCHANGED vars
    BY <2>1 DEF vars, adapterVars, taskVars, otherVars, requestVars, RequestNotStranded,
       Claimed
  <2>2. CASE Next /\ connState[s] # "REQUESTED"
    <3>1. PICK t \in {"uart", "loop"} : ClaimWon(t) /\ at[t] = s
      BY <2>2, OnlyClaimRequests
    <3>2. pc'[t] = "send" /\ at'[t] = s
      BY <3>1 DEF ClaimWon, GotoWith, TypeOK, TaskTypeOK, Tasks
    <3> QED  BY <3>2 DEF Claimed, Tasks
  <2>3. CASE Next /\ overflowed
    <3>1. overflowed'
      BY <2>3, QueueSteps DEF Send, Receive
    <3> QED  BY <3>1
  <2>4. CASE Next /\ connState[s] = "REQUESTED" /\ Claimed(s)
    BY <2>4, ClaimedStays
  <2> QED  BY <2>1, <2>2, <2>3, <2>4 DEF RequestNotStranded
<1>3. BaseInv => TypeOK
  BY DEF BaseInv
<1> QED  BY <1>1, <1>2, <1>3, BaseInit, BaseStep, PTL DEF Spec

-----------------------------------------------------------------------------
(* HostSeesReady: who sends a list, and when. *)

\* The loop task is in a long press that has torn a slot down.
Holding ==
    /\ op["loop"] = "hold" /\ flag["loop"]
    /\ pc["loop"] \in {"hold", "lock", "close", "setIdle", "holdDisarm"}

\* Task t is at a place behind which a list is inevitable.
Owing(t) ==
    \/ pc[t] = "list"
    \/ t = "uart" /\ pc[t] \in {"forgetKey", "forgetFlag"}
    \/ t = "loop" /\ (pc[t] = "arm" \/ Holding)
    \/ t = "worker" /\ pc[t] \in {"readyOff", "saveKey", "saveFlag", "disarmOthers"}

\* The host's table, with the list that is being pushed, is right about slot s.
Agrees(s) ==
    IF devListMutex = Free
    THEN hostView[s] = "READY" <=> connState[s] = "READY"
    ELSE snapshot[devListMutex][s] = "READY" <=> connState[s] = "READY"

MutexInv == \A t \in Tasks : pc[t] = "push" <=> devListMutex = t

\* A long press remembers that it tore a slot down.
HoldInv ==
    /\ pc["loop"] \in {"release", "releaseLock"} => op["loop"] = "release"
    /\ pc["loop"] \in {"hold", "lock", "holdDisarm"} => op["loop"] = "hold"
    /\ pc["loop"] = "lock" => flag["loop"]
    /\ op["loop"] = "hold" /\ pc["loop"] \in {"close", "setIdle"} => flag["loop"]

ViewInv ==
    /\ MutexInv
    /\ HoldInv
    /\ \A s \in Slots : Agrees(s) \/ \E t \in Tasks : Owing(t)

\* Where the loop task goes on in a long press.
LEMMA ContinueInHold ==
  ASSUME TaskTypeOK, NEW b \in BOOLEAN, ContinueWith(b)
  PROVE  /\ pc'["loop"] \in LoopStops
         /\ pc'["loop"] \in {"hold", "release"} => op'["loop"] = pc'["loop"]
         /\ op["loop"] = "hold" /\ b
               => \/ pc'["loop"] = "list"
                  \/ pc'["loop"] = "hold" /\ op'["loop"] = "hold" /\ flag'["loop"]
<1>1. pc'["loop"] \in LoopStops
  BY ContinueMoves DEF Moved
<1>2. ASSUME pc'["loop"] \in {"hold", "release"} PROVE op'["loop"] = pc'["loop"]
  <2> USE DEF TaskTypeOK, Tasks
  <2>1. CASE op["loop"] # "press" /\ at["loop"] + 1 \in Slots
    BY <1>2, <2>1 DEF ContinueWith, Body, LoopOps
  <2>2. CASE ~(op["loop"] # "press" /\ at["loop"] + 1 \in Slots)
    <3>1. EndPass(op["loop"], b)
      BY <2>2 DEF ContinueWith
    <3>2. CASE op["loop"] \in {"boot", "auto"}
      <4>1. Begin("loop", "release", "release", 0)
        BY <3>1, <3>2 DEF EndPass
      <4> QED  BY <4>1 DEF Begin
    <3>3. CASE op["loop"] \in {"release", "sched"}
      BY <1>2, <3>1, <3>3 DEF EndPass, Begin
    <3>4. CASE op["loop"] \in {"press", "hold"}
      BY <1>2, <3>1, <3>4 DEF EndPass, LoopRest, GotoWith, Begin
    <3> QED  BY <3>2, <3>3, <3>4 DEF LoopOps
  <2> QED  BY <2>1, <2>2
<1>3. ASSUME op["loop"] = "hold", b
      PROVE  \/ pc'["loop"] = "list"
             \/ pc'["loop"] = "hold" /\ op'["loop"] = "hold" /\ flag'["loop"]
  BY <1>3 DEF ContinueWith, EndPass, Body, GotoWith, TaskTypeOK, Tasks
<1> QED  BY <1>1, <1>2, <1>3

LEMMA HoldStep ==
  ASSUME TypeOK, HoldInv, Next
  PROVE  HoldInv'
<1> USE DEF HoldInv, Goto, GotoWith, Begin, TypeOK, TaskTypeOK, Tasks, Here, LoopSlot
<1>1. ASSUME NEW b \in BOOLEAN, ContinueWith(b) PROVE HoldInv'
  BY <1>1, ContinueInHold DEF LoopStops
<1>2. ASSUME Continue PROVE HoldInv'
  BY <1>1, <1>2 DEF Continue
<1>3. ASSUME LoopRest PROVE HoldInv'
  BY <1>3 DEF LoopRest
<1>4. CASE NotLoopStep
  BY <1>4, LoopStays DEF LoopKept
<1>5. CASE Adopt("loop") \/ ClaimWon("loop") \/ ClaimLost("loop") \/ Send("loop")
  BY <1>1, <1>5 DEF Adopt, ClaimWon, ClaimLost, Send, Return
<1>6. CASE Lock("loop") \/ Close("loop")
  BY <1>6 DEF Lock, Close
<1>7. CASE SetIdle("loop")
  BY <1>2, <1>7 DEF SetIdle
<1>8. CASE TakeSnapshot("loop") \/ Push("loop")
  BY <1>1, <1>3, <1>8 DEF TakeSnapshot, Push, AfterPush
<1>9. CASE AutoStart \/ NoAutoStart \/ AutoSlot \/ BusyScan \/ ReleaseRead
  BY <1>2, <1>9 DEF AutoStart, NoAutoStart, AutoSlot, BusyScan, ReleaseRead
<1>10. CASE ReleaseIdle \/ ReleaseArm
  BY <1>10 DEF ReleaseIdle, ReleaseArm
<1>11. CASE SchedNotArmed \/ SchedInFlight \/ SchedWait \/ SchedGiveUp \/ SchedDue
            \/ GiveUp
  BY <1>2, <1>11 DEF SchedNotArmed, SchedInFlight, SchedWait, SchedGiveUp, SchedDue, GiveUp
<1>12. CASE ButtonQuiet \/ ButtonPress \/ ButtonLongPress \/ HoldSlot \/ HoldDisarm
  BY <1>2, <1>3, <1>12 DEF ButtonQuiet, ButtonPress, ButtonLongPress, HoldSlot, HoldDisarm
<1>13. CASE ReleaseLock
  BY <1>1, <1>13 DEF ReleaseLock
<1> QED
  BY <1>4, <1>5, <1>6, <1>7, <1>8, <1>9, <1>10, <1>11, <1>12, <1>13
  DEF Next, LoopStep, NotLoopStep

\* A task that owes a list goes on owing it until it takes the snapshot.
LEMMA OwingStays ==
  ASSUME TypeOK, HoldInv, Next, NEW t \in Tasks, Owing(t)
  PROVE  Owing(t)' \/ TakeSnapshot(t)
<1> USE DEF Owing
<1>1. CASE t = "uart"
  <2>1. CASE NotUartStep
    BY <1>1, <2>1, UartStays DEF UartKept
  <2>2. CASE dispatchHostCommand \/ UartStep
    <3> USE DEF Here, Goto, TypeOK, TaskTypeOK, Tasks
    <3>1. ForgetKey \/ ForgetFlag \/ TakeSnapshot("uart")
      BY <1>1, <2>2
      DEF dispatchHostCommand, cmdConnect, cmdDisconnect, cmdForget, cmdDevList,
          cmdCancelConnect, cmdSetPeriod, Command, UartStep, Adopt, ClaimWon, ClaimLost, Send,
          Lock, Close, SetIdle, ForgetDisarm, CancelRearm, Push
    <3> QED  BY <1>1, <3>1 DEF ForgetKey, ForgetFlag
  <2> QED  BY <2>1, <2>2 DEF Next, NotUartStep
<1>2. CASE t = "loop"
  <2>1. CASE NotLoopStep
    BY <1>2, <2>1, LoopStays DEF LoopKept, Holding
  <2>2. CASE LoopStep
    <3> USE DEF Here, Goto, GotoWith, TypeOK, TaskTypeOK, Tasks
    <3>1. \/ TakeSnapshot("loop") \/ ReleaseArm \/ HoldSlot \/ HoldDisarm
          \/ Lock("loop") \/ Close("loop") \/ SetIdle("loop")
      BY <1>2, <2>2
      DEF Holding, LoopStep, Adopt, ClaimWon, ClaimLost, Send, Push, AutoStart, NoAutoStart,
          AutoSlot, ReleaseRead, ReleaseLock, ReleaseIdle, BusyScan, SchedNotArmed,
          SchedInFlight, SchedWait, SchedGiveUp, SchedDue, SchedResting, SchedulePass, GiveUp,
          ButtonQuiet, ButtonPress, ButtonLongPress
    <3>2. CASE ReleaseArm
      BY <1>2, <3>2 DEF ReleaseArm
    <3>3. ASSUME Continue, op["loop"] = "hold", flag["loop"]
          PROVE  Owing("loop")'
      BY <3>3, ContinueInHold DEF Continue, Holding
    <3>4. CASE HoldSlot \/ Lock("loop") \/ Close("loop")
      BY <1>2, <3>4 DEF HoldSlot, Lock, Close, Holding
    <3>5. CASE HoldDisarm \/ SetIdle("loop")
      BY <1>2, <3>3, <3>5 DEF HoldDisarm, SetIdle, Holding
    <3> QED  BY <1>2, <3>1, <3>2, <3>4, <3>5
  <2> QED  BY <2>1, <2>2 DEF Next, NotLoopStep
<1>3. CASE t = "worker"
  <2>1. CASE OtherStep
    BY <1>3, <2>1, WorkerStays DEF WorkerKept
  <2>2. CASE WorkerStep
    <3> USE DEF Here, Goto, WorkerGoto, TypeOK, TaskTypeOK, Tasks
    <3>1. ReadyOff \/ SaveKey \/ SaveFlag \/ DisarmOthers \/ TakeSnapshot("worker")
      BY <1>3, <2>2
      DEF WorkerStep, Receive, Acquire, CheckBackground, Drop, Announce, Connect, OpenFails,
          LinkUp, Handshake, Finish, Fail, ArmLock, ArmSet, FailIdle, Rearm, Quiet, Lock,
          Close, SetIdle, Push
    <3> QED  BY <1>3, <3>1 DEF ReadyOff, SaveKey, SaveFlag, DisarmOthers
  <2> QED  BY <2>1, <2>2 DEF Next, OtherStep
<1> QED  BY <1>1, <1>2, <1>3 DEF Tasks

\* A slot that becomes READY, or is READY no more, leaves a task owing a list.
LEMMA ReadyChangeIsOwed ==
  ASSUME BaseInv, ReadyInv, HoldInv, Next, NEW s \in Slots,
         ~(connState[s] = "READY" <=> connState'[s] = "READY")
  PROVE  \E t \in Tasks : Owing(t)'
<1> USE DEF Owing, Tasks
<1>1. CASE connState'[s] = "READY"
  BY <1>1, OnlyFinishMakesReady DEF BaseInv
<1>2. CASE connState[s] = "READY"
  <2>1. ReleaseIdle \/ \E t \in Tasks : SetIdle(t)
    BY <1>2, WorkerKeepsReady, OthersKeepReady DEF BaseInv, Next, OtherStep
  <2> USE DEF Goto, BaseInv, TypeOK, TaskTypeOK
  <2>2. CASE ReleaseIdle
    BY <2>2 DEF ReleaseIdle
  <2>3. ASSUME NEW t \in {"uart", "worker"}, SetIdle(t)
        PROVE  Owing(t)'
    BY <2>3 DEF SetIdle, UartOps, WorkerOps
  <2>4. ASSUME SetIdle("loop")
        PROVE  Owing("loop")'
    <3>1. CASE op["loop"] = "hold"
      BY <2>4, <3>1, ContinueInHold DEF SetIdle, Here, HoldInv, Continue, Holding
    <3>2. CASE op["loop"] # "hold"
      BY <2>4, <3>2 DEF SetIdle, LoopOps
    <3> QED  BY <3>1, <3>2
  <2> QED  BY <2>1, <2>2, <2>3, <2>4
<1> QED  BY <1>1, <1>2

-----------------------------------------------------------------------------
(* HostSeesReady: the snapshot and the push are one critical section. *)

\* A step that moves task u alone, from and to a place without the mutex.
LEMMA AwayFromPush ==
  ASSUME MutexInv, NEW u \in Tasks, \A v \in Tasks \ {u} : pc'[v] = pc[v],
         pc[u] # "push", pc'[u] # "push", devListMutex' = devListMutex
  PROVE  MutexInv'
BY DEF MutexInv

LEMMA ContinueFromPush ==
  ASSUME TaskTypeOK, NEW b \in BOOLEAN, ContinueWith(b)
  PROVE  (\A v \in Tasks \ {"loop"} : pc'[v] = pc[v]) /\ pc'["loop"] # "push"
BY ContinueMoves DEF Moved, LoopStops

\* What a step does to the list.
LEMMA ListSteps ==
  ASSUME TypeOK, MutexInv, Next
  PROVE  /\ MutexInv'
         /\ UNCHANGED listVars \/ \E t \in Tasks : TakeSnapshot(t) \/ Push(t)
<1> DEFINE Apart == MutexInv' /\ UNCHANGED listVars
<1> USE AwayFromPush, ContinueFromPush
    DEF Goto, GotoWith, Begin, UartRest, LoopRest, WorkerRest, TypeOK, TaskTypeOK, Tasks, Here,
        otherVars, listVars, notRequests, notStore, notAuto, notSchedule, notInput
<1>1. ASSUME NEW u \in {"uart", "loop"}, Adopt(u) \/ ClaimWon(u)
      PROVE  Apart
  BY <1>1 DEF Adopt, ClaimWon
<1>2. ASSUME NEW u \in {"uart", "loop"}, ClaimLost(u) \/ Send(u)
      PROVE  Apart
  BY <1>2 DEF ClaimLost, Send, Return
<1>3. ASSUME NEW u \in Tasks, Lock(u) \/ Close(u)
      PROVE  Apart
  BY <1>3 DEF Lock, Close
<1>4. ASSUME NEW u \in Tasks, SetIdle(u)
      PROVE  Apart
  BY <1>4 DEF SetIdle, Continue, UartOps, WorkerOps
<1>5. CASE dispatchHostCommand
  BY <1>5 DEF dispatchHostCommand, cmdConnect, cmdDisconnect, cmdForget, cmdDevList,
     cmdCancelConnect, cmdSetPeriod, Command, taskVars, MutexInv
<1>6. CASE ForgetDisarm \/ ForgetKey \/ ForgetFlag \/ CancelRearm
  BY <1>6 DEF ForgetDisarm, ForgetKey, ForgetFlag, CancelRearm
<1>7. CASE AutoStart \/ NoAutoStart \/ AutoSlot \/ BusyScan
  BY <1>7 DEF AutoStart, NoAutoStart, AutoSlot, BusyScan, Continue
<1>8. CASE ReleaseRead \/ ReleaseLock \/ ReleaseIdle \/ ReleaseArm
  BY <1>8 DEF ReleaseRead, ReleaseLock, ReleaseIdle, ReleaseArm
<1>9. CASE SchedNotArmed \/ SchedInFlight \/ SchedWait \/ SchedGiveUp \/ SchedDue
           \/ GiveUp
  BY <1>9 DEF SchedNotArmed, SchedInFlight, SchedWait, SchedGiveUp, SchedDue, SchedResting,
     SchedulePass, GiveUp, Continue
<1>10. CASE ButtonQuiet \/ ButtonPress \/ ButtonLongPress \/ HoldSlot \/ HoldDisarm
  BY <1>10 DEF ButtonQuiet, ButtonPress, ButtonLongPress, HoldSlot, HoldDisarm, Continue
<1>11. CASE \E r \in Slots : LoseLink(r)
  BY <1>11 DEF LoseLink, taskVars, MutexInv
<1> USE DEF WorkerGoto
<1>12. CASE Receive \/ Acquire \/ CheckBackground \/ Drop \/ Announce
  BY <1>12 DEF Receive, Acquire, CheckBackground, Drop, Announce
<1>13. CASE Connect \/ OpenFails \/ LinkUp \/ Handshake
  BY <1>13 DEF Connect, OpenFails, LinkUp, Handshake
<1>14. CASE Finish \/ ReadyOff \/ SaveKey \/ SaveFlag \/ DisarmOthers
  BY <1>14 DEF Finish, ReadyOff, SaveKey, SaveFlag, DisarmOthers
<1>15. CASE Fail \/ ArmLock \/ ArmSet \/ FailIdle \/ Rearm \/ Quiet
  BY <1>15 DEF Fail, ArmLock, ArmSet, FailIdle, Rearm, Quiet
<1>16. ASSUME NEW u \in Tasks, TakeSnapshot(u)
       PROVE  MutexInv'
  BY <1>16, FreeAssumption DEF TakeSnapshot, takeDevListMutex, MutexInv
<1>17. ASSUME NEW u \in Tasks, Push(u)
       PROVE  MutexInv'
  <2>1. (\A v \in Tasks \ {u} : pc'[v] = pc[v]) /\ pc'[u] # "push"
    BY <1>17 DEF Push, AfterPush
  <2> QED  BY <1>17, <2>1, FreeAssumption DEF Push, MutexInv
<1> HIDE AwayFromPush, ContinueFromPush
    DEF Goto, GotoWith, Begin, UartRest, LoopRest, WorkerRest, TypeOK, TaskTypeOK, Tasks, Here,
        otherVars, listVars, notRequests, notStore, notAuto, notSchedule, notInput, WorkerGoto
<1> QED
  BY <1>1, <1>2, <1>3, <1>4, <1>5, <1>6, <1>7, <1>8, <1>9, <1>10, <1>11, <1>12, <1>13,
     <1>14, <1>15, <1>16, <1>17
  DEF Next, UartStep, LoopStep, WorkerStep, Tasks

LEMMA ViewStep ==
  ASSUME BaseInv, ReadyInv, ViewInv, Next
  PROVE  ViewInv'
<1>1. MutexInv' /\ HoldInv'
  BY ListSteps, HoldStep DEF BaseInv, ViewInv
<1>2. ASSUME NEW s \in Slots
      PROVE  Agrees(s)' \/ \E t \in Tasks : Owing(t)'
  <2>1. ASSUME NEW t \in Tasks, TakeSnapshot(t)
        PROVE  Agrees(s)'
    <3>1. connState' = connState /\ devListMutex' = t
      BY <2>1 DEF TakeSnapshot, takeDevListMutex, adapterVars
    <3>2. snapshot'[t][s] = Listed(s)
      BY <2>1 DEF TakeSnapshot, BaseInv, TypeOK, SharedTypeOK
    <3>3. Listed(s) = "READY" <=> connState[s] = "READY"
      BY DEF Listed
    <3> QED  BY <2>1, <3>1, <3>2, <3>3, FreeAssumption DEF Agrees, Tasks
  <2>2. CASE \E t \in Tasks : Owing(t)
    BY <2>1, <2>2, OwingStays DEF BaseInv, ViewInv
  <2>3. ASSUME NEW t \in Tasks, Push(t), Agrees(s)
        PROVE  Agrees(s)'
    <3>1. devListMutex = t /\ devListMutex # Free
      BY <2>3, FreeAssumption DEF Push, Here, ViewInv, MutexInv, Tasks
    <3> QED  BY <2>3, <3>1 DEF Push, adapterVars, Agrees
  <2>4. CASE UNCHANGED listVars /\ Agrees(s)
    <3>1. CASE connState[s] = "READY" <=> connState'[s] = "READY"
      BY <2>4, <3>1 DEF listVars, Agrees
    <3>2. CASE ~(connState[s] = "READY" <=> connState'[s] = "READY")
      BY <3>2, ReadyChangeIsOwed DEF ViewInv
    <3> QED  BY <3>1, <3>2
  <2> QED  BY <2>1, <2>2, <2>3, <2>4, ListSteps DEF BaseInv, ViewInv
<1> QED  BY <1>1, <1>2 DEF ViewInv

LEMMA ViewInit == Init => ViewInv
<1> SUFFICES ASSUME Init PROVE ViewInv
  OBVIOUS
<1>1. \A t \in Tasks : pc[t] \in {"poll", "start", "receive"}
  BY DEF Init, Tasks
<1>2. MutexInv
  BY <1>1, FreeAssumption DEF Init, MutexInv, Tasks
<1>3. HoldInv
  BY <1>1 DEF HoldInv, Tasks
<1>4. \A s \in Slots : Agrees(s)
  BY DEF Init, AdapterInit, Agrees, NoView
<1> QED  BY <1>2, <1>3, <1>4 DEF ViewInv

LEMMA ViewNext == BaseInv /\ ReadyInv /\ ViewInv /\ [Next]_vars => ViewInv'
<1>1. CASE UNCHANGED vars
  BY <1>1 DEF vars, adapterVars, taskVars, otherVars, listVars, ViewInv, MutexInv, HoldInv,
     Agrees, Owing, Holding
<1> QED  BY <1>1, ViewStep

\* At rest the host's table shows exactly the READY slots connected: whoever
\* changes READY pushes a list behind the change, and lists do not overtake
\* one another (devListMutex).
THEOREM HostIsTold == Spec => []HostSeesReady
<1>1. BaseInv /\ ViewInv => HostSeesReady
  <2> SUFFICES ASSUME BaseInv, ViewInv, AtRest, NEW s \in Slots
               PROVE  hostView[s] = "READY" <=> isReady(s)
    BY DEF HostSeesReady
  <2>1. \A t \in Tasks : ~Owing(t) /\ pc[t] # "push"
    BY DEF AtRest, Owing, Holding, Tasks
  <2>2. devListMutex = Free
    BY <2>1 DEF BaseInv, TypeOK, SharedTypeOK, ViewInv, MutexInv
  <2> QED  BY <2>1, <2>2 DEF ViewInv, Agrees, isReady
<1> QED
  BY <1>1, ViewInit, ViewNext, BaseInit, BaseStep, ReadyInit, ReadyStep, PTL DEF Spec

-----------------------------------------------------------------------------
(* NoDeadlock. *)

\* Who is waited for: whoever holds a lifecycle lock or the list mutex, and the
\* worker in a handshake.
LEMMA WaitedForHolds ==
  ASSUME BaseInv, MutexInv, SessionInv, NEW t \in Tasks, NEW u \in Tasks, WaitsFor(t, u)
  PROVE  pc[u] \in HoldPcs \cup {"push"} \/ (u = "worker" /\ pc[u] = "handshake")
<1>1. at[t] \in Slots
  BY AtType DEF BaseInv, TypeOK
<1>2. CASE lifecycle[at[t]] = u
  BY <1>1, <1>2 DEF BaseInv, LockInv
<1>3. CASE devListMutex = u
  BY <1>3 DEF MutexInv
<1>4. CASE link[at[t]] = "linked" /\ u = "worker"
  BY <1>1, <1>4 DEF SessionInv, SlotSession, WorkerAt
<1> QED  BY <1>2, <1>3, <1>4 DEF WaitsFor

\* Who is waited for waits for nobody but for the worker's handshake, and the
\* worker does not wait in its handshake: every wait is at most two deep.
LEMMA WaitsAreShort ==
  ASSUME BaseInv, MutexInv, SessionInv, NEW t \in Tasks, NEW u \in Tasks, NEW v \in Tasks,
         WaitsFor(t, u), WaitsFor(u, v)
  PROVE  \A w \in Tasks : ~WaitsFor(v, w)
<1>1. pc[u] \in HoldPcs \cup {"push", "handshake"}
  BY WaitedForHolds
<1>2. v = "worker" /\ link[at[u]] = "linked"
  BY <1>1 DEF WaitsFor, HoldPcs
<1>3. pc[v] = "handshake"
  BY <1>2, AtType DEF BaseInv, TypeOK, SessionInv, SlotSession, WorkerAt
<1> QED  BY <1>3 DEF WaitsFor

\* The three tasks never wait for one another, or one for itself, in a circle:
\* the lifecycle locks, the list mutex and the session of an open are taken in
\* an order that closes no circle.
THEOREM NoTasksDeadlock == Spec => []NoDeadlock
<1>1. BaseInv /\ MutexInv /\ SessionInv => NoDeadlock
  <2> SUFFICES ASSUME BaseInv, MutexInv, SessionInv,
                      NEW group \in (SUBSET Tasks) \ {{}},
                      \A t \in group : \E u \in group : WaitsFor(t, u)
               PROVE  FALSE
    BY DEF NoDeadlock
  <2>1. group \subseteq Tasks /\ \E t \in group : TRUE
    OBVIOUS
  <2>2. PICK t \in group, u \in group : WaitsFor(t, u)
    BY <2>1
  <2>3. PICK v \in group : WaitsFor(u, v)
    OBVIOUS
  <2>4. PICK w \in group : WaitsFor(v, w)
    OBVIOUS
  <2> QED  BY <2>1, <2>2, <2>3, <2>4, WaitsAreShort
<1>2. ViewInv => MutexInv
  BY DEF ViewInv
<1> QED
  BY <1>1, <1>2, BaseInit, BaseStep, ReadyInit, ReadyStep, SessionInit, SessionStep,
     ViewInit, ViewNext, PTL DEF Spec

=============================================================================

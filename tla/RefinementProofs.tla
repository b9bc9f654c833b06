-------------------------- MODULE RefinementProofs --------------------------
(***************************************************************************)
(* ControlLoop implements SlotLifecycle, for every number of slots, every  *)
(* set of sensors and every bound.                                         *)
(***************************************************************************)
EXTENDS ControlLoopProofs, SlotRefinement

-----------------------------------------------------------------------------
(* What a step of ControlLoop may look like in SlotLifecycle. *)

Step == Lifecycle!Next \/ (connState' = connState /\ Hunt' = Hunt)

\* The step neither begins nor ends one of the intervals that Hunt hides.
PlacesKept ==
    /\ {pc["worker"], pc'["worker"]} \cap {"readyOff", "armSet"} # {} =>
          pc'["worker"] = pc["worker"] /\ at'["worker"] = at["worker"]
    /\ "arm" \in {pc["loop"], pc'["loop"]} =>
          pc'["loop"] = pc["loop"] /\ at'["loop"] = at["loop"]

LEMMA HuntKept ==
  ASSUME PlacesKept, reconnect' = reconnect
  PROVE  Hunt' = Hunt
BY DEF PlacesKept, Hunt, EndsHunt, StartsHunt

\* The step stores v in a slot's reconnect state.
LEMMA HuntStored ==
  ASSUME TypeOK, PlacesKept, NEW s \in Slots, NEW v \in ReconnectStates,
         reconnect' = [reconnect EXCEPT ![s] = v]
  PROVE  \/ Hunt' = Hunt
         \/ Hunt[s] = reconnect[s] /\ Hunt' = [Hunt EXCEPT ![s] = v]
         \/ Hunt[s] = reconnect[s] /\ v = "OFF" /\ Hunt' = [Hunt EXCEPT ![s] = "ARMED"]
         \/ Hunt[s] = "ARMED" /\ reconnect[s] = "OFF" /\ Hunt' = [Hunt EXCEPT ![s] = v]
<1> USE DEF TypeOK, AdapterTypeOK
<1>1. ASSUME NEW r \in Slots \ {s} PROVE Hunt'[r] = Hunt[r]
  BY DEF PlacesKept, Hunt, EndsHunt, StartsHunt
<1>2. CASE EndsHunt(s) \/ (pc["loop"] = "arm" /\ at["loop"] = s)
  <2>1. Hunt'[s] = Hunt[s]
    BY <1>2 DEF PlacesKept, Hunt, EndsHunt, StartsHunt
  <2> QED  BY <1>1, <2>1 DEF Hunt
<1>3. CASE ~EndsHunt(s) /\ ~(pc["loop"] = "arm" /\ at["loop"] = s)
  <2>1. CASE pc["worker"] = "armSet" /\ at["worker"] = s
    <3>1. /\ Hunt[s] = IF reconnect[s] = "OFF" THEN "ARMED" ELSE reconnect[s]
          /\ Hunt'[s] = IF v = "OFF" THEN "ARMED" ELSE v
      BY <1>3, <2>1 DEF PlacesKept, Hunt, EndsHunt, StartsHunt
    <3> QED  BY <1>1, <3>1 DEF Hunt
  <2>2. CASE ~(pc["worker"] = "armSet" /\ at["worker"] = s)
    <3>1. Hunt[s] = reconnect[s] /\ Hunt'[s] = v
      BY <1>3, <2>2 DEF PlacesKept, Hunt, EndsHunt, StartsHunt
    <3> QED  BY <1>1, <3>1 DEF Hunt
  <2> QED  BY <2>1, <2>2
<1> QED  BY <1>2, <1>3

-----------------------------------------------------------------------------
(* The stores, whichever task makes them. *)

LEMMA NothingStored ==
  ASSUME PlacesKept, connState' = connState, reconnect' = reconnect
  PROVE  Step
BY HuntKept DEF Step

LEMMA OffStored ==
  ASSUME TypeOK, PlacesKept, connState' = connState, NEW s \in Slots,
         setReconnectState(s, "OFF")
  PROVE  Step
<1>1. reconnect' = [reconnect EXCEPT ![s] = "OFF"]
  BY DEF setReconnectState
<1>2. CASE Hunt' = Hunt
  BY <1>2 DEF Step
<1>3. CASE Hunt' = [Hunt EXCEPT ![s] = "OFF"]
  <2>1. Hunt' = [r \in Slots |-> IF r \in {s} THEN "OFF" ELSE Hunt[r]]
    BY <1>3 DEF Hunt
  <2>2. Lifecycle!Disarm({s})
    BY <2>1 DEF Lifecycle!Disarm
  <2> QED  BY <2>2 DEF Step, Lifecycle!Next
<1>4. CASE Hunt[s] = reconnect[s] /\ Hunt' = [Hunt EXCEPT ![s] = "ARMED"]
  <2>1. CASE Hunt[s] = "ADOPTED"
    <3>1. Lifecycle!Rearm(s)
      BY <1>4, <2>1 DEF Lifecycle!Rearm, Lifecycle!Hunts
    <3> QED  BY <3>1 DEF Step, Lifecycle!Next
  <2>2. CASE Hunt[s] = "ARMED"
    <3>1. Hunt' = Hunt
      BY <1>4, <2>2 DEF Hunt
    <3> QED  BY <3>1 DEF Step
  <2>3. CASE Hunt[s] = "OFF"
    <3>1. reconnect' = reconnect
      BY <1>1, <1>4, <2>3 DEF TypeOK, AdapterTypeOK
    <3> QED  BY <3>1, NothingStored
  <2> QED  BY <1>4, <2>1, <2>2, <2>3 DEF TypeOK, AdapterTypeOK, ReconnectStates
<1> QED  BY <1>1, <1>2, <1>3, <1>4, HuntStored DEF ReconnectStates

LEMMA AdoptStored ==
  ASSUME TypeOK, PlacesKept, connState' = connState, NEW s \in Slots, tryAdoptReconnect(s)
  PROVE  Step
<1>1. reconnect[s] = "ARMED" /\ reconnect' = [reconnect EXCEPT ![s] = "ADOPTED"]
  BY DEF tryAdoptReconnect, setReconnectState
<1>2. CASE Hunt' = Hunt
  BY <1>2 DEF Step
<1>3. CASE Hunt[s] = reconnect[s] /\ Hunt' = [Hunt EXCEPT ![s] = "ADOPTED"]
  <2>1. Lifecycle!Adopt(s)
    BY <1>1, <1>3 DEF Lifecycle!Adopt, Lifecycle!Hunts
  <2> QED  BY <2>1 DEF Step, Lifecycle!Next
<1> QED  BY <1>1, <1>2, <1>3, HuntStored DEF ReconnectStates

LEMMA RearmStored ==
  ASSUME TypeOK, PlacesKept, connState' = connState, NEW s \in Slots,
         tryRearmAdoptedReconnect(s)
  PROVE  Step
<1>1. reconnect[s] = "ADOPTED" /\ reconnect' = [reconnect EXCEPT ![s] = "ARMED"]
  BY DEF tryRearmAdoptedReconnect, setReconnectState
<1>2. CASE Hunt' = Hunt
  BY <1>2 DEF Step
<1>3. CASE Hunt[s] = reconnect[s] /\ Hunt' = [Hunt EXCEPT ![s] = "ARMED"]
  <2>1. Lifecycle!Rearm(s)
    BY <1>1, <1>3 DEF Lifecycle!Rearm, Lifecycle!Hunts
  <2> QED  BY <2>1 DEF Step, Lifecycle!Next
<1> QED  BY <1>1, <1>2, <1>3, HuntStored DEF ReconnectStates

LEMMA RequestStored ==
  ASSUME PlacesKept, reconnect' = reconnect, NEW s \in Slots, tryRequestConnect(s)
  PROVE  Step
<1>1. Lifecycle!Request(s)
  BY HuntKept DEF tryRequestConnect, setState, Lifecycle!Request, Lifecycle!Moves
<1> QED  BY <1>1 DEF Step, Lifecycle!Next

LEMMA IdleStored ==
  ASSUME TypeOK, PlacesKept, reconnect' = reconnect, NEW s \in Slots, setState(s, "IDLE")
  PROVE  Step
<1>1. connState' = [connState EXCEPT ![s] = "IDLE"] /\ Hunt' = Hunt
  BY HuntKept DEF setState
<1>2. CASE connState[s] = "IDLE"
  BY <1>1, <1>2 DEF Step, TypeOK, AdapterTypeOK
<1>3. CASE connState[s] = "READY"
  <2>1. Lifecycle!End(s)
    BY <1>1, <1>3 DEF Lifecycle!End, Lifecycle!Moves
  <2> QED  BY <2>1 DEF Step, Lifecycle!Next
<1>4. CASE connState[s] \in {"REQUESTED", "CONNECTING"}
  <2>1. Lifecycle!Fail(s)
    BY <1>1, <1>4 DEF Lifecycle!Fail, Lifecycle!Moves
  <2> QED  BY <2>1 DEF Step, Lifecycle!Next
<1> QED  BY <1>2, <1>3, <1>4 DEF TypeOK, AdapterTypeOK, ConnStates

-----------------------------------------------------------------------------
(* The uart task and the environment. *)

LEMMA UartRefines ==
  ASSUME TypeOK, dispatchHostCommand \/ UartStep \/ \E s \in Slots : LoseLink(s)
  PROVE  Step
<1>1. PlacesKept
  <2>1. LoopKept
    BY LoopStays DEF NotLoopStep
  <2>2. WorkerKept
    BY WorkerStays DEF OtherStep
  <2> QED  BY <2>1, <2>2 DEF LoopKept, WorkerKept, PlacesKept
<1>2. at["uart"] \in Slots
  BY DEF TypeOK, TaskTypeOK, Tasks
<1> USE DEF adapterVars, notConnState, notReconnect, notSession
<1>3. CASE \E s \in Slots : LoseLink(s)
  BY <1>1, <1>3, NothingStored DEF LoseLink
<1>4. CASE cmdCancelConnect
  <2>1. reconnect' = reconnect
    BY <1>4 DEF cmdCancelConnect
  <2>2. CASE connState' = connState
    BY <1>1, <2>1, <2>2, NothingStored
  <2>3. CASE \E s \in Slots : setState(s, "IDLE")
    BY <1>1, <2>1, <2>3, IdleStored
  <2> QED  BY <1>4, <2>2, <2>3 DEF cmdCancelConnect, tryCancelConnect
<1>5. CASE cmdConnect \/ cmdDisconnect \/ cmdForget \/ cmdSetPeriod \/ cmdDevList
  BY <1>1, <1>5, NothingStored DEF cmdConnect, cmdDisconnect, cmdForget, cmdSetPeriod, cmdDevList
<1>6. CASE ForgetDisarm
  BY <1>1, <1>2, <1>6, OffStored DEF ForgetDisarm
<1>7. CASE CancelRearm
  BY <1>1, <1>2, <1>7, RearmStored, NothingStored DEF CancelRearm
<1>8. CASE Adopt("uart")
  BY <1>1, <1>2, <1>8, AdoptStored, NothingStored DEF Adopt
<1>9. CASE ClaimWon("uart")
  BY <1>1, <1>2, <1>9, RequestStored DEF ClaimWon
<1>10. CASE Lock("uart")
  BY <1>1, <1>2, <1>10, OffStored, NothingStored DEF Lock
<1>11. CASE SetIdle("uart")
  BY <1>1, <1>2, <1>11, IdleStored DEF SetIdle
<1>12. CASE ClaimLost("uart") \/ Send("uart") \/ Close("uart") \/ TakeSnapshot("uart")
            \/ Push("uart") \/ ForgetKey \/ ForgetFlag
  BY <1>1, <1>12, NothingStored
  DEF ClaimLost, Send, Close, TakeSnapshot, Push, ForgetKey, ForgetFlag
<1> QED
  BY <1>3, <1>4, <1>5, <1>6, <1>7, <1>8, <1>9, <1>10, <1>11, <1>12
  DEF dispatchHostCommand, UartStep

-----------------------------------------------------------------------------
(* The loop task. *)

\* It leaves "arm" by arming the slot.
LEMMA OnlyReleaseArmLeavesArm ==
  ASSUME LoopStep, pc["loop"] = "arm"
  PROVE  ReleaseArm
BY DEF LoopStep, Here, AutoStart, NoAutoStart, AutoSlot, ReleaseRead, ReleaseLock, ReleaseIdle,
   BusyScan, SchedNotArmed, SchedInFlight, SchedWait, SchedGiveUp, SchedDue, SchedResting,
   SchedulePass, GiveUp, ButtonQuiet, ButtonPress, ButtonLongPress, HoldSlot, HoldDisarm,
   Adopt, ClaimWon, ClaimLost, Send, Lock, Close, SetIdle, TakeSnapshot, Push

\* The slot whose lost link is being released stays READY to the end of the
\* teardown.
ReleaseInv ==
    pc["loop"] \in {"close", "setIdle"} /\ op["loop"] = "release" =>
        connState[at["loop"]] = "READY"

LEMMA ReleaseStep ==
  ASSUME BaseInv, ReadyInv, HuntInv, ReleaseInv, Next
  PROVE  ReleaseInv'
<1> SUFFICES ASSUME pc'["loop"] \in {"close", "setIdle"}, op'["loop"] = "release"
             PROVE  connState'[at'["loop"]] = "READY"
  BY DEF ReleaseInv
<1>1. CASE NotLoopStep
  <2>1. LoopKept
    BY <1>1, LoopStays DEF BaseInv
  <2> DEFINE s == at["loop"]
  <2>2. s \in Slots /\ lifecycle[s] = "loop" /\ connState[s] = "READY"
    BY <2>1 DEF LoopKept, BaseInv, TypeOK, TaskTypeOK, LockInv, HoldPcs, Tasks, ReleaseInv
  <2>3. ~SetIdle("worker") \/ at["worker"] # s
    BY <2>2 DEF SetIdle, Here, BaseInv, LockInv, HoldPcs, Tasks
  <2>4. ~SetIdle("uart") \/ at["uart"] # s
    BY <2>2 DEF SetIdle, Here, BaseInv, LockInv, HoldPcs, Tasks
  <2>5. ~SetIdle("loop")
    BY <2>1 DEF SetIdle, LoopKept
  <2>6. ~ReleaseIdle
    BY <2>1 DEF ReleaseIdle, Here, Goto, LoopKept, BaseInv, TypeOK, TaskTypeOK, Tasks
  <2>7. ASSUME connState'[s] # "READY" PROVE FALSE
    <3>1. PICK t \in {"uart", "worker"} : SetIdle(t)
      BY <2>2, <2>5, <2>6, <2>7, WorkerKeepsReady, OthersKeepReady
      DEF BaseInv, Next, OtherStep
    <3>2. at[t] # s /\ at[t] \in Slots
      BY <2>3, <2>4, <3>1 DEF BaseInv, TypeOK, TaskTypeOK, Tasks
    <3> QED
      BY <2>2, <2>7, <3>1, <3>2 DEF SetIdle, setState, BaseInv, TypeOK, AdapterTypeOK
  <2> QED  BY <2>1, <2>7 DEF LoopKept
<1>2. CASE LoopStep
  <2> USE DEF Goto, GotoWith, Begin, BaseInv, TypeOK, TaskTypeOK, Tasks, Here, adapterVars
  <2>1. ASSUME NEW b \in BOOLEAN PROVE ~ContinueWith(b)
    BY ContinueMoves DEF Moved, LoopStops
  <2>2. ~Continue
    BY <2>1 DEF Continue
  <2>3. ~LoopRest
    BY DEF LoopRest
  <2> HIDE DEF ContinueWith
  <2>4. ~(Adopt("loop") \/ ClaimWon("loop") \/ ClaimLost("loop") \/ Send("loop"))
    BY <2>1 DEF Adopt, ClaimWon, ClaimLost, Send, Return
  <2>5. ~(Lock("loop") \/ SetIdle("loop"))
    BY <2>2 DEF Lock, SetIdle, HuntInv
  <2>6. ~(TakeSnapshot("loop") \/ Push("loop"))
    BY <2>1, <2>3 DEF TakeSnapshot, Push, AfterPush
  <2>7. ~(AutoStart \/ NoAutoStart \/ AutoSlot \/ ReleaseRead \/ ReleaseIdle \/ ReleaseArm
          \/ BusyScan)
    BY <2>1, <2>2 DEF AutoStart, NoAutoStart, AutoSlot, ReleaseRead, ReleaseIdle,
       ReleaseArm, BusyScan
  <2>8. ~(SchedNotArmed \/ SchedInFlight \/ SchedWait \/ SchedGiveUp \/ SchedDue
          \/ GiveUp)
    BY <2>2 DEF SchedNotArmed, SchedInFlight, SchedWait, SchedGiveUp, SchedDue, GiveUp
  <2>9. ~(ButtonQuiet \/ ButtonPress \/ ButtonLongPress \/ HoldSlot \/ HoldDisarm)
    BY <2>2, <2>3 DEF ButtonQuiet, ButtonPress, ButtonLongPress, HoldSlot, HoldDisarm
  <2>10. CASE ReleaseLock
    <3>1. LinkLost(at["loop"]) /\ at' = at /\ connState' = connState
      BY <2>1, <2>10 DEF ReleaseLock, LoopSlot
    <3> QED  BY <3>1 DEF LinkLost, isReady
  <2>11. CASE Close("loop")
    BY <2>11 DEF Close, notSession, ReleaseInv
  <2> QED
    BY <1>2, <2>4, <2>5, <2>6, <2>7, <2>8, <2>9, <2>10, <2>11 DEF LoopStep
<1> QED  BY <1>1, <1>2 DEF Next, NotLoopStep

LEMMA ReleaseIdleRefines ==
  ASSUME BaseInv, ReadyInv, DisarmInv, ReleaseInv, ReleaseIdle
  PROVE  Step
<1> DEFINE s == at["loop"]
<1>1. s \in Slots /\ lifecycle[s] = "loop" /\ connState[s] = "READY"
  BY DEF ReleaseIdle, Here, BaseInv, TypeOK, TaskTypeOK, LockInv, HoldPcs, Tasks, ReleaseInv
<1>2. ~(at["worker"] = s /\ pc["worker"] \in {"readyOff", "armSet"})
  BY <1>1 DEF BaseInv, LockInv, HoldPcs, Tasks
<1>3. pc'["worker"] = pc["worker"] /\ at' = at
  BY DEF ReleaseIdle, Goto, BaseInv, TypeOK, TaskTypeOK, Tasks
<1>4. connState' = [connState EXCEPT ![s] = "IDLE"] /\ reconnect' = reconnect
  BY DEF ReleaseIdle, setState, LoopSlot
<1>5. pc["loop"] # "arm" /\ pc'["loop"] \in {"arm", "list"}
  BY DEF ReleaseIdle, Here, Goto, BaseInv, TypeOK, TaskTypeOK, Tasks
<1>6. Hunt[s] = "OFF"
  BY <1>1, <1>2, <1>5 DEF Hunt, EndsHunt, StartsHunt, DisarmInv
<1>7. CASE pc'["loop"] = "arm"
  <2>1. Hunt' = [Hunt EXCEPT ![s] = "ARMED"]
    BY <1>1, <1>2, <1>3, <1>4, <1>5, <1>7 DEF Hunt, EndsHunt, StartsHunt
  <2>2. Lifecycle!Lose(s)
    BY <1>1, <1>4, <1>6, <2>1 DEF Lifecycle!Lose, Lifecycle!Moves, Lifecycle!Hunts
  <2> QED  BY <1>1, <2>2 DEF Step, Lifecycle!Next
<1>8. CASE pc'["loop"] # "arm"
  <2>1. PlacesKept
    BY <1>3, <1>5, <1>8 DEF PlacesKept
  <2> QED
    BY <1>1, <1>4, <2>1, IdleStored DEF setState, BaseInv
<1> QED  BY <1>7, <1>8

LEMMA ReleaseArmRefines ==
  ASSUME BaseInv, ReleaseArm
  PROVE  Step
<1> DEFINE s == at["loop"]
<1>1. s \in Slots /\ lifecycle[s] = "loop" /\ pc["loop"] = "arm"
  BY DEF ReleaseArm, Here, BaseInv, TypeOK, TaskTypeOK, LockInv, HoldPcs, Tasks
<1>2. ~(at["worker"] = s /\ pc["worker"] \in {"readyOff", "armSet"})
  BY <1>1 DEF BaseInv, LockInv, HoldPcs, Tasks
<1>3. pc'["worker"] = pc["worker"] /\ at' = at /\ pc'["loop"] # "arm"
  BY DEF ReleaseArm, Goto, BaseInv, TypeOK, TaskTypeOK, Tasks
<1>4. connState' = connState /\ reconnect' = [reconnect EXCEPT ![s] = "ARMED"]
  BY DEF ReleaseArm, setReconnectState, LoopSlot
<1>5. Hunt' = Hunt
  BY <1>1, <1>2, <1>3, <1>4 DEF Hunt, EndsHunt, StartsHunt, BaseInv, TypeOK, AdapterTypeOK
<1> QED  BY <1>4, <1>5 DEF Step

LEMMA LoopRefines ==
  ASSUME BaseInv, ReadyInv, DisarmInv, ReleaseInv, LoopStep
  PROVE  Step
<1>1. CASE ReleaseIdle
  BY <1>1, ReleaseIdleRefines
<1>2. CASE ReleaseArm
  BY <1>2, ReleaseArmRefines
<1>3. CASE ~ReleaseIdle /\ ~ReleaseArm
  <2>1. PlacesKept
    <3>1. pc["loop"] # "arm" /\ pc'["loop"] # "arm"
      BY <1>3, OnlyReleaseArmLeavesArm, OnlyReleaseIdleLeadsToArm DEF BaseInv
    <3>2. WorkerKept
      BY WorkerStays DEF OtherStep, BaseInv
    <3> QED  BY <3>1, <3>2 DEF WorkerKept, PlacesKept
  <2>2. at["loop"] \in Slots /\ TypeOK
    BY DEF BaseInv, TypeOK, TaskTypeOK, Tasks
  <2> USE DEF adapterVars, notConnState, notReconnect, notSession
  <2>3. CASE Adopt("loop")
    BY <2>1, <2>2, <2>3, AdoptStored, NothingStored DEF Adopt
  <2>4. CASE ClaimWon("loop")
    BY <2>1, <2>2, <2>4, RequestStored DEF ClaimWon
  <2>5. CASE Lock("loop")
    BY <2>1, <2>2, <2>5, OffStored, NothingStored DEF Lock
  <2>6. CASE SetIdle("loop")
    BY <2>1, <2>2, <2>6, IdleStored DEF SetIdle
  <2>7. CASE HoldDisarm
    BY <2>1, <2>2, <2>7, OffStored DEF HoldDisarm, LoopSlot
  <2>8. CASE GiveUp
    BY <2>1, <2>2, <2>8, OffStored, NothingStored DEF GiveUp, tryGiveUpReconnect, LoopSlot
  <2>9. CASE ClaimLost("loop") \/ Send("loop") \/ Close("loop") \/ TakeSnapshot("loop")
             \/ Push("loop")
    BY <2>1, <2>9, NothingStored DEF ClaimLost, Send, Close, TakeSnapshot, Push
  <2>10. CASE AutoStart \/ NoAutoStart \/ AutoSlot \/ ReleaseRead \/ ReleaseLock \/ BusyScan
    BY <2>1, <2>10, NothingStored DEF AutoStart, NoAutoStart, AutoSlot, ReleaseRead,
       ReleaseLock, BusyScan
  <2>11. CASE SchedNotArmed \/ SchedInFlight \/ SchedWait \/ SchedGiveUp \/ SchedDue
    BY <2>1, <2>11, NothingStored DEF SchedNotArmed, SchedInFlight, SchedWait, SchedGiveUp,
       SchedDue, SchedResting, SchedulePass
  <2>12. CASE ButtonQuiet \/ ButtonPress \/ ButtonLongPress \/ HoldSlot
    BY <2>1, <2>12, NothingStored DEF ButtonQuiet, ButtonPress, ButtonLongPress, HoldSlot
  <2> QED
    BY <1>3, <2>3, <2>4, <2>5, <2>6, <2>7, <2>8, <2>9, <2>10, <2>11, <2>12 DEF LoopStep
<1> QED  BY <1>1, <1>2, <1>3

-----------------------------------------------------------------------------
(* The worker. *)

\* Four steps lead to, or leave, the places at which a hunt is hidden.
LEMMA WorkerPlaces ==
  ASSUME TypeOK, WorkerStep, ~Finish, ~ReadyOff, ~ArmLock, ~ArmSet
  PROVE  /\ pc["worker"] \notin {"readyOff", "armSet"}
         /\ pc'["worker"] \notin {"readyOff", "armSet"}
<1> USE DEF TypeOK, TaskTypeOK, Tasks, Here, Goto, Begin, WorkerGoto, WorkerRest
<1>1. CASE Receive \/ Acquire \/ CheckBackground \/ Drop \/ Announce
  BY <1>1 DEF Receive, Acquire, CheckBackground, Drop, Announce
<1>2. CASE Connect \/ OpenFails \/ LinkUp \/ Handshake
  BY <1>2 DEF Connect, OpenFails, LinkUp, Handshake
<1>3. CASE SaveKey \/ SaveFlag \/ DisarmOthers \/ Fail
  BY <1>3 DEF SaveKey, SaveFlag, DisarmOthers, Fail
<1>4. CASE FailIdle \/ Rearm \/ Quiet
  BY <1>4 DEF FailIdle, Rearm, Quiet
<1>5. CASE Lock("worker") \/ Close("worker")
  BY <1>5 DEF Lock, Close
<1>6. CASE SetIdle("worker")
  BY <1>6 DEF SetIdle, WorkerOps
<1>7. CASE TakeSnapshot("worker") \/ Push("worker")
  BY <1>7 DEF TakeSnapshot, Push, AfterPush
<1> QED  BY <1>1, <1>2, <1>3, <1>4, <1>5, <1>6, <1>7 DEF WorkerStep

LEMMA FinishRefines ==
  ASSUME BaseInv, Finish
  PROVE  Step
<1> DEFINE s == at["worker"]
<1>1. LoopKept
  BY LoopStays DEF BaseInv, NotLoopStep, WorkerStep
<1>2. s \in Slots /\ pc["worker"] = "finish" /\ reconnect' = reconnect
  BY DEF Finish, Here, BaseInv, TypeOK, TaskTypeOK, Tasks
<1>3. CASE connState[s] = "CONNECTING"
  <2>1. connState' = [connState EXCEPT ![s] = "READY"]
    BY <1>3 DEF Finish, WorkerSlot, setState
  <2>2. pc'["worker"] = "readyOff" /\ at'["worker"] = s
    BY <1>3 DEF Finish, WorkerSlot, WorkerGoto, Goto, BaseInv, TypeOK, TaskTypeOK, Tasks
  <2>3. Hunt' = [Hunt EXCEPT ![s] = "OFF"]
    BY <1>1, <1>2, <2>2 DEF LoopKept, Hunt, EndsHunt, StartsHunt
  <2>4. Lifecycle!Succeed(s)
    BY <1>3, <2>1, <2>3 DEF Lifecycle!Succeed, Lifecycle!Moves
  <2> QED  BY <1>2, <2>4 DEF Step, Lifecycle!Next
<1>4. CASE connState[s] # "CONNECTING"
  <2>1. pc'["worker"] = "lock" /\ connState' = connState
    BY <1>4 DEF Finish, WorkerSlot, Begin, BaseInv, TypeOK, TaskTypeOK, Tasks
  <2>2. PlacesKept
    BY <1>1, <1>2, <2>1 DEF LoopKept, PlacesKept
  <2> QED  BY <1>2, <2>1, <2>2, NothingStored
<1> QED  BY <1>3, <1>4

LEMMA ReadyOffRefines ==
  ASSUME BaseInv, ReadyOff
  PROVE  Step
<1> DEFINE s == at["worker"]
<1>1. LoopKept
  BY LoopStays DEF BaseInv, NotLoopStep, WorkerStep
<1>2. s \in Slots /\ pc["worker"] = "readyOff" /\ lifecycle[s] = "worker"
  BY DEF ReadyOff, Here, BaseInv, TypeOK, TaskTypeOK, LockInv, HoldPcs, Tasks
<1>3. ~(pc["loop"] = "arm" /\ at["loop"] = s)
  BY <1>2 DEF BaseInv, LockInv, HoldPcs, Tasks
<1>4. pc'["worker"] \notin {"readyOff", "armSet"} /\ at'["worker"] = s
  BY DEF ReadyOff, WorkerGoto, Goto, BaseInv, TypeOK, TaskTypeOK, Tasks
<1>5. connState' = connState /\ reconnect' = [reconnect EXCEPT ![s] = "OFF"]
  BY DEF ReadyOff, WorkerSlot, setReconnectState
<1>6. Hunt' = Hunt
  BY <1>1, <1>2, <1>3, <1>4, <1>5
  DEF LoopKept, Hunt, EndsHunt, StartsHunt, BaseInv, TypeOK, AdapterTypeOK
<1> QED  BY <1>5, <1>6 DEF Step

LEMMA ArmLockRefines ==
  ASSUME BaseInv, ArmLock
  PROVE  Step
<1> DEFINE s == at["worker"]
<1>1. LoopKept
  BY LoopStays DEF BaseInv, NotLoopStep, WorkerStep
<1>2. s \in Slots /\ pc["worker"] = "armLock" /\ lifecycle[s] = Free
  BY DEF ArmLock, Here, WorkerSlot, BaseInv, TypeOK, TaskTypeOK, Tasks
<1>3. ~(pc["loop"] = "arm" /\ at["loop"] = s)
  BY <1>2, FreeAssumption DEF BaseInv, LockInv, HoldPcs, Tasks
<1>4. reconnect' = reconnect
  BY DEF ArmLock
<1>5. CASE connState[s] = "CONNECTING"
  <2>1. connState' = [connState EXCEPT ![s] = "IDLE"]
    BY <1>5 DEF ArmLock, WorkerSlot, setState
  <2>2. pc'["worker"] = "armSet" /\ at'["worker"] = s
    BY <1>5 DEF ArmLock, WorkerSlot, WorkerGoto, Goto, BaseInv, TypeOK, TaskTypeOK, Tasks
  <2>3. CASE reconnect[s] = "OFF"
    <3>1. Hunt[s] = "OFF" /\ Hunt' = [Hunt EXCEPT ![s] = "ARMED"]
      BY <1>1, <1>2, <1>3, <1>4, <2>2, <2>3 DEF LoopKept, Hunt, EndsHunt, StartsHunt
    <3>2. Lifecycle!FailAtBoot(s)
      BY <1>5, <2>1, <3>1 DEF Lifecycle!FailAtBoot, Lifecycle!Moves, Lifecycle!Hunts
    <3> QED  BY <1>2, <3>2 DEF Step, Lifecycle!Next
  <2>4. CASE reconnect[s] # "OFF"
    <3>1. Hunt' = Hunt
      BY <1>1, <1>2, <1>4, <2>2, <2>4 DEF LoopKept, Hunt, EndsHunt, StartsHunt
    <3>2. Lifecycle!Fail(s)
      BY <1>5, <2>1, <3>1 DEF Lifecycle!Fail, Lifecycle!Moves
    <3> QED  BY <1>2, <3>2 DEF Step, Lifecycle!Next
  <2> QED  BY <2>3, <2>4
<1>6. CASE connState[s] # "CONNECTING"
  <2>1. pc'["worker"] = "failIdle" /\ connState' = connState
    BY <1>6 DEF ArmLock, WorkerSlot, WorkerGoto, Goto, BaseInv, TypeOK, TaskTypeOK, Tasks
  <2>2. PlacesKept
    BY <1>1, <1>2, <2>1 DEF LoopKept, PlacesKept
  <2> QED  BY <1>4, <2>1, <2>2, NothingStored
<1> QED  BY <1>5, <1>6

LEMMA ArmSetRefines ==
  ASSUME BaseInv, ArmSet
  PROVE  Step
<1> DEFINE s == at["worker"]
<1>1. LoopKept
  BY LoopStays DEF BaseInv, NotLoopStep, WorkerStep
<1>2. s \in Slots /\ pc["worker"] = "armSet" /\ connState' = connState
  BY DEF ArmSet, Here, BaseInv, TypeOK, TaskTypeOK, Tasks
<1>3. pc'["worker"] \in {"list", "failIdle"} /\ at'["worker"] = s
  BY DEF ArmSet, WorkerGoto, Goto, BaseInv, TypeOK, TaskTypeOK, Tasks
<1>4. IF reconnect[s] = "OFF" THEN reconnect' = [reconnect EXCEPT ![s] = "ARMED"]
                              ELSE reconnect' = reconnect
  BY DEF ArmSet, WorkerSlot, setReconnectState
<1>5. Hunt' = Hunt
  BY <1>1, <1>2, <1>3, <1>4
  DEF LoopKept, Hunt, EndsHunt, StartsHunt, BaseInv, TypeOK, AdapterTypeOK
<1> QED  BY <1>2, <1>5 DEF Step

LEMMA AcquireRefines ==
  ASSUME BaseInv, ConnInv, PlacesKept, Acquire
  PROVE  Step
<1> DEFINE s == at["worker"]
<1>1. s \in Slots /\ pc["worker"] = "acquire" /\ reconnect' = reconnect
  BY DEF Acquire, Here, notConnState, BaseInv, TypeOK, TaskTypeOK, Tasks
<1>2. Hunt' = Hunt
  BY <1>1, HuntKept
<1>3. CASE tryAcquireConnecting(s)
  <2>1. \A r \in Slots : connState[r] # "CONNECTING"
    BY <1>1 DEF ConnInv, WorkerOn
  <2>2. Lifecycle!Start(s)
    BY <1>2, <1>3, <2>1
    DEF tryAcquireConnecting, setState, Lifecycle!Start, Lifecycle!Moves
  <2> QED  BY <1>1, <2>2 DEF Step, Lifecycle!Next
<1>4. CASE connState' = connState
  BY <1>2, <1>4 DEF Step
<1> QED  BY <1>3, <1>4 DEF Acquire, WorkerSlot

LEMMA DisarmOthersRefines ==
  ASSUME BaseInv, DisarmOthers
  PROVE  Step
<1> DEFINE Seeks(j) == j # at["worker"] /\ openDevice[j] = sensor[at["worker"]]
           Shown == {j \in Slots : Seeks(j) /\ ~(pc["loop"] = "arm" /\ at["loop"] = j)}
<1>1. LoopKept
  BY LoopStays DEF BaseInv, NotLoopStep, WorkerStep
<1>2. /\ pc["worker"] \notin {"readyOff", "armSet"}
      /\ pc'["worker"] \notin {"readyOff", "armSet"}
  BY WorkerPlaces DEF WorkerStep, DisarmOthers, Finish, ReadyOff, ArmLock, ArmSet, Here, BaseInv
<1>3. /\ connState' = connState
      /\ reconnect' = [j \in Slots |-> IF Seeks(j) THEN "OFF" ELSE reconnect[j]]
  BY DEF DisarmOthers, WorkerSlot
<1>4. ASSUME NEW j \in Slots
      PROVE  Hunt'[j] = IF j \in Shown THEN "OFF" ELSE Hunt[j]
  BY <1>1, <1>2, <1>3 DEF LoopKept, Hunt, EndsHunt, StartsHunt
<1>5. Hunt' = [j \in Slots |-> IF j \in Shown THEN "OFF" ELSE Hunt[j]]
  BY <1>4 DEF Hunt
<1>6. Lifecycle!Disarm(Shown) /\ Shown \in SUBSET Slots
  BY <1>3, <1>5 DEF Lifecycle!Disarm
<1> QED  BY <1>6 DEF Step, Lifecycle!Next

LEMMA WorkerRefines ==
  ASSUME BaseInv, ConnInv, WorkerStep
  PROVE  Step
<1>1. CASE Finish \/ ReadyOff \/ ArmLock \/ ArmSet \/ DisarmOthers
  BY <1>1, FinishRefines, ReadyOffRefines, ArmLockRefines, ArmSetRefines, DisarmOthersRefines
<1>2. CASE ~(Finish \/ ReadyOff \/ ArmLock \/ ArmSet \/ DisarmOthers)
  <2>1. PlacesKept
    <3>1. LoopKept
      BY LoopStays DEF BaseInv, NotLoopStep
    <3> QED  BY <1>2, <3>1, WorkerPlaces DEF BaseInv, LoopKept, PlacesKept
  <2>2. at["worker"] \in Slots /\ TypeOK
    BY DEF BaseInv, TypeOK, TaskTypeOK, Tasks
  <2> USE DEF WorkerSlot, adapterVars, notConnState, notReconnect, notSession
  <2>3. CASE Acquire
    BY <2>1, <2>3, AcquireRefines
  <2>4. CASE Drop \/ FailIdle \/ SetIdle("worker")
    BY <2>1, <2>2, <2>4, IdleStored DEF Drop, FailIdle, SetIdle
  <2>5. CASE Rearm
    BY <2>1, <2>2, <2>5, RearmStored, NothingStored DEF Rearm
  <2>6. CASE Lock("worker")
    BY <2>1, <2>2, <2>6, OffStored, NothingStored DEF Lock
  <2>7. CASE Receive \/ CheckBackground \/ Announce \/ Connect
    BY <2>1, <2>7, NothingStored DEF Receive, CheckBackground, Announce, Connect
  <2>8. CASE OpenFails \/ LinkUp \/ Handshake \/ SaveKey \/ SaveFlag \/ Fail \/ Quiet
    BY <2>1, <2>8, NothingStored DEF OpenFails, LinkUp, Handshake, SaveKey, SaveFlag, Fail, Quiet
  <2>9. CASE Close("worker") \/ TakeSnapshot("worker") \/ Push("worker")
    BY <2>1, <2>9, NothingStored DEF Close, TakeSnapshot, Push
  <2> QED
    BY <1>2, <2>3, <2>4, <2>5, <2>6, <2>7, <2>8, <2>9 DEF WorkerStep
<1> QED  BY <1>1, <1>2

-----------------------------------------------------------------------------
(* The refinement. *)

\* ControlLoop implements SlotLifecycle: whatever the tasks do between one
\* another's stores, every step is a step of the documented life of one slot,
\* an end of hunts, or none (vernier-adapter.h:38-92).
THEOREM ControlLoopImplementsLifecycle == Spec => LifecycleImplemented
<1> DEFINE Inv == BaseInv /\ ConnInv /\ ReadyInv /\ DisarmInv /\ HuntInv /\ ReleaseInv
<1>1. Init => Lifecycle!Init
  <2> SUFFICES ASSUME Init PROVE Lifecycle!Init
    OBVIOUS
  <2>1. connState = [s \in Slots |-> "IDLE"] /\ reconnect = [s \in Slots |-> "OFF"]
    BY DEF Init, AdapterInit
  <2>2. pc["loop"] = "start" /\ pc["worker"] = "receive"
    BY DEF Init, Tasks
  <2>3. Hunt = [s \in Slots |-> "OFF"]
    BY <2>1, <2>2 DEF Hunt, EndsHunt, StartsHunt
  <2> QED  BY <2>1, <2>3 DEF Lifecycle!Init
<1>2. Init => Inv
  <2>1. Init => ConnInv
    BY DEF Init, AdapterInit, ConnInv
  <2>2. Init => ReleaseInv
    BY DEF Init, Tasks, ReleaseInv
  <2> QED  BY <2>1, <2>2, BaseInit, ReadyInit, DisarmInit, HuntInit
<1>3. Inv /\ [Next]_vars => Inv'
  <2>1. CASE Next
    BY <2>1, BaseStep, ConnStep, ReadyStep, DisarmStep, HuntStep, ReleaseStep
  <2>2. CASE UNCHANGED vars
    <3>1. DisarmInv /\ HuntInv /\ ReleaseInv => DisarmInv' /\ HuntInv' /\ ReleaseInv'
      BY <2>2 DEF vars, adapterVars, taskVars, otherVars, storeVars, DisarmInv, HuntInv,
         Releasing, ReleaseInv
    <3> QED  BY <2>2, <3>1, BaseStep, ConnStep, ReadyStep
  <2> QED  BY <2>1, <2>2
<1>4. Inv /\ [Next]_vars => [Lifecycle!Next]_(Lifecycle!lifecycleVars)
  <2>1. ASSUME Inv, Next PROVE Step
    <3>1. CASE LoopStep
      BY <2>1, <3>1, LoopRefines
    <3>2. CASE WorkerStep
      BY <2>1, <3>2, WorkerRefines
    <3>3. CASE dispatchHostCommand \/ UartStep \/ \E s \in Slots : LoseLink(s)
      BY <2>1, <3>3, UartRefines DEF BaseInv
    <3> QED  BY <2>1, <3>1, <3>2, <3>3 DEF Next
  <2>2. ASSUME UNCHANGED vars PROVE UNCHANGED Lifecycle!lifecycleVars
    BY <2>2 DEF vars, adapterVars, taskVars, Hunt, EndsHunt, StartsHunt,
       Lifecycle!lifecycleVars
  <2> QED  BY <2>1, <2>2 DEF Step, Lifecycle!lifecycleVars
<1> QED
  BY <1>1, <1>2, <1>3, <1>4, PTL DEF Spec, LifecycleImplemented, Lifecycle!Spec

-----------------------------------------------------------------------------
(* AdoptionSettled. *)

\* A task comes to the closing half of a teardown through its lock alone.
Torn == {"close", "setIdle"}
TornFrom(t) ==
    pc'[t] \in Torn =>
        /\ at'[t] = at[t]
        /\ pc[t] \in Torn \/ Lock(t) \/ (t = "loop" /\ ReleaseLock)

LEMMA AwayFromTorn ==
  ASSUME NEW u \in Tasks, NEW t \in Tasks,
         \A v \in Tasks \ {u} : pc'[v] = pc[v] /\ at'[v] = at[v], pc'[u] \notin Torn
  PROVE  TornFrom(t)
BY DEF TornFrom

LEMMA ContinueNotTorn ==
  ASSUME TaskTypeOK, NEW b \in BOOLEAN, ContinueWith(b)
  PROVE  /\ \A v \in Tasks \ {"loop"} : pc'[v] = pc[v] /\ at'[v] = at[v]
         /\ pc'["loop"] \notin Torn
BY ContinueMoves DEF Moved, LoopStops, Torn

LEMMA TornThroughLock ==
  ASSUME TypeOK, Next, NEW t \in Tasks
  PROVE  TornFrom(t)
<1> USE DEF Goto, GotoWith, Begin, UartRest, LoopRest, WorkerRest, TypeOK, TaskTypeOK,
        Tasks, Here, Torn
<1>1. ASSUME NEW u \in {"uart", "loop"}, Adopt(u) \/ ClaimWon(u)
      PROVE  TornFrom(t)
  BY <1>1, AwayFromTorn DEF Adopt, ClaimWon
<1>2. ASSUME NEW u \in {"uart", "loop"}, ClaimLost(u) \/ Send(u)
      PROVE  TornFrom(t)
  BY <1>2, AwayFromTorn, ContinueNotTorn DEF ClaimLost, Send, Return
<1>3. ASSUME NEW u \in Tasks, TakeSnapshot(u)
      PROVE  TornFrom(t)
  BY <1>3, AwayFromTorn DEF TakeSnapshot
<1>4. ASSUME NEW u \in Tasks, Push(u)
      PROVE  TornFrom(t)
  BY <1>4, AwayFromTorn, ContinueNotTorn DEF Push, AfterPush
<1>5. ASSUME NEW u \in Tasks, Lock(u) \/ Close(u)
      PROVE  TornFrom(t)
  BY <1>5 DEF Lock, Close, TornFrom
<1>6. ASSUME NEW u \in Tasks, SetIdle(u)
      PROVE  TornFrom(t)
  BY <1>6, AwayFromTorn, ContinueNotTorn DEF SetIdle, Continue, UartOps, WorkerOps
<1>7. CASE dispatchHostCommand
  <2>1. CASE UNCHANGED taskVars
    BY <2>1 DEF taskVars, TornFrom
  <2>2. CASE ~UNCHANGED taskVars
    BY <1>7, <2>2, AwayFromTorn DEF dispatchHostCommand, cmdConnect, cmdDisconnect, cmdForget,
       cmdDevList, cmdCancelConnect, cmdSetPeriod
  <2> QED  BY <2>1, <2>2
<1>8. CASE ForgetDisarm \/ ForgetKey \/ ForgetFlag \/ CancelRearm
  BY <1>8, AwayFromTorn DEF ForgetDisarm, ForgetKey, ForgetFlag, CancelRearm
<1>9. CASE AutoStart \/ NoAutoStart \/ AutoSlot \/ ReleaseRead \/ BusyScan
  BY <1>9, AwayFromTorn, ContinueNotTorn
  DEF AutoStart, NoAutoStart, AutoSlot, ReleaseRead, BusyScan, Continue
<1>10. CASE ReleaseLock
  <2>1. CASE Goto("loop", "close")
    BY <1>10, <2>1 DEF TornFrom
  <2>2. CASE ContinueWith(FALSE)
    BY <2>2, AwayFromTorn, ContinueNotTorn
  <2> QED  BY <1>10, <2>1, <2>2 DEF ReleaseLock
<1>11. CASE ReleaseIdle \/ ReleaseArm
  BY <1>11, AwayFromTorn DEF ReleaseIdle, ReleaseArm
<1>12. CASE SchedNotArmed \/ SchedInFlight \/ SchedWait \/ SchedGiveUp \/ SchedDue
            \/ GiveUp
  BY <1>12, AwayFromTorn, ContinueNotTorn
  DEF SchedNotArmed, SchedInFlight, SchedWait, SchedGiveUp, SchedDue, SchedResting,
      SchedulePass, GiveUp, Continue
<1>13. CASE ButtonQuiet \/ ButtonPress \/ ButtonLongPress \/ HoldSlot \/ HoldDisarm
  BY <1>13, AwayFromTorn, ContinueNotTorn
  DEF ButtonQuiet, ButtonPress, ButtonLongPress, HoldSlot, HoldDisarm, Continue
<1>14. CASE \E r \in Slots : LoseLink(r)
  BY <1>14 DEF LoseLink, taskVars, TornFrom
<1> USE DEF WorkerGoto
<1>15. CASE Receive \/ Acquire \/ CheckBackground \/ Drop \/ Announce
  BY <1>15, AwayFromTorn DEF Receive, Acquire, CheckBackground, Drop, Announce
<1>16. CASE Connect \/ OpenFails \/ LinkUp \/ Handshake
  BY <1>16, AwayFromTorn DEF Connect, OpenFails, LinkUp, Handshake
<1>17. CASE Finish \/ ReadyOff \/ SaveKey \/ SaveFlag \/ DisarmOthers
  BY <1>17, AwayFromTorn DEF Finish, ReadyOff, SaveKey, SaveFlag, DisarmOthers
<1>18. CASE Fail \/ ArmLock \/ ArmSet \/ FailIdle \/ Rearm \/ Quiet
  BY <1>18, AwayFromTorn DEF Fail, ArmLock, ArmSet, FailIdle, Rearm, Quiet
<1> HIDE DEF Goto, GotoWith, Begin, UartRest, LoopRest, WorkerRest, TypeOK, TaskTypeOK,
        Tasks, Here, Torn, WorkerGoto
<1> QED
  BY <1>1, <1>2, <1>3, <1>4, <1>5, <1>6, <1>7, <1>8, <1>9, <1>10, <1>11, <1>12, <1>13,
     <1>14, <1>15, <1>16, <1>17, <1>18
  DEF Next, UartStep, LoopStep, WorkerStep, Tasks

\* The worker is on its way from the claim of slot s to READY, or gives up.
Onto(s) ==
    /\ at["worker"] = s
    /\ \/ pc["worker"] \in {"checkBackground", "announce", "connect", "scan", "handshake",
                            "finish", "lock"}
       \/ pc["worker"] \in {"list", "push"} /\ op["worker"] = "announce"

\* Nobody looks for the sensor of a slot that is being torn down, nor for that of
\* a slot that was torn down while the worker connected it; no loss arms it, for
\* it has not been READY since.
TornOff == \A t \in Tasks : pc[t] \in Torn => reconnect[at[t]] = "OFF"

AbandonOff ==
    \A s \in Slots :
        Onto(s) /\ connState[s] # "CONNECTING" =>
            reconnect[s] = "OFF" /\ ~(pc["loop"] = "arm" /\ at["loop"] = s)

\* Who arms a slot is in no teardown of it.
LEMMA ArmsAlone ==
  ASSUME BaseInv, NEW s \in Slots, Arms(s), NEW t \in Tasks, pc[t] \in Torn
  PROVE  at[t] # s
<1> USE DEF BaseInv, LockInv, HoldPcs, Torn, Tasks, Here
<1>1. CASE ReleaseArm /\ at["loop"] = s
  BY <1>1 DEF ReleaseArm
<1>2. CASE ArmSet /\ at["worker"] = s
  BY <1>2 DEF ArmSet
<1> QED  BY <1>1, <1>2 DEF Arms

LEMMA LockDisarms ==
  ASSUME BaseInv, ConnInv, AbandonOff, NEW t \in Tasks, Lock(t)
  PROVE  reconnect'[at[t]] = "OFF"
<1>1. at[t] \in Slots
  BY DEF BaseInv, TypeOK, TaskTypeOK
<1>2. CASE op[t] # "abandon"
  BY <1>1, <1>2 DEF Lock, setReconnectState, BaseInv, TypeOK, AdapterTypeOK
<1>3. CASE op[t] = "abandon"
  <2>1. t = "worker" /\ pc["worker"] = "lock"
    BY <1>3 DEF Lock, Here, BaseInv, TypeOK, TaskTypeOK, UartOps, LoopOps, Tasks
  <2>2. connState[at[t]] # "CONNECTING"
    BY <1>1, <2>1 DEF ConnInv, WorkerOn
  <2>3. reconnect[at[t]] = "OFF"
    BY <1>1, <2>1, <2>2 DEF AbandonOff, Onto
  <2> QED  BY <1>3, <2>3 DEF Lock
<1> QED  BY <1>2, <1>3

LEMMA TornStep ==
  ASSUME BaseInv, ConnInv, DisarmInv, TornOff, AbandonOff, Next
  PROVE  TornOff'
<1> SUFFICES ASSUME NEW t \in Tasks, pc'[t] \in Torn
             PROVE  reconnect'[at'[t]] = "OFF"
  BY DEF TornOff
<1>1. at'[t] = at[t] /\ at[t] \in Slots
  BY TornThroughLock DEF TornFrom, BaseInv, TypeOK, TaskTypeOK
<1>2. CASE pc[t] \in Torn
  <2>1. ~Arms(at[t])
    BY <1>1, <1>2, ArmsAlone
  <2> QED  BY <1>1, <1>2, <2>1, OnlyArmsLeaveOff DEF TornOff, BaseInv
<1>3. CASE Lock(t)
  BY <1>1, <1>3, LockDisarms
<1>4. CASE t = "loop" /\ ReleaseLock /\ pc[t] \notin Torn
  <2>1. LinkLost(at[t]) /\ reconnect' = reconnect
    BY <1>4, ContinueNotTorn DEF ReleaseLock, LoopSlot, BaseInv, TypeOK
  <2>2. lifecycle[at[t]] = Free
    BY <1>4 DEF ReleaseLock, LoopSlot
  <2>3. ~(at["worker"] = at[t] /\ pc["worker"] = "readyOff")
    BY <1>1, <2>2, FreeAssumption DEF BaseInv, LockInv, HoldPcs, Tasks
  <2> QED  BY <1>1, <2>1, <2>3 DEF LinkLost, isReady, DisarmInv
<1> QED  BY <1>2, <1>3, <1>4, TornThroughLock DEF TornFrom, BaseInv

\* Only the list before a connect is the announcement of one.
AnnounceInv == pc["worker"] \notin {"list", "push", "connect"} => op["worker"] # "announce"

LEMMA AnnounceStep ==
  ASSUME TypeOK, AnnounceInv, Next
  PROVE  AnnounceInv'
<1>1. CASE OtherStep
  BY <1>1, WorkerStays DEF WorkerKept, AnnounceInv
<1>2. CASE WorkerStep
  <2> USE DEF AnnounceInv, TypeOK, TaskTypeOK, Tasks, Here, Goto, Begin, WorkerRest, WorkerGoto
  <2>1. CASE Receive \/ Acquire \/ CheckBackground \/ Drop \/ Announce
    BY <2>1 DEF Receive, Acquire, CheckBackground, Drop, Announce
  <2>2. CASE Connect \/ OpenFails \/ LinkUp \/ Handshake
    BY <2>2 DEF Connect, OpenFails, LinkUp, Handshake
  <2>3. CASE Finish \/ ReadyOff \/ SaveKey \/ SaveFlag \/ DisarmOthers
    BY <2>3 DEF Finish, ReadyOff, SaveKey, SaveFlag, DisarmOthers
  <2>4. CASE Fail \/ ArmLock \/ ArmSet \/ FailIdle \/ Rearm \/ Quiet
    BY <2>4 DEF Fail, ArmLock, ArmSet, FailIdle, Rearm, Quiet
  <2>5. CASE Lock("worker") \/ Close("worker") \/ TakeSnapshot("worker")
    BY <2>5 DEF Lock, Close, TakeSnapshot
  <2>6. CASE SetIdle("worker")
    BY <2>6 DEF SetIdle, WorkerOps
  <2>7. CASE Push("worker")
    BY <2>7 DEF Push, AfterPush
  <2> QED  BY <1>2, <2>1, <2>2, <2>3, <2>4, <2>5, <2>6, <2>7 DEF WorkerStep
<1> QED  BY <1>1, <1>2 DEF Next, OtherStep

\* The worker comes onto a slot by claiming it and stays on it to the end.
LEMMA OntoByClaim ==
  ASSUME TypeOK, AnnounceInv, WorkerStep, NEW s \in Slots, Onto(s)'
  PROVE  Onto(s) \/ connState'[s] = "CONNECTING"
<1> USE DEF Onto, TypeOK, AdapterTypeOK, TaskTypeOK, Tasks, Here, Goto, Begin, WorkerRest,
        WorkerGoto, WorkerSlot, setState, AnnounceInv
<1>1. CASE Receive \/ CheckBackground \/ Announce
  BY <1>1 DEF Receive, CheckBackground, Announce
<1>2. CASE Acquire
  BY <1>2 DEF Acquire, tryAcquireConnecting
<1>3. CASE Drop \/ FailIdle
  BY <1>3 DEF Drop, FailIdle
<1>4. CASE Connect \/ OpenFails \/ LinkUp \/ Handshake
  BY <1>4 DEF Connect, OpenFails, LinkUp, Handshake
<1>5. CASE Finish
  BY <1>5 DEF Finish
<1>6. CASE ReadyOff \/ SaveKey \/ SaveFlag \/ DisarmOthers
  BY <1>6 DEF ReadyOff, SaveKey, SaveFlag, DisarmOthers
<1>7. CASE Fail \/ ArmLock \/ ArmSet
  BY <1>7 DEF Fail, ArmLock, ArmSet
<1>8. CASE Rearm \/ Quiet
  BY <1>8 DEF Rearm, Quiet
<1>9. CASE Lock("worker") \/ Close("worker") \/ TakeSnapshot("worker")
  BY <1>9 DEF Lock, Close, TakeSnapshot
<1>10. CASE SetIdle("worker")
  BY <1>10 DEF SetIdle, WorkerOps
<1>11. CASE Push("worker")
  BY <1>11 DEF Push, AfterPush
<1> QED
  BY <1>1, <1>2, <1>3, <1>4, <1>5, <1>6, <1>7, <1>8, <1>9, <1>10, <1>11 DEF WorkerStep

\* While it is on the slot the claim is its own to end.
LEMMA OntoKeepsClaim ==
  ASSUME TypeOK, WorkerStep, NEW s \in Slots, Onto(s), Onto(s)', connState[s] = "CONNECTING"
  PROVE  connState'[s] = "CONNECTING"
<1>1. CASE connState' = connState
  BY <1>1
<1>2. ~(Acquire \/ Drop \/ SetIdle("worker") \/ ArmLock \/ FailIdle)
  BY DEF Onto, Here, Acquire, Drop, SetIdle, ArmLock, FailIdle
<1>3. ~Finish
  BY DEF Onto, Here, Finish, WorkerSlot, WorkerGoto, Goto, TypeOK, TaskTypeOK, Tasks
<1> USE DEF adapterVars, notReconnect, notSession
<1>4. Receive \/ CheckBackground \/ Announce \/ Connect \/ OpenFails \/ LinkUp \/ Handshake
      => connState' = connState
  BY DEF Receive, CheckBackground, Announce, Connect, OpenFails, LinkUp, Handshake
<1>5. ReadyOff \/ SaveKey \/ SaveFlag \/ DisarmOthers \/ Fail \/ ArmSet \/ Rearm \/ Quiet
      => connState' = connState
  BY DEF ReadyOff, SaveKey, SaveFlag, DisarmOthers, Fail, ArmSet, Rearm, Quiet
<1>6. Lock("worker") \/ Close("worker") \/ TakeSnapshot("worker") \/ Push("worker")
      => connState' = connState
  BY DEF Lock, Close, TakeSnapshot, Push
<1> QED
  BY <1>1, <1>2, <1>3, <1>4, <1>5, <1>6 DEF WorkerStep

LEMMA AbandonStep ==
  ASSUME BaseInv, ReadyInv, ReleaseInv, AnnounceInv, TornOff, AbandonOff, Next
  PROVE  AbandonOff'
<1> SUFFICES ASSUME NEW s \in Slots, Onto(s)', connState'[s] # "CONNECTING"
             PROVE  /\ reconnect'[s] = "OFF"
                    /\ ~(pc'["loop"] = "arm" /\ at'["loop"] = s)
  BY DEF AbandonOff
<1>1. CASE Onto(s) /\ connState[s] # "CONNECTING"
  <2>1. reconnect[s] = "OFF" /\ ~(pc["loop"] = "arm" /\ at["loop"] = s)
    BY <1>1 DEF AbandonOff
  <2>2. ~Arms(s)
    BY <1>1, <2>1 DEF Arms, ReleaseArm, ArmSet, Onto, Here
  <2>3. CASE NotLoopStep
    BY <2>1, <2>2, <2>3, OnlyArmsLeaveOff, LoopStays DEF LoopKept, BaseInv
  <2>4. CASE LoopStep /\ pc'["loop"] = "arm" /\ at'["loop"] = s
    <3>1. ReleaseIdle
      BY <2>4, OnlyReleaseIdleLeadsToArm DEF BaseInv
    <3>2. connState[s] = "READY"
      BY <2>4, <3>1 DEF ReleaseIdle, Here, Goto, ReleaseInv
    <3>3. Attempting(s)
      BY <1>1 DEF Onto, Attempting
    <3> QED  BY <3>2, <3>3 DEF ReadyInv
  <2> QED  BY <2>1, <2>2, <2>3, <2>4, OnlyArmsLeaveOff DEF BaseInv, Next, NotLoopStep
<1>2. CASE OtherStep /\ connState[s] = "CONNECTING"
  <2>1. PICK t \in Tasks : at[t] = s /\ pc[t] = "setIdle"
    BY <1>2, OthersChangeState DEF OtherState, BaseInv
  <2>2. reconnect'[s] = "OFF"
    <3>1. reconnect[s] = "OFF" /\ ~Arms(s)
      BY <2>1, ArmsAlone DEF TornOff, Torn
    <3> QED  BY <3>1, OnlyArmsLeaveOff DEF BaseInv
  <2>3. ~(pc["loop"] = "arm" /\ at["loop"] = s)
    BY <2>1 DEF BaseInv, LockInv, HoldPcs, Tasks
  <2>4. CASE NotLoopStep
    BY <2>2, <2>3, <2>4, LoopStays DEF LoopKept, BaseInv
  <2>5. CASE LoopStep /\ pc'["loop"] = "arm" /\ at'["loop"] = s
    <3>1. ReleaseIdle
      BY <2>5, OnlyReleaseIdleLeadsToArm DEF BaseInv
    <3>2. connState[s] = "READY"
      BY <2>5, <3>1 DEF ReleaseIdle, Here, Goto, ReleaseInv
    <3> QED  BY <1>2, <3>2
  <2> QED  BY <2>2, <2>4, <2>5 DEF Next, NotLoopStep
<1>3. CASE WorkerStep
  BY <1>1, <1>3, OntoByClaim, OntoKeepsClaim DEF BaseInv
<1>4. CASE OtherStep
  <2>1. WorkerKept
    BY <1>4, WorkerStays DEF BaseInv
  <2>2. Onto(s)
    BY <2>1 DEF WorkerKept, Onto
  <2> QED  BY <1>1, <1>2, <1>4, <2>2
<1> QED  BY <1>3, <1>4 DEF Next, OtherStep

\* A task that is about to claim a slot claims it, or finds it taken.
LEMMA ClaimEnds ==
  ASSUME TypeOK, Next, NEW t \in {"uart", "loop"}, pc[t] = "claim"
  PROVE  \/ pc'[t] = "claim" /\ at'[t] = at[t]
         \/ ClaimWon(t) \/ ClaimLost(t)
<1>1. CASE t = "uart" /\ (dispatchHostCommand \/ UartStep)
  BY <1>1 DEF dispatchHostCommand, cmdConnect, cmdDisconnect, cmdForget, cmdCancelConnect,
     cmdSetPeriod, cmdDevList, Command, UartStep, Here, Adopt, Send, Lock, Close, SetIdle,
     ForgetDisarm, ForgetKey, ForgetFlag, CancelRearm, TakeSnapshot, Push
<1>2. CASE t = "uart" /\ NotUartStep
  BY <1>2, UartStays DEF UartKept
<1>3. CASE t = "loop" /\ LoopStep
  BY <1>3 DEF LoopStep, Here, AutoStart, NoAutoStart, AutoSlot, ReleaseRead, ReleaseLock,
     ReleaseIdle, ReleaseArm, BusyScan, SchedNotArmed, SchedInFlight, SchedWait, SchedGiveUp,
     SchedDue, SchedResting, SchedulePass, GiveUp, ButtonQuiet, ButtonPress,
     ButtonLongPress, HoldSlot, HoldDisarm, Adopt, Send, Lock, Close, SetIdle,
     TakeSnapshot, Push
<1>4. CASE t = "loop" /\ NotLoopStep
  BY <1>4, LoopStays DEF LoopKept
<1> QED  BY <1>1, <1>2, <1>3, <1>4 DEF Next, NotUartStep, NotLoopStep

\* A cancelled request is followed by the re-arm of its slot.
LEMMA CancelEnds ==
  ASSUME TypeOK, Next, pc["uart"] = "cancelRearm"
  PROVE  \/ pc'["uart"] = "cancelRearm" /\ at'["uart"] = at["uart"]
         \/ reconnect'[at["uart"]] # "ADOPTED"
<1>1. CASE dispatchHostCommand \/ UartStep
  <2>1. CancelRearm
    BY <1>1 DEF dispatchHostCommand, cmdConnect, cmdDisconnect, cmdForget, cmdCancelConnect,
       cmdSetPeriod, cmdDevList, Command, UartStep, Here, Adopt, ClaimWon, ClaimLost, Send,
       Lock, Close, SetIdle, ForgetDisarm, ForgetKey, ForgetFlag, TakeSnapshot, Push
  <2> QED
    BY <2>1 DEF CancelRearm, tryRearmAdoptedReconnect, setReconnectState, TypeOK,
       AdapterTypeOK, TaskTypeOK, Tasks
<1>2. CASE NotUartStep
  BY <1>2, UartStays DEF UartKept
<1> QED  BY <1>1, <1>2 DEF Next, NotUartStep

\* The worker's places at which an adopted reconnect is settled.
SettlePcs == {"readyOff", "armSet", "failIdle", "rearm"}

LEMMA WorkerSettles ==
  ASSUME TypeOK, Next, pc["worker"] \in SettlePcs
  PROVE  \/ pc'["worker"] \in SettlePcs /\ at'["worker"] = at["worker"]
         \/ reconnect'[at["worker"]] # "ADOPTED"
<1> USE DEF SettlePcs
<1>1. CASE OtherStep
  BY <1>1, WorkerStays DEF WorkerKept
<1>2. CASE WorkerStep
  <2>1. ReadyOff \/ ArmSet \/ FailIdle \/ Rearm
    BY <1>2 DEF WorkerStep, Here, Receive, Acquire, CheckBackground, Drop, Announce, Connect,
       OpenFails, LinkUp, Handshake, Finish, SaveKey, SaveFlag, DisarmOthers, Fail, ArmLock,
       Quiet, Lock, Close, SetIdle, TakeSnapshot, Push
  <2> USE DEF WorkerGoto, Goto, WorkerSlot, setReconnectState, TypeOK, TaskTypeOK,
          AdapterTypeOK, Tasks
  <2>2. CASE ReadyOff
    BY <2>2 DEF ReadyOff
  <2>3. CASE ArmSet
    BY <2>3 DEF ArmSet
  <2>4. CASE FailIdle
    BY <2>4 DEF FailIdle
  <2>5. CASE Rearm
    BY <2>5 DEF Rearm, tryRearmAdoptedReconnect
  <2> QED  BY <2>1, <2>2, <2>3, <2>4, <2>5
<1> QED  BY <1>1, <1>2 DEF Next, OtherStep

\* A hunt is adopted by a task that claims the slot next.
LEMMA AdoptionClaims ==
  ASSUME TypeOK, Next, NEW s \in Slots, reconnect[s] # "ADOPTED", reconnect'[s] = "ADOPTED"
  PROVE  Settling(s)'
<1> USE DEF TypeOK, AdapterTypeOK, adapterVars, notConnState, notSession, notReconnect,
        setReconnectState
<1>1. ASSUME NEW t \in {"uart", "loop"}, Adopt(t)
      PROVE  Settling(s)'
  BY <1>1 DEF Adopt, tryAdoptReconnect, GotoWith, Settling, TaskTypeOK, Tasks
<1>2. ASSUME NEW t \in {"uart", "loop"} PROVE ~(ClaimWon(t) \/ ClaimLost(t) \/ Send(t))
  BY DEF ClaimWon, ClaimLost, Send
<1>3. ASSUME NEW t \in Tasks
      PROVE  ~(Lock(t) \/ Close(t) \/ SetIdle(t) \/ TakeSnapshot(t) \/ Push(t))
  BY DEF Lock, Close, SetIdle, TakeSnapshot, Push
<1>4. ~dispatchHostCommand
  BY DEF dispatchHostCommand, cmdConnect, cmdDisconnect, cmdForget, cmdDevList,
     cmdCancelConnect, cmdSetPeriod
<1>5. ~(ForgetDisarm \/ ForgetKey \/ ForgetFlag \/ CancelRearm)
  BY DEF ForgetDisarm, ForgetKey, ForgetFlag, CancelRearm, tryRearmAdoptedReconnect
<1>6. ~(AutoStart \/ NoAutoStart \/ AutoSlot \/ ReleaseRead \/ ReleaseLock \/ ReleaseIdle
        \/ ReleaseArm \/ BusyScan)
  BY DEF AutoStart, NoAutoStart, AutoSlot, ReleaseRead, ReleaseLock, ReleaseIdle, ReleaseArm,
     BusyScan
<1>7. ~(SchedNotArmed \/ SchedInFlight \/ SchedWait \/ SchedGiveUp \/ SchedDue \/ GiveUp)
  BY DEF SchedNotArmed, SchedInFlight, SchedWait, SchedGiveUp, SchedDue, SchedResting,
     SchedulePass, GiveUp, tryGiveUpReconnect
<1>8. ~(ButtonQuiet \/ ButtonPress \/ ButtonLongPress \/ HoldSlot \/ HoldDisarm)
  BY DEF ButtonQuiet, ButtonPress, ButtonLongPress, HoldSlot, HoldDisarm
<1>9. ~(\E r \in Slots : LoseLink(r))
  BY DEF LoseLink
<1>10. ~(Receive \/ Acquire \/ CheckBackground \/ Drop \/ Announce \/ Connect \/ OpenFails
         \/ LinkUp \/ Handshake \/ Finish \/ ReadyOff)
  BY DEF Receive, Acquire, CheckBackground, Drop, Announce, Connect, OpenFails, LinkUp,
     Handshake, Finish, ReadyOff
<1>11. ~(SaveKey \/ SaveFlag \/ DisarmOthers \/ Fail \/ ArmLock \/ ArmSet \/ FailIdle
         \/ Rearm \/ Quiet)
  BY DEF SaveKey, SaveFlag, DisarmOthers, Fail, ArmLock, ArmSet, FailIdle, Rearm, Quiet,
     tryRearmAdoptedReconnect
<1> QED
  BY <1>1, <1>2, <1>3, <1>4, <1>5, <1>6, <1>7, <1>8, <1>9, <1>10, <1>11
  DEF Next, UartStep, LoopStep, WorkerStep, Tasks

Attempted(s) == connState[s] \in {"REQUESTED", "CONNECTING"}

\* An attempt ends by a cancel, in a teardown, with the worker's connect or with
\* its drop of a stale request.
AttemptEnd(s) ==
    \/ Settling(s)'
    \/ \E t \in Tasks : at[t] = s /\ pc[t] = "setIdle"
    \/ at["worker"] = s /\ pc["worker"] = "drop"

LEMMA WorkerEndsAttempt ==
  ASSUME TypeOK, WorkerStep, NEW s \in Slots, Attempted(s), ~Attempted(s)'
  PROVE  AttemptEnd(s)
<1> USE DEF TypeOK, AdapterTypeOK, TaskTypeOK, Tasks, Attempted, adapterVars, notConnState,
        notReconnect, notSession, Here, WorkerSlot, WorkerGoto, Goto, setState
<1>1. CASE Acquire \/ Drop
  BY <1>1 DEF Acquire, tryAcquireConnecting, Drop, AttemptEnd
<1>2. CASE SetIdle("worker")
  BY <1>2 DEF SetIdle, AttemptEnd
<1>3. CASE Finish
  BY <1>3 DEF Finish, AttemptEnd, Settling
<1>4. CASE ArmLock \/ FailIdle
  BY <1>4 DEF ArmLock, FailIdle, AttemptEnd, Settling
<1>5. ~(Receive \/ CheckBackground \/ Announce \/ Connect \/ OpenFails \/ LinkUp \/ Handshake)
  BY DEF Receive, CheckBackground, Announce, Connect, OpenFails, LinkUp, Handshake
<1>6. ~(ReadyOff \/ SaveKey \/ SaveFlag \/ DisarmOthers \/ Fail \/ ArmSet \/ Rearm \/ Quiet)
  BY DEF ReadyOff, SaveKey, SaveFlag, DisarmOthers, Fail, ArmSet, Rearm, Quiet
<1>7. ~(Lock("worker") \/ Close("worker") \/ TakeSnapshot("worker") \/ Push("worker"))
  BY DEF Lock, Close, TakeSnapshot, Push
<1> QED  BY <1>1, <1>2, <1>3, <1>4, <1>5, <1>6, <1>7 DEF WorkerStep

LEMMA OthersEndAttempt ==
  ASSUME TypeOK, OtherStep, NEW s \in Slots, Attempted(s), ~Attempted(s)'
  PROVE  AttemptEnd(s)
<1> USE DEF TypeOK, AdapterTypeOK, TaskTypeOK, Tasks, Attempted, adapterVars, notConnState,
        notReconnect, notSession, setState
<1>1. CASE cmdCancelConnect
  BY <1>1 DEF cmdCancelConnect, tryCancelConnect, Begin, AttemptEnd, Settling
<1>2. ~(cmdConnect \/ cmdDisconnect \/ cmdForget \/ cmdSetPeriod \/ cmdDevList)
  BY DEF cmdConnect, cmdDisconnect, cmdForget, cmdSetPeriod, cmdDevList
<1>3. ASSUME NEW t \in {"uart", "loop"}, ClaimWon(t)
      PROVE  FALSE
  BY <1>3 DEF ClaimWon, tryRequestConnect
<1>4. ASSUME NEW t \in {"uart", "loop"}, SetIdle(t)
      PROVE  AttemptEnd(s)
  BY <1>4 DEF SetIdle, Here, AttemptEnd
<1>5. CASE ReleaseIdle
  BY <1>5 DEF ReleaseIdle, LoopSlot, Here, AttemptEnd
<1>6. ASSUME NEW t \in {"uart", "loop"}
      PROVE  ~(Adopt(t) \/ ClaimLost(t) \/ Send(t) \/ Lock(t) \/ Close(t) \/ TakeSnapshot(t)
               \/ Push(t))
  BY DEF Adopt, ClaimLost, Send, Lock, Close, TakeSnapshot, Push
<1>7. ~(ForgetDisarm \/ ForgetKey \/ ForgetFlag \/ CancelRearm)
  BY DEF ForgetDisarm, ForgetKey, ForgetFlag, CancelRearm
<1>8. ~(AutoStart \/ NoAutoStart \/ AutoSlot \/ ReleaseRead \/ ReleaseLock \/ ReleaseArm
        \/ BusyScan)
  BY DEF AutoStart, NoAutoStart, AutoSlot, ReleaseRead, ReleaseLock, ReleaseArm, BusyScan
<1>9. ~(SchedNotArmed \/ SchedInFlight \/ SchedWait \/ SchedGiveUp \/ SchedDue \/ GiveUp)
  BY DEF SchedNotArmed, SchedInFlight, SchedWait, SchedGiveUp, SchedDue, SchedResting,
     SchedulePass, GiveUp
<1>10. ~(ButtonQuiet \/ ButtonPress \/ ButtonLongPress \/ HoldSlot \/ HoldDisarm)
  BY DEF ButtonQuiet, ButtonPress, ButtonLongPress, HoldSlot, HoldDisarm
<1>11. ~(\E r \in Slots : LoseLink(r))
  BY DEF LoseLink
<1> QED
  BY <1>1, <1>2, <1>3, <1>4, <1>5, <1>6, <1>7, <1>8, <1>9, <1>10, <1>11
  DEF OtherStep, dispatchHostCommand, UartStep, LoopStep

\* Who settles an adopted reconnect does so, or hands it on.
LEMMA SettlersSettle ==
  ASSUME BaseInv, DisarmInv, Next, NEW s \in Slots, Settling(s), reconnect'[s] = "ADOPTED",
         ~Attempted(s)'
  PROVE  Settling(s)'
<1> USE DEF BaseInv
<1>1. PICK t \in Tasks :
         /\ at[t] = s
         /\ \/ pc[t] = "claim" /\ t \in {"uart", "loop"}
            \/ pc[t] = "cancelRearm" /\ t = "uart"
            \/ pc[t] \in SettlePcs /\ t = "worker"
  BY DEF Settling, SettlePcs, TypeOK, TaskTypeOK, Tasks, UartPcs, LoopPcs, WorkerPcs
<1>2. CASE pc[t] = "claim" /\ t \in {"uart", "loop"}
  <2>1. CASE pc'[t] = "claim" /\ at'[t] = at[t]
    BY <1>1, <2>1 DEF Settling
  <2>2. CASE ClaimWon(t)
    BY <1>1, <1>2, <2>2 DEF ClaimWon, tryRequestConnect, setState, Attempted, TypeOK, AdapterTypeOK
  <2>3. CASE ClaimLost(t)
    <3>1. connState[s] = "READY" /\ reconnect[s] = "ADOPTED"
      BY <1>1, <1>2, <2>3
      DEF ClaimLost, isSlotOccupied, adapterVars, Attempted, TypeOK, AdapterTypeOK, ConnStates
    <3>2. at["worker"] = s /\ pc["worker"] = "readyOff"
      BY <3>1 DEF DisarmInv
    <3>3. WorkerKept
      <4>1. OtherStep
        BY <1>2, <2>3 DEF OtherStep, UartStep, LoopStep
      <4> QED  BY <4>1, WorkerStays
    <3> QED  BY <3>2, <3>3 DEF WorkerKept, Settling
  <2> QED  BY <1>2, <2>1, <2>2, <2>3, ClaimEnds
<1>3. CASE pc[t] = "cancelRearm" /\ t = "uart"
  BY <1>1, <1>3, CancelEnds DEF Settling
<1>4. CASE pc[t] \in SettlePcs /\ t = "worker"
  BY <1>1, <1>4, WorkerSettles DEF Settling, SettlePcs
<1> QED  BY <1>1, <1>2, <1>3, <1>4

LEMMA AdoptionStep ==
  ASSUME BaseInv, DisarmInv, TornOff, Next, NEW s \in Slots, Stranded(s)',
         ~Stranded(s)
  PROVE  at["worker"] = s /\ pc["worker"] = "drop"
<1>1. reconnect'[s] = "ADOPTED" /\ ~Attempted(s)' /\ ~Settling(s)'
  BY DEF Stranded, Attempted
<1>2. reconnect[s] = "ADOPTED"
  BY <1>1, AdoptionClaims DEF BaseInv
<1>3. ~Settling(s)
  BY <1>1, SettlersSettle
<1>4. Attempted(s)
  BY <1>2, <1>3 DEF Stranded, Attempted
<1>5. AttemptEnd(s)
  BY <1>1, <1>4, WorkerEndsAttempt, OthersEndAttempt DEF BaseInv, Next, OtherStep
<1>6. ~(\E t \in Tasks : at[t] = s /\ pc[t] = "setIdle")
  BY <1>2 DEF TornOff, Torn
<1> QED  BY <1>1, <1>5, <1>6 DEF AttemptEnd

\* Whatever cancels, losses, teardowns and connects come together, a slot whose
\* hunt a user connect took over is not left ADOPTED with nobody to settle it but
\* by the drop of a stale background request (vernier-adapter.h:77-80,
\* control-loop.cpp:434-440).
THEOREM AdoptionsAreSettled == Spec => AdoptionSettled
<1> DEFINE Inv == /\ BaseInv /\ ConnInv /\ ReadyInv /\ DisarmInv /\ HuntInv /\ ReleaseInv
                  /\ AnnounceInv /\ TornOff /\ AbandonOff
           Settled == \A s \in Slots :
                         Stranded(s)' => Stranded(s) \/ (at["worker"] = s /\ pc["worker"] = "drop")
<1>1. Init => Inv
  <2>1. Init => ConnInv /\ ReleaseInv
    BY DEF Init, AdapterInit, Tasks, ConnInv, ReleaseInv
  <2>2. Init => AnnounceInv /\ TornOff /\ AbandonOff
    BY DEF Init, AdapterInit, Tasks, AnnounceInv, TornOff, AbandonOff, Torn, Onto
  <2> QED  BY <2>1, <2>2, BaseInit, ReadyInit, DisarmInit, HuntInit
<1>2. Inv /\ [Next]_vars => Inv'
  <2>1. CASE Next
    BY <2>1, BaseStep, ConnStep, ReadyStep, DisarmStep, HuntStep, ReleaseStep,
       AnnounceStep, TornStep, AbandonStep DEF BaseInv
  <2>2. CASE UNCHANGED vars
    <3>1. DisarmInv /\ HuntInv /\ ReleaseInv => DisarmInv' /\ HuntInv' /\ ReleaseInv'
      BY <2>2 DEF vars, adapterVars, taskVars, otherVars, storeVars, DisarmInv, HuntInv,
         Releasing, ReleaseInv
    <3>2. AnnounceInv /\ TornOff /\ AbandonOff => AnnounceInv' /\ TornOff' /\ AbandonOff'
      BY <2>2 DEF vars, adapterVars, taskVars, AnnounceInv, TornOff, AbandonOff, Onto
    <3> QED  BY <2>2, <3>1, <3>2, BaseStep, ConnStep, ReadyStep
  <2> QED  BY <2>1, <2>2
<1>3. Inv /\ [Next]_vars => [Settled]_vars
  BY AdoptionStep
<1> QED  BY <1>1, <1>2, <1>3, PTL DEF Spec, AdoptionSettled
=============================================================================

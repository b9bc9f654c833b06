--------------------------- MODULE SlotOperations ---------------------------
(***************************************************************************)
(* The operations several tasks run on a slot: a connect request           *)
(* (requestUserConnect, enqueueConnect), a teardown                        *)
(* (VernierAdapter::disconnect) and the push of the slot table             *)
(* (emitDevList).                                                          *)
(*                                                                         *)
(* An action is the code between two accesses to shared state: a load, a   *)
(* store, a compare-and-swap, a lock or a queue operation whose effect     *)
(* another task can see is a step of its own.                              *)
(***************************************************************************)
EXTENDS SharedState

-----------------------------------------------------------------------------
(* requestUserConnect() and enqueueConnect(): the uart and loop tasks. *)

\* ARMED -> ADOPTED, so that the attempt under way answers the user.
Adopt(t) ==
    /\ Here(t, "adopt")
    /\ \/ tryAdoptReconnect(at[t]) /\ GotoWith(t, "claim", TRUE)
       \/ /\ reconnect[at[t]] # "ARMED"
          /\ Goto(t, "claim")
          /\ UNCHANGED reconnect
    /\ UNCHANGED <<notReconnect, otherVars>>

\* IDLE -> REQUESTED: the slot is the caller's to queue a request for.
ClaimWon(t) ==
    /\ Here(t, "claim")
    /\ tryRequestConnect(at[t])
    /\ GotoWith(t, "send", FALSE)
    /\ UNCHANGED <<notConnState, otherVars>>

ByUser(o) == o \in {"CONNECT", "press"}

\* The caller goes on: to its next slot, or to its rest.
Return(t, b) == IF t = "loop" THEN ContinueWith(b) ELSE UartRest

\* The slot is taken.  A user connect that adopted the slot's background
\* reconnect took that attempt over and pushes a list; any other is dropped.
ClaimLost(t) ==
    /\ Here(t, "claim")
    /\ isSlotOccupied(at[t])
    /\ IF ByUser(op[t]) /\ flag[t] THEN GotoWith(t, "list", FALSE)
                                   ELSE Return(t, FALSE)
    /\ UNCHANGED <<adapterVars, otherVars>>

Origin(o) ==
    CASE o = "boot" -> "BOOT"
      [] o = "sched" -> "BACKGROUND"
      [] OTHER -> "USER"

Request(t) ==
    [slot |-> at[t], force |-> ByUser(op[t]), origin |-> Origin(op[t])]

\* The queue is created with VERNIER_MAX_SLOTS entries.
HasRoom == Len(queue) < MaxSlots

\* MUTANT: xQueueOverwrite() in place of xQueueSend().
Overwritten(t) == <<Request(t)>>

Enqueued(t) == IF HasRoom THEN Append(queue, Request(t)) ELSE queue

\* xQueueSend() with no timeout.  Its result is only asserted on, and
\* configASSERT is a no-op in the release build: when the queue is full the
\* request is lost and the caller reports success all the same.
Send(t) ==
    /\ Here(t, "send")
    /\ queue' = Enqueued(t)
    /\ overflowed' = (overflowed \/ ~HasRoom)
    /\ inFlight' = IF op[t] = "sched" THEN [inFlight EXCEPT ![at[t]] = TRUE]
                                      ELSE inFlight
    /\ Return(t, op[t] = "sched")
    /\ UNCHANGED <<adapterVars, req, seen, storeVars, autoVars, listVars,
                   inputVars>>

-----------------------------------------------------------------------------
(* VernierAdapter::disconnect() and the teardown() inside it: every task. *)

\* disconnect(disarm) ends the background reconnect under the lock; only the
\* worker, which abandons a connect, calls it with disarm = false.
Lock(t) ==
    /\ Here(t, "lock")
    /\ lockLifecycle(at[t], t)
    /\ IF op[t] = "abandon" THEN UNCHANGED reconnect
                            ELSE setReconnectState(at[t], "OFF")
    /\ Goto(t, "close")
    /\ UNCHANGED <<connState, link, sensor, openDevice, otherVars>>

Close(t) ==
    /\ Here(t, "close")
    /\ closeSession(at[t])
    /\ Goto(t, "setIdle")
    /\ UNCHANGED <<notSession, otherVars>>

\* The end of a disconnect(): the slot is IDLE and the lock is given back.
SetIdle(t) ==
    /\ Here(t, "setIdle")
    /\ op[t] # "release"
    /\ setState(at[t], "IDLE")
    /\ unlockLifecycle(at[t])
    /\ CASE op[t] = "FORGET" -> Goto(t, "forgetKey")
         [] op[t] = "hold" -> Continue
         [] OTHER -> Goto(t, "list")
    /\ UNCHANGED <<reconnect, link, sensor, openDevice, otherVars>>

-----------------------------------------------------------------------------
(* emitDevList(): the snapshot and the send are one critical section.      *)

\* A slot that waits for its lost sensor is listed IDLE.
Listed(s) ==
    IF connState[s] # "READY" /\ reconnect[s] = "ARMED" THEN "IDLE"
                                                        ELSE connState[s]

\* MUTANT: the snapshot is taken without the mutex.
ignoreDevListMutex(t) == devListMutex' = t

takeDevListMutex(t) == devListMutex = Free /\ devListMutex' = t

TakeSnapshot(t) ==
    /\ Here(t, "list")
    /\ takeDevListMutex(t)
    /\ snapshot' = [snapshot EXCEPT ![t] = [s \in Slots |-> Listed(s)]]
    /\ Goto(t, "push")
    /\ UNCHANGED <<adapterVars, requestVars, storeVars, autoVars, hostView,
                   scheduleVars, inputVars>>

\* What each task does behind its T_DEV_LIST.
AfterPush(t) ==
    IF t = "uart" THEN UartRest /\ UNCHANGED req
    ELSE IF t = "loop"
    THEN /\ IF op[t] = "release" THEN ContinueWith(FALSE) ELSE LoopRest
         /\ UNCHANGED req
    ELSE IF op[t] = "announce" THEN Goto(t, "connect") /\ UNCHANGED req
                               ELSE WorkerRest

Push(t) ==
    /\ Here(t, "push")
    /\ hostView' = snapshot[t]
    /\ snapshot' = [snapshot EXCEPT ![t] = NoView]
    /\ devListMutex' = Free
    /\ AfterPush(t)
    /\ UNCHANGED <<adapterVars, queue, overflowed, storeVars, autoVars,
                   scheduleVars, inputVars>>

=============================================================================

---------------------------- MODULE HostCommands ----------------------------
(***************************************************************************)
(* The uart task: dispatchHostCommand() and its handlers.  A command that  *)
(* is refused for an argument out of range changes nothing and is left     *)
(* out; T_ACKs are left out, they change no state of the firmware.         *)
(***************************************************************************)
EXTENDS SlotOperations

\* A command of the host is dispatched: it starts operation `label`.
Command(c) ==
    /\ Here("uart", "poll")
    /\ c \in Commands
    /\ cmds < MaxCmds
    /\ cmds' = cmds + 1
    /\ UNCHANGED <<notInput, button, presses, losses>>

\* The slot is the host's choice, or firstFreeSlot()'s, which is one of them.
cmdConnect ==
    /\ Command("CONNECT")
    /\ \E s \in Slots : Begin("uart", "adopt", "CONNECT", s)
    /\ UNCHANGED adapterVars

cmdDisconnect ==
    /\ Command("DISCONNECT")
    /\ \E s \in Slots : Begin("uart", "lock", "DISCONNECT", s)
    /\ UNCHANGED adapterVars

\* With nothing saved and nothing connected the slot is only disarmed.
cmdForget ==
    /\ Command("FORGET")
    /\ \E s \in Slots :
          Begin("uart", IF ~saved[s] /\ ~isSlotOccupied(s) THEN "forgetDisarm"
                                                           ELSE "lock",
                "FORGET", s)
    /\ UNCHANGED adapterVars

ForgetDisarm ==
    /\ Here("uart", "forgetDisarm")
    /\ setReconnectState(at["uart"], "OFF")
    /\ Goto("uart", "list")
    /\ UNCHANGED <<notReconnect, otherVars>>

\* preferences.remove(key), after the disconnect(true) of SlotOperations.
ForgetKey ==
    /\ Here("uart", "forgetKey")
    /\ nvs' = [nvs EXCEPT ![at["uart"]] = Proximity]
    /\ Goto("uart", "forgetFlag")
    /\ UNCHANGED <<adapterVars, notStore, saved, foundSaved>>

ForgetFlag ==
    /\ Here("uart", "forgetFlag")
    /\ saved' = [saved EXCEPT ![at["uart"]] = FALSE]
    /\ Goto("uart", "list")
    /\ UNCHANGED <<adapterVars, notStore, nvs, foundSaved>>

\* Only a request the worker has not taken yet can be cancelled.  Its entry
\* stays in the queue.
cmdCancelConnect ==
    /\ Command("CANCEL_CONNECT")
    /\ \E s \in Slots :
          \/ /\ tryCancelConnect(s)
             /\ Begin("uart", "cancelRearm", "CANCEL_CONNECT", s)
          \/ connState[s] # "REQUESTED" /\ UNCHANGED <<connState, taskVars>>
    /\ UNCHANGED notConnState

\* MUTANT: a cancelled user connect does not give the hunt back.
CancelKeepsAdopted ==
    /\ Here("uart", "cancelRearm")
    /\ Goto("uart", "list")
    /\ UNCHANGED <<adapterVars, otherVars>>

CancelRearm ==
    /\ Here("uart", "cancelRearm")
    /\ \/ tryRearmAdoptedReconnect(at["uart"])
       \/ reconnect[at["uart"]] # "ADOPTED" /\ UNCHANGED reconnect
    /\ Goto("uart", "list")
    /\ UNCHANGED <<notReconnect, otherVars>>

\* C_SET_PERIOD also asks for an auto-connect pass once something is saved.
cmdSetPeriod ==
    /\ Here("uart", "poll")
    /\ "SET_PERIOD" \in Commands
    /\ cmds < MaxCmds
    /\ cmds' = cmds + 1
    /\ startAuto' = (startAuto \/ foundSaved)
    /\ UNCHANGED <<adapterVars, taskVars, requestVars, storeVars, started,
                   listVars, scheduleVars, button, presses, losses>>

cmdDevList ==
    /\ Command("DEV_LIST")
    /\ Begin("uart", "list", "DEV_LIST", 0)
    /\ UNCHANGED adapterVars

dispatchHostCommand ==
    \/ cmdConnect \/ cmdDisconnect \/ cmdForget \/ cmdCancelConnect
    \/ cmdSetPeriod \/ cmdDevList

UartStep ==
    \/ Adopt("uart") \/ ClaimWon("uart") \/ ClaimLost("uart") \/ Send("uart")
    \/ Lock("uart") \/ Close("uart") \/ SetIdle("uart")
    \/ ForgetDisarm \/ ForgetKey \/ ForgetFlag \/ CancelRearm
    \/ TakeSnapshot("uart") \/ Push("uart")

=============================================================================

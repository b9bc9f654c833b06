--------------------------- MODULE SlotLifecycle ---------------------------
(***************************************************************************)
(* What the firmware promises of a slot, as the comments on ConnState and  *)
(* ReconnectState in include/vernier-adapter.h describe it: the states a   *)
(* slot goes through and when it is looked for, each change in one step.   *)
(* There are no tasks here, no locks, no queue and no half-done teardown.  *)
(* SlotRefinement says that ControlLoop implements it.                     *)
(***************************************************************************)

CONSTANT Slots

VARIABLES
    state,   \* IDLE, REQUESTED, CONNECTING or READY
    hunt     \* OFF, ARMED or ADOPTED: the background reconnect

lifecycleVars == <<state, hunt>>

Moves(s, from, to) ==
    /\ state[s] \in from
    /\ state' = [state EXCEPT ![s] = to]

Hunts(s, from, to) ==
    /\ hunt[s] \in from
    /\ hunt' = [hunt EXCEPT ![s] = to]

Init ==
    /\ state = [s \in Slots |-> "IDLE"]
    /\ hunt = [s \in Slots |-> "OFF"]

\* A connect is asked for, by the host, the button, the boot or the hunt.
Request(s) == Moves(s, {"IDLE"}, "REQUESTED") /\ UNCHANGED hunt

\* There is one BLE stack: no slot connects while another one does.
Start(s) ==
    /\ \A r \in Slots : state[r] # "CONNECTING"
    /\ Moves(s, {"REQUESTED"}, "CONNECTING")
    /\ UNCHANGED hunt

\* A sensor that is back is not looked for any more.
Succeed(s) ==
    /\ Moves(s, {"CONNECTING"}, "READY")
    /\ hunt' = [hunt EXCEPT ![s] = "OFF"]

\* A connect fails, is cancelled or is abandoned.
Fail(s) == Moves(s, {"REQUESTED", "CONNECTING"}, "IDLE") /\ UNCHANGED hunt

\* The boot connect of a saved sensor fails.
FailAtBoot(s) == Moves(s, {"CONNECTING"}, "IDLE") /\ Hunts(s, {"OFF"}, "ARMED")

\* A user ends the connection, or the link of a sensor without a name is lost.
End(s) == Moves(s, {"READY"}, "IDLE") /\ UNCHANGED hunt

\* The link of a saved sensor is lost.
Lose(s) == Moves(s, {"READY"}, "IDLE") /\ Hunts(s, {"OFF"}, "ARMED")

\* A user connects a slot that is looked for, and the connect comes to nothing.
Adopt(s) == Hunts(s, {"ARMED"}, "ADOPTED") /\ UNCHANGED state
Rearm(s) == Hunts(s, {"ADOPTED"}, "ARMED") /\ UNCHANGED state

\* A user's command, the give-up time, or a sensor connected to another slot.
Disarm(S) ==
    /\ hunt' = [s \in Slots |-> IF s \in S THEN "OFF" ELSE hunt[s]]
    /\ UNCHANGED state

Next ==
    \/ \E s \in Slots :
          \/ Request(s) \/ Start(s) \/ Succeed(s) \/ Fail(s) \/ FailAtBoot(s)
          \/ End(s) \/ Lose(s) \/ Adopt(s) \/ Rearm(s)
    \/ \E S \in SUBSET Slots : Disarm(S)

Spec == Init /\ [][Next]_lifecycleVars
=============================================================================

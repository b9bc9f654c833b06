--------------------------- MODULE SlotRefinement ---------------------------
(***************************************************************************)
(* ControlLoop implements SlotLifecycle.  The state of a slot is its       *)
(* connState.  Its hunt is its reconnect state, but where the code stores  *)
(* the two one after the other under the slot's lifecycle lock they change *)
(* together, with the first store: a slot that was just made READY is not  *)
(* looked for any more, and one that was just freed by the release of a    *)
(* lost link, or by a failed boot connect, already is.                     *)
(***************************************************************************)
EXTENDS ControlLoop

\* The worker has published READY and is about to end the hunt.
EndsHunt(s) == pc["worker"] = "readyOff" /\ at["worker"] = s

\* The loop task, or the worker, has freed the slot and is about to arm it.
StartsHunt(s) ==
    \/ pc["loop"] = "arm" /\ at["loop"] = s
    \/ pc["worker"] = "armSet" /\ at["worker"] = s /\ reconnect[s] = "OFF"

Hunt ==
    [s \in Slots |->
        IF EndsHunt(s) THEN "OFF"
        ELSE IF StartsHunt(s) THEN "ARMED"
        ELSE reconnect[s]]

Lifecycle == INSTANCE SlotLifecycle WITH state <- connState, hunt <- Hunt

\* Whatever the three tasks do at a slot between one another's steps, it goes
\* through the states that ConnState and ReconnectState are documented to have,
\* one at a time: no store of one task tears the two apart, brings back a hunt
\* that a command ended or takes a READY slot for one that is still connecting
\* (vernier-adapter.h:38-92).
LifecycleImplemented == Lifecycle!Spec
=============================================================================

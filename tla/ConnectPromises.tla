--------------------------- MODULE ConnectPromises ---------------------------
(***************************************************************************)
(* ControlLoop with two history variables, for promises of the comments    *)
(* that relate a command to what follows it.  The history only observes:   *)
(* it never enables or disables a step.                                    *)
(***************************************************************************)
EXTENDS ControlLoop

VARIABLES
    owed,      \* a C_CONNECT claimed the slot and no T_DEV_LIST was sent since
    forgot     \* C_FORGET tore the slot down and no user connected it since

promiseVars == <<vars, owed, forgot>>

ListSent == devListMutex # Free /\ devListMutex' = Free

\* Task t, in a user connect on slot s, wins it.
Wins(t, s) ==
    /\ at[t] = s /\ ByUser(op[t])
    /\ \/ pc[t] = "claim" /\ pc'[t] = "send"
       \/ pc[t] = "adopt" /\ flag'[t]

Forgets(s) == pc["uart"] = "setIdle" /\ pc'["uart"] = "forgetKey" /\ at["uart"] = s

PromiseInit ==
    /\ Init
    /\ owed = [s \in Slots |-> FALSE]
    /\ forgot = [s \in Slots |-> FALSE]

PromiseNext ==
    /\ Next
    /\ owed' = [s \in Slots |->
                   ~ListSent /\ (owed[s] \/ (Wins("uart", s) /\ pc'["uart"] = "send"))]
    /\ forgot' = [s \in Slots |->
                   Forgets(s) \/ (forgot[s] /\ ~\E t \in Tasks : Wins(t, s))]

PromiseSpec == PromiseInit /\ [][PromiseNext]_promiseVars

\* "On any outcome but a failed background attempt: push T_DEV_LIST"
\* (publishConnectResult): once everything is at rest, the host has been sent
\* a list since each of its connects was queued.
OutcomeReported == AtRest => \A s \in Slots : ~owed[s]

\* "such a Forget is not undone" (publishConnectResult): a forgotten slot has no
\* saved sensor again before a user connects one there.
ForgetHolds == AtRest => \A s \in Slots : forgot[s] => ~saved[s]

=============================================================================

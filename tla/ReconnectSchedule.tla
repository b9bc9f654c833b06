------------------------- MODULE ReconnectSchedule -------------------------
(***************************************************************************)
(* The timing of the background reconnect: reconnectLostSensors() of       *)
(* src/control-loop.cpp with its clocks, which ControlLoop leaves open.    *)
(*                                                                         *)
(* millis() is a 32-bit counter and the code only ever looks at            *)
(* differences to it, so the model keeps those, in the width of the        *)
(* counter: armedFor is now - armedAtMs, and overdue is                    *)
(* now - nextAttemptMs, which the code reads as a signed number.  While     *)
(* seen is OFF the values of a schedule are 0 in the model: a pass stores  *)
(* them before it reads them.                                              *)
(* A pass of the loop task takes no time.  The rest of the firmware takes  *)
(* the steps of SlotLifecycle, which ControlLoop implements, between any   *)
(* two slots of a pass.                                                    *)
(***************************************************************************)
EXTENDS Integers, FiniteSets

CONSTANTS
    N,          \* VERNIER_MAX_SLOTS
    ClockRange, \* millis() counts modulo this (2^32)
    FirstRetry, \* RECONNECT_FIRST_RETRY_MS
    Factor,     \* RECONNECT_BACKOFF_FACTOR
    MaxBackoff, \* RECONNECT_BACKOFF_MAX_MS
    GiveUpAfter, \* RECONNECT_GIVE_UP_MS, 0 to never give up
    MaxPass,    \* longest time between two passes of the loop task
    MaxAttempt  \* longest time a slot is REQUESTED or CONNECTING

Slots == 0 .. N - 1

(* The clock is wide enough to tell a gap that has just begun from one that is
   over, and does not wrap around in a hunt that is given up.               *)
ASSUME ScheduleAssumption ==
    /\ {N, ClockRange, FirstRetry, Factor, MaxBackoff} \subseteq Nat \ {0}
    /\ {GiveUpAfter, MaxPass, MaxAttempt} \subseteq Nat
    /\ FirstRetry <= MaxBackoff
    /\ 2 * MaxBackoff <= ClockRange
    /\ GiveUpAfter + 2 * MaxAttempt + 3 * MaxPass < ClockRange

VARIABLES
    conn,      \* ConnState of each slot
    reconnect, \* ReconnectState of each slot
    armedFor, overdue, backoff, seen, inFlight, \* reconnectSchedule[i]
    slot,      \* slot the pass is at; N between two passes
    workerBusy,
    idleLoop,  \* time since the last pass
    busyFor,   \* time a slot has been busy
    away,      \* time since the slot left OFF, counted up to Late; an OFF that no
               \* pass saw does not end the hunt
    rested,    \* time since a pass last found the slot newly armed, adopted or
               \* with its attempt over, counted up to MaxBackoff
    held       \* the slot is REQUESTED or CONNECTING on the claim of a pass; an
               \* attempt whose slot was taken from it may run on or stay queued

schedule == <<armedFor, overdue, backoff, seen, inFlight>>
clocks == <<idleLoop, busyFor, away, rested>>
slotVars == <<conn, reconnect, held>>
vars == <<slotVars, schedule, slot, workerBusy, clocks>>

Late == GiveUpAfter + MaxPass

Lifecycle == INSTANCE SlotLifecycle WITH state <- conn, hunt <- reconnect

Set(f, i, v) == [f EXCEPT ![i] = v]

Init ==
    /\ conn = [i \in Slots |-> "IDLE"]
    /\ reconnect = [i \in Slots |-> "OFF"]
    /\ seen = [i \in Slots |-> "OFF"]
    /\ inFlight = [i \in Slots |-> FALSE]
    /\ armedFor = [i \in Slots |-> 0]
    /\ overdue = [i \in Slots |-> 0]
    /\ backoff = [i \in Slots |-> 0]
    /\ slot = N /\ workerBusy = FALSE /\ idleLoop = 0
    /\ busyFor = [i \in Slots |-> 0]
    /\ away = [i \in Slots |-> 0]
    /\ rested = [i \in Slots |-> 0]
    /\ held = [i \in Slots |-> FALSE]

-----------------------------------------------------------------------------
(* The pass: reconnectLostSensors(), the scan and then one slot after another. *)

Busy(c) == c \in {"REQUESTED", "CONNECTING"}

StartPass ==
    /\ slot = N
    /\ slot' = 0
    /\ workerBusy' = (\E i \in Slots : Busy(conn[i]))
    /\ UNCHANGED <<slotVars, schedule, clocks>>

EndPass == idleLoop' = IF slot' = N THEN 0 ELSE idleLoop

AtSlot(i) == slot = i /\ i \in Slots /\ slot' = i + 1 /\ EndPass

\* MUTANT: the schedule of a slot that was adopted first is not started.
LeftOffByLoss(i) == seen[i] = "OFF" /\ reconnect[i] = "ARMED"

LeftOff(i) == seen[i] = "OFF" /\ reconnect[i] # "OFF"

(* The schedule of slot i at this pass, started afresh if it left OFF. *)
Fresh(i, old, new) == IF LeftOff(i) THEN new ELSE old
ArmedFor(i) == Fresh(i, armedFor[i], 0)
Backoff(i) == Fresh(i, backoff[i], FirstRetry)
Overdue(i) == Fresh(i, overdue[i], (0 - FirstRetry) % ClockRange)
InFlight(i) == Fresh(i, inFlight[i], FALSE)

(* The schedule of slot i is stored: seen, the gap, the next attempt, and whether a
   rescan is under way.                                                     *)
Keep(i, s, b, o, f) ==
    LET live(v) == IF s = "OFF" THEN 0 ELSE v
    IN
    /\ seen' = Set(seen, i, s)
    /\ armedFor' = Set(armedFor, i, live(ArmedFor(i)))
    /\ backoff' = Set(backoff, i, live(b))
    /\ overdue' = Set(overdue, i, live(o))
    /\ inFlight' = Set(inFlight, i, f)

NotArmed(i) ==
    /\ AtSlot(i)
    /\ reconnect[i] # "ARMED"
    /\ Keep(i, reconnect[i], Backoff(i), (0 - Backoff(i)) % ClockRange, FALSE)
    /\ rested' = Set(rested, i, 0)
    /\ away' = IF reconnect[i] = "OFF" THEN Set(away, i, 0) ELSE away
    /\ UNCHANGED <<slotVars, workerBusy, busyFor>>

StillConnecting(i) ==
    /\ AtSlot(i)
    /\ reconnect[i] = "ARMED" /\ InFlight(i) /\ conn[i] # "IDLE"
    /\ Keep(i, "ARMED", Backoff(i), Overdue(i), TRUE)
    /\ UNCHANGED <<slotVars, workerBusy, busyFor, away, rested>>

\* MUTANT: the gap grows without a cap.
Uncapped(b) == b

Capped(b) == IF b > MaxBackoff THEN MaxBackoff ELSE b

AttemptOver(i) ==
    /\ AtSlot(i)
    /\ reconnect[i] = "ARMED" /\ InFlight(i) /\ conn[i] = "IDLE"
    /\ LET longer == Capped(Backoff(i) * Factor)
       IN Keep(i, "ARMED", longer, (0 - longer) % ClockRange, FALSE)
    /\ rested' = Set(rested, i, 0)
    /\ UNCHANGED <<slotVars, workerBusy, busyFor, away>>

Resting(i) == reconnect[i] = "ARMED" /\ ~InFlight(i)
\* MUTANT: the hunt goes on at the very end of its time.
TimeIsUpLater(i) == GiveUpAfter # 0 /\ ArmedFor(i) > GiveUpAfter

TimeIsUp(i) == GiveUpAfter # 0 /\ ArmedFor(i) >= GiveUpAfter

GiveUp(i) ==
    /\ AtSlot(i)
    /\ Resting(i) /\ TimeIsUp(i)
    /\ reconnect' = Set(reconnect, i, "OFF")
    /\ Keep(i, "OFF", Backoff(i), Overdue(i), FALSE)
    /\ rested' = Set(rested, i, 0) /\ away' = Set(away, i, 0)
    /\ UNCHANGED <<conn, held, workerBusy, busyFor>>

\* MUTANT: the difference is read as an unsigned number.
DueUnsigned(i) == Overdue(i) >= 0

(* static_cast<int32_t>(now - nextAttemptMs) >= 0 *)
Due(i) == 2 * Overdue(i) < ClockRange

(* enqueueConnect() claims the slot unless it was claimed since the scan. *)
Attempts(i) == ~workerBusy /\ Due(i) /\ conn[i] = "IDLE"

Wait(i) ==
    /\ AtSlot(i)
    /\ Resting(i) /\ ~TimeIsUp(i) /\ ~Attempts(i)
    /\ Keep(i, "ARMED", Backoff(i), Overdue(i), FALSE)
    /\ rested' = [rested EXCEPT ![i] = IF LeftOff(i) THEN 0 ELSE @]
    /\ UNCHANGED <<slotVars, workerBusy, busyFor, away>>

\* MUTANT: the pass does not note that it made the worker busy.
AttemptUnnoticed(i) ==
    /\ AtSlot(i)
    /\ Resting(i) /\ ~TimeIsUp(i) /\ Attempts(i)
    /\ conn' = Set(conn, i, "REQUESTED") /\ held' = Set(held, i, TRUE)
    /\ busyFor' = Set(busyFor, i, 0)
    /\ Keep(i, "ARMED", Backoff(i), Overdue(i), TRUE)
    /\ UNCHANGED <<reconnect, workerBusy, away, rested>>

Attempt(i) ==
    /\ AtSlot(i)
    /\ Resting(i) /\ ~TimeIsUp(i) /\ Attempts(i)
    /\ conn' = Set(conn, i, "REQUESTED") /\ held' = Set(held, i, TRUE)
    /\ busyFor' = Set(busyFor, i, 0)
    /\ workerBusy' = TRUE
    /\ Keep(i, "ARMED", Backoff(i), Overdue(i), TRUE)
    /\ UNCHANGED <<reconnect, away, rested>>

Pass == StartPass \/ \E i \in Slots :
    NotArmed(i) \/ StillConnecting(i) \/ AttemptOver(i) \/ GiveUp(i) \/ Wait(i) \/ Attempt(i)

-----------------------------------------------------------------------------
(* The rest of the firmware. *)

Others == <<schedule, slot, workerBusy, idleLoop, rested>>

(* A user connect takes the slot that is looked for: it adopts the hunt, or claims
   the slot although an attempt that failed has just armed it again.        *)
UserTakes(i) ==
    /\ reconnect[i] = "ARMED"
    /\ reconnect'[i] = "ADOPTED" \/ (conn[i] = "IDLE" /\ Busy(conn'[i]))

(* A slot changes as the rest of the firmware may change it.  (Bound: no user keeps
   taking a slot, so that it never rests, for a whole period of the clock.)  *)
Environment ==
    /\ Lifecycle!Next
    /\ \A i \in Slots : GiveUpAfter # 0 /\ UserTakes(i) => armedFor[i] < Late
    /\ busyFor' = [i \in Slots |-> IF Busy(conn[i]) /\ Busy(conn'[i]) THEN busyFor[i] ELSE 0]
    /\ held' = [i \in Slots |-> held[i] /\ Busy(conn'[i])]
    /\ away' = [i \in Slots |-> IF seen[i] = "OFF" /\ reconnect'[i] = "OFF" THEN 0 ELSE away[i]]
    /\ UNCHANGED Others

Older(age, most) == IF age < most THEN age + 1 ELSE most

(* Time passes.  (Bound: no slot stays ADOPTED for a whole period of the clock.) *)
Tick ==
    /\ slot = N
    /\ idleLoop < MaxPass
    /\ \A i \in Slots :
          /\ Busy(conn[i]) => busyFor[i] < MaxAttempt
          /\ GiveUpAfter # 0 /\ reconnect[i] = "ADOPTED" => armedFor[i] < Late + MaxAttempt
    /\ idleLoop' = idleLoop + 1
    /\ armedFor' = [i \in Slots |-> IF seen[i] = "OFF" THEN 0 ELSE (armedFor[i] + 1) % ClockRange]
    /\ overdue' = [i \in Slots |-> IF seen[i] = "OFF" THEN 0 ELSE (overdue[i] + 1) % ClockRange]
    /\ busyFor' = [i \in Slots |-> IF Busy(conn[i]) THEN busyFor[i] + 1 ELSE 0]
    /\ away' = [i \in Slots |-> IF seen[i] = "OFF" /\ reconnect[i] = "OFF" THEN 0
                                ELSE Older(away[i], Late)]
    /\ rested' = [i \in Slots |-> IF seen[i] = "OFF" THEN 0 ELSE Older(rested[i], MaxBackoff)]
    /\ UNCHANGED <<slotVars, backoff, seen, inFlight, slot, workerBusy>>

Next == Pass \/ Environment \/ Tick

Spec == Init /\ [][Next]_vars

-----------------------------------------------------------------------------
(* Types of the schedule and of what it looks at. *)
TypeOK ==
    /\ conn \in [Slots -> {"IDLE", "REQUESTED", "CONNECTING", "READY"}]
    /\ reconnect \in [Slots -> {"OFF", "ARMED", "ADOPTED"}]
    /\ seen \in [Slots -> {"OFF", "ARMED", "ADOPTED"}]
    /\ inFlight \in [Slots -> BOOLEAN] /\ held \in [Slots -> BOOLEAN]
    /\ armedFor \in [Slots -> 0 .. ClockRange - 1]
    /\ overdue \in [Slots -> 0 .. ClockRange - 1]
    /\ backoff \in [Slots -> 0 .. MaxBackoff]
    /\ slot \in 0 .. N /\ workerBusy \in BOOLEAN
    /\ idleLoop \in 0 .. MaxPass
    /\ busyFor \in [Slots -> 0 .. MaxAttempt]
    /\ away \in [Slots -> 0 .. Late] /\ rested \in [Slots -> 0 .. MaxBackoff]

(* A slot the schedule looks after has a gap of at least the first retry and at
   most the cap, also when a user adopted it before a pass saw it armed
   (control-loop.cpp:586-600, 618-622).                                     *)
BackoffBounded ==
    \A i \in Slots : seen[i] # "OFF" => backoff[i] \in FirstRetry .. MaxBackoff

(* Passes hold one slot at a time: of the slots that are REQUESTED or CONNECTING at
   most one is so on the claim of a pass, also when users adopt it or claim others
   between the scan of a pass and its visits.  This is about slots, not about
   attempts.  A teardown or a cancel takes the slot from its attempt, which runs on
   (open() is not closed before its link is up) or stays in the queue; the next pass
   finds no slot busy and claims another, against "One rescan at a time, and only
   while bleWorker is idle" (control-loop.cpp:574-585, 641-644).            *)
OneSlotHeld == Cardinality({i \in Slots : held[i]}) <= 1

Rescan(i) == ~held[i] /\ held'[i]

(* A rescan starts only when the gap is over that began when a pass found the slot
   newly armed, adopted or with its attempt over, although the clock may have
   wrapped around in between (control-loop.cpp:596-600, 608, 623, 639).     *)
GapKept ==
    [][\A i \in Slots : Rescan(i) => rested[i] >= backoff[i]]_vars

(* The hunt for a sensor is given up when it has lasted its time, not before and,
   across the wrap-around of the clock, not after: no rescan starts later than one
   pass after that time, whatever users adopt and whichever attempts are under way.
   A hunt that ended and began again between two passes counts as one: its schedule
   goes on with the clock it had (control-loop.cpp:590-600, 629-637).       *)
GiveUpOnTime ==
    [][\A i \in Slots :
         /\ (reconnect[i] = "ARMED" /\ reconnect'[i] = "OFF" /\ slot' # slot)
              => away[i] >= GiveUpAfter
         /\ Rescan(i) /\ GiveUpAfter # 0 => away[i] < GiveUpAfter + MaxPass]_vars
=============================================================================

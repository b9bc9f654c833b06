----------------------- MODULE ReconnectScheduleProofs -----------------------
(***************************************************************************)
(* Proofs about ReconnectSchedule, for every number of slots, every width  *)
(* of the clock and every choice of the gaps.                              *)
(***************************************************************************)
EXTENDS ReconnectSchedule, FiniteSetTheorems, TLAPS

LEMMA Constants ==
    /\ N \in Nat /\ N >= 1 /\ ClockRange \in Nat /\ ClockRange >= 1
    /\ FirstRetry \in Nat /\ FirstRetry >= 1 /\ Factor \in Nat /\ Factor >= 1
    /\ MaxBackoff \in Nat /\ MaxBackoff >= FirstRetry /\ 2 * MaxBackoff <= ClockRange
    /\ GiveUpAfter \in Nat /\ MaxPass \in Nat /\ MaxAttempt \in Nat
    /\ Late = GiveUpAfter + MaxPass
    /\ GiveUpAfter + 2 * MaxAttempt + 3 * MaxPass < ClockRange
BY ScheduleAssumption DEF Late

-----------------------------------------------------------------------------
(* Types and gaps. *)

LEMMA Wraps ==
  ASSUME NEW x \in Int
  PROVE  x % ClockRange \in 0 .. ClockRange - 1
BY Constants, SMT

LEMMA NoWrap ==
  ASSUME NEW x \in 0 .. ClockRange - 1
  PROVE  x % ClockRange = x
BY Constants, SMT

\* A gap that has just begun is as far ahead of the clock as it is long.
LEMMA GapAhead ==
  ASSUME NEW b \in FirstRetry .. MaxBackoff
  PROVE  (0 - b) % ClockRange = ClockRange - b
BY Constants, SMT

LEMMA LongerGap ==
  ASSUME NEW b \in FirstRetry .. MaxBackoff
  PROVE  Capped(b * Factor) \in FirstRetry .. MaxBackoff
<1>1. b * Factor \in Nat /\ b * Factor >= b
  BY Constants, SMT
<1> QED  BY <1>1, Constants DEF Capped

SchedInv == TypeOK /\ BackoffBounded

\* The part of it that a pass stores, and the rest.
StoreTypeOK ==
    /\ seen \in [Slots -> {"OFF", "ARMED", "ADOPTED"}]
    /\ inFlight \in [Slots -> BOOLEAN]
    /\ armedFor \in [Slots -> 0 .. ClockRange - 1]
    /\ overdue \in [Slots -> 0 .. ClockRange - 1]
    /\ backoff \in [Slots -> 0 .. MaxBackoff]
    /\ slot \in 0 .. N /\ idleLoop \in 0 .. MaxPass

RestTypeOK ==
    /\ conn \in [Slots -> {"IDLE", "REQUESTED", "CONNECTING", "READY"}]
    /\ reconnect \in [Slots -> {"OFF", "ARMED", "ADOPTED"}]
    /\ held \in [Slots -> BOOLEAN] /\ workerBusy \in BOOLEAN
    /\ busyFor \in [Slots -> 0 .. MaxAttempt]
    /\ away \in [Slots -> 0 .. Late] /\ rested \in [Slots -> 0 .. MaxBackoff]

LEMMA SchedParts == SchedInv <=> StoreTypeOK /\ RestTypeOK /\ BackoffBounded
BY DEF SchedInv, TypeOK, StoreTypeOK, RestTypeOK

LEMMA SchedInit == Init => SchedInv
<1> SUFFICES ASSUME Init PROVE SchedInv
  OBVIOUS
<1>1. 0 \in 0 .. ClockRange - 1 /\ 0 \in 0 .. MaxBackoff /\ N \in 0 .. N /\ 0 \in 0 .. MaxPass
      /\ 0 \in 0 .. MaxAttempt /\ 0 \in 0 .. Late
  BY Constants
<1>2. StoreTypeOK
  BY <1>1 DEF Init, StoreTypeOK
<1>3. RestTypeOK
  BY <1>1 DEF Init, RestTypeOK
<1>4. BackoffBounded
  BY DEF Init, BackoffBounded
<1> QED  BY <1>2, <1>3, <1>4, SchedParts

\* What a pass finds in the schedule of slot i.
LEMMA Found ==
  ASSUME SchedInv, NEW i \in Slots, seen[i] # "OFF" \/ reconnect[i] # "OFF"
  PROVE  /\ ArmedFor(i) \in 0 .. ClockRange - 1
         /\ Backoff(i) \in FirstRetry .. MaxBackoff
         /\ Overdue(i) \in 0 .. ClockRange - 1
         /\ InFlight(i) \in BOOLEAN
         /\ LeftOff(i) => /\ ArmedFor(i) = 0 /\ Backoff(i) = FirstRetry
                          /\ Overdue(i) = ClockRange - FirstRetry /\ ~InFlight(i)
         /\ ~LeftOff(i) => /\ ArmedFor(i) = armedFor[i] /\ Backoff(i) = backoff[i]
                           /\ Overdue(i) = overdue[i] /\ InFlight(i) = inFlight[i]
                           /\ seen[i] # "OFF"
<1> USE DEF ArmedFor, Backoff, Overdue, InFlight, Fresh
<1>1. CASE LeftOff(i)
  <2>1. FirstRetry \in FirstRetry .. MaxBackoff
    BY Constants
  <2>2. (0 - FirstRetry) % ClockRange = ClockRange - FirstRetry
    BY <2>1, GapAhead
  <2>3. ArmedFor(i) = 0 /\ Backoff(i) = FirstRetry /\ ~InFlight(i)
    BY <1>1
  <2>4. Overdue(i) = ClockRange - FirstRetry
    BY <1>1, <2>2
  <2> HIDE DEF ArmedFor, Backoff, Overdue, InFlight
  <2>5. InFlight(i) \in BOOLEAN
    BY <1>1 DEF InFlight
  <2> QED  BY <1>1, <2>1, <2>3, <2>4, <2>5, Constants
<1>2. CASE ~LeftOff(i)
  <2>1. seen[i] # "OFF"
    BY <1>2 DEF LeftOff
  <2>2. /\ ArmedFor(i) = armedFor[i] /\ Backoff(i) = backoff[i]
        /\ Overdue(i) = overdue[i] /\ InFlight(i) = inFlight[i]
    BY <1>2
  <2> HIDE DEF ArmedFor, Backoff, Overdue, InFlight
  <2> QED  BY <1>2, <2>1, <2>2 DEF SchedInv, TypeOK, BackoffBounded
<1> QED  BY <1>1, <1>2

\* A pass has visited slot i and stored s, b, o and f in its schedule.
Stored(i, s, b, o, f) ==
    /\ seen' = [seen EXCEPT ![i] = s]
    /\ inFlight' = [inFlight EXCEPT ![i] = f]
    /\ backoff' = [backoff EXCEPT ![i] = IF s = "OFF" THEN 0 ELSE b]
    /\ overdue' = [overdue EXCEPT ![i] = IF s = "OFF" THEN 0 ELSE o]
    /\ armedFor' = [armedFor EXCEPT ![i] = IF s = "OFF" THEN 0 ELSE ArmedFor(i)]

LEMMA KeepStores ==
  ASSUME NEW i, NEW s, NEW b, NEW o, NEW f, Keep(i, s, b, o, f)
  PROVE  Stored(i, s, b, o, f)
BY DEF Keep, Stored, Set

LEMMA VisitMoves ==
  ASSUME SchedInv, NEW i \in Slots, AtSlot(i)
  PROVE  slot = i /\ slot' = i + 1 /\ slot' \in 0 .. N /\ idleLoop' \in 0 .. MaxPass
BY Constants DEF AtSlot, EndPass, Slots, SchedInv, TypeOK

LEMMA Kept ==
  ASSUME SchedInv, NEW i \in Slots, AtSlot(i),
         NEW s \in {"OFF", "ARMED", "ADOPTED"}, NEW b, NEW o, NEW f \in BOOLEAN,
         Keep(i, s, b, o, f),
         s = "OFF" \/ (b \in FirstRetry .. MaxBackoff /\ o \in 0 .. ClockRange - 1),
         s = "OFF" \/ seen[i] # "OFF" \/ reconnect[i] # "OFF"
  PROVE  StoreTypeOK' /\ BackoffBounded'
<1>1. Stored(i, s, b, o, f)
  BY KeepStores
<1>2. StoreTypeOK /\ BackoffBounded
  BY SchedParts
<1>3. slot' \in 0 .. N /\ idleLoop' \in 0 .. MaxPass
  BY VisitMoves
<1>4. 0 \in 0 .. ClockRange - 1 /\ 0 \in 0 .. MaxBackoff
  BY Constants
<1>5. CASE s = "OFF"
  <2>1. StoreTypeOK'
    BY <1>1, <1>2, <1>3, <1>4, <1>5 DEF Stored, StoreTypeOK
  <2>2. BackoffBounded'
    BY <1>1, <1>2, <1>5 DEF Stored, StoreTypeOK, BackoffBounded
  <2> QED  BY <2>1, <2>2
<1>6. CASE s # "OFF"
  <2>1. b \in FirstRetry .. MaxBackoff /\ b \in 0 .. MaxBackoff /\ o \in 0 .. ClockRange - 1
    BY <1>6, Constants
  <2>2. ArmedFor(i) \in 0 .. ClockRange - 1
    BY <1>6, Found
  <2>3. StoreTypeOK'
    BY <1>1, <1>2, <1>3, <1>6, <2>1, <2>2 DEF Stored, StoreTypeOK
  <2>4. BackoffBounded'
    BY <1>1, <1>2, <1>6, <2>1 DEF Stored, StoreTypeOK, BackoffBounded
  <2> QED  BY <2>3, <2>4
<1> QED  BY <1>5, <1>6

\* The values that a visit of slot i stores.
LEMMA Visits ==
  ASSUME SchedInv, NEW i \in Slots,
         NotArmed(i) \/ StillConnecting(i) \/ AttemptOver(i) \/ GiveUp(i) \/ Wait(i) \/ Attempt(i)
  PROVE  StoreTypeOK' /\ BackoffBounded' /\ AtSlot(i)
<1>1. CASE NotArmed(i)
  <2>1. reconnect[i] = "OFF" \/ (0 - Backoff(i)) % ClockRange \in 0 .. ClockRange - 1
    BY Found, Wraps, Constants
  <2>2. reconnect[i] \in {"OFF", "ARMED", "ADOPTED"}
    BY DEF SchedInv, TypeOK
  <2>3. reconnect[i] = "OFF" \/ Backoff(i) \in FirstRetry .. MaxBackoff
    BY Found
  <2>4. AtSlot(i) /\ Keep(i, reconnect[i], Backoff(i), (0 - Backoff(i)) % ClockRange, FALSE)
    BY <1>1 DEF NotArmed
  <2> QED  BY <2>1, <2>2, <2>3, <2>4, Kept
<1>2. CASE StillConnecting(i)
  <2>1. reconnect[i] = "ARMED"
        /\ AtSlot(i) /\ Keep(i, "ARMED", Backoff(i), Overdue(i), TRUE)
    BY <1>2 DEF StillConnecting
  <2> QED  BY <2>1, Found, Kept
<1>3. CASE AttemptOver(i)
  <2> DEFINE longer == Capped(Backoff(i) * Factor)
  <2>1. reconnect[i] = "ARMED"
        /\ AtSlot(i) /\ Keep(i, "ARMED", longer, (0 - longer) % ClockRange, FALSE)
    BY <1>3 DEF AttemptOver
  <2>2. longer \in FirstRetry .. MaxBackoff
    BY <2>1, Found, LongerGap
  <2> HIDE DEF longer
  <2>3. (0 - longer) % ClockRange \in 0 .. ClockRange - 1
    BY <2>2, Wraps, Constants
  <2> QED  BY <2>1, <2>2, <2>3, Kept
<1>4. CASE GiveUp(i)
  <2>1. AtSlot(i) /\ Keep(i, "OFF", Backoff(i), Overdue(i), FALSE)
    BY <1>4 DEF GiveUp
  <2> QED  BY <2>1, Kept
<1>5. CASE Wait(i)
  <2>1. reconnect[i] = "ARMED"
        /\ AtSlot(i) /\ Keep(i, "ARMED", Backoff(i), Overdue(i), FALSE)
    BY <1>5 DEF Wait, Resting
  <2> QED  BY <2>1, Found, Kept
<1>6. CASE Attempt(i)
  <2>1. reconnect[i] = "ARMED"
        /\ AtSlot(i) /\ Keep(i, "ARMED", Backoff(i), Overdue(i), TRUE)
    BY <1>6 DEF Attempt, Resting
  <2> QED  BY <2>1, Found, Kept
<1> QED  BY <1>1, <1>2, <1>3, <1>4, <1>5, <1>6

VisitActions(i) ==
    NotArmed(i) \/ StillConnecting(i) \/ AttemptOver(i) \/ GiveUp(i) \/ Wait(i) \/ Attempt(i)

\* What a step of the rest of the firmware does to one slot.
Turns(i) ==
    /\ conn'[i] \in {"IDLE", "REQUESTED", "CONNECTING", "READY"}
    /\ reconnect'[i] \in {"OFF", "ARMED", "ADOPTED"}
    /\ reconnect[i] = "OFF" /\ reconnect'[i] # "OFF" => reconnect'[i] = "ARMED" /\ conn'[i] = "IDLE"
    /\ conn'[i] = "READY" => reconnect'[i] = "OFF" \/ (conn[i] = "READY" /\ reconnect[i] # "OFF")
    /\ Busy(conn'[i]) /\ ~Busy(conn[i]) => conn[i] = "IDLE" /\ reconnect'[i] = reconnect[i]

LEMMA EnvironmentTurns ==
  ASSUME SchedInv, Environment
  PROVE  /\ conn' \in [Slots -> {"IDLE", "REQUESTED", "CONNECTING", "READY"}]
         /\ reconnect' \in [Slots -> {"OFF", "ARMED", "ADOPTED"}]
         /\ \A i \in Slots : Turns(i)
<1> USE DEF Lifecycle!Moves, Lifecycle!Hunts
<1>1. /\ conn \in [Slots -> {"IDLE", "REQUESTED", "CONNECTING", "READY"}]
      /\ reconnect \in [Slots -> {"OFF", "ARMED", "ADOPTED"}]
  BY DEF SchedInv, TypeOK
<1> DEFINE Typed == /\ conn' \in [Slots -> {"IDLE", "REQUESTED", "CONNECTING", "READY"}]
                    /\ reconnect' \in [Slots -> {"OFF", "ARMED", "ADOPTED"}]
<1>2. ASSUME NEW s \in Slots, Lifecycle!Request(s) \/ Lifecycle!Start(s) \/ Lifecycle!Fail(s)
                               \/ Lifecycle!End(s)
      PROVE  Typed /\ \A i \in Slots : Turns(i)
  BY <1>1, <1>2
  DEF Lifecycle!Request, Lifecycle!Start, Lifecycle!Fail, Lifecycle!End, Turns, Busy
<1>3. ASSUME NEW s \in Slots, Lifecycle!Succeed(s)
      PROVE  Typed /\ \A i \in Slots : Turns(i)
  BY <1>1, <1>3 DEF Lifecycle!Succeed, Turns, Busy
<1>4. ASSUME NEW s \in Slots, Lifecycle!FailAtBoot(s) \/ Lifecycle!Lose(s)
      PROVE  Typed /\ \A i \in Slots : Turns(i)
  BY <1>1, <1>4 DEF Lifecycle!FailAtBoot, Lifecycle!Lose, Turns, Busy
<1>5. ASSUME NEW s \in Slots, Lifecycle!Adopt(s) \/ Lifecycle!Rearm(s)
      PROVE  Typed /\ \A i \in Slots : Turns(i)
  BY <1>1, <1>5 DEF Lifecycle!Adopt, Lifecycle!Rearm, Turns, Busy
<1>6. ASSUME NEW S \in SUBSET Slots, Lifecycle!Disarm(S)
      PROVE  Typed /\ \A i \in Slots : Turns(i)
  BY <1>1, <1>6 DEF Lifecycle!Disarm, Turns, Busy
<1>7. Lifecycle!Next
  BY DEF Environment
<1> QED  BY <1>2, <1>3, <1>4, <1>5, <1>6, <1>7 DEF Lifecycle!Next

LEMMA SchedStep == SchedInv /\ [Next]_vars => SchedInv'
<1> SUFFICES ASSUME SchedInv, [Next]_vars PROVE SchedInv'
  OBVIOUS
<1>1. StoreTypeOK /\ RestTypeOK /\ BackoffBounded
  BY SchedParts
<1>2. 0 \in 0 .. MaxAttempt /\ 0 \in 0 .. Late /\ 0 \in 0 .. MaxBackoff
  BY Constants
<1>3. ASSUME NEW i \in Slots, VisitActions(i) PROVE SchedInv'
  <2>1. StoreTypeOK' /\ BackoffBounded'
    BY <1>3, Visits DEF VisitActions
  <2>2. RestTypeOK'
    BY <1>1, <1>2, <1>3, ZenonT(60)
    DEF VisitActions, NotArmed, StillConnecting, AttemptOver, GiveUp, Wait, Attempt, slotVars,
        Set, RestTypeOK
  <2> QED  BY <2>1, <2>2, SchedParts, PTL
<1>4. CASE Environment
  <2>1. StoreTypeOK' /\ BackoffBounded'
    BY <1>1, <1>4 DEF Environment, Others, schedule, StoreTypeOK, BackoffBounded
  <2>2. /\ conn' \in [Slots -> {"IDLE", "REQUESTED", "CONNECTING", "READY"}]
        /\ reconnect' \in [Slots -> {"OFF", "ARMED", "ADOPTED"}]
    BY <1>4, EnvironmentTurns
  <2>3. RestTypeOK'
    BY <1>1, <1>2, <1>4, <2>2 DEF Environment, Others, RestTypeOK
  <2> QED  BY <2>1, <2>3, SchedParts, PTL
<1>5. CASE StartPass
  <2>1. StoreTypeOK' /\ RestTypeOK' /\ BackoffBounded'
    BY <1>1, <1>5, Constants
    DEF StartPass, slotVars, schedule, clocks, StoreTypeOK, RestTypeOK, BackoffBounded
  <2> QED  BY <2>1, SchedParts, PTL
<1>6. CASE Tick
  <2>1. \A i \in Slots : /\ (armedFor[i] + 1) % ClockRange \in 0 .. ClockRange - 1
                         /\ (overdue[i] + 1) % ClockRange \in 0 .. ClockRange - 1
    BY <1>1, Wraps DEF StoreTypeOK
  <2>2. StoreTypeOK' /\ BackoffBounded'
    BY <1>1, <1>6, <2>1, Constants DEF Tick, slotVars, StoreTypeOK, BackoffBounded
  <2>3. RestTypeOK'
    BY <1>1, <1>6, Constants DEF Tick, Older, slotVars, RestTypeOK
  <2> QED  BY <2>2, <2>3, SchedParts, PTL
<1>7. CASE UNCHANGED vars
  <2>1. StoreTypeOK' /\ RestTypeOK' /\ BackoffBounded'
    BY <1>1, <1>7
    DEF vars, slotVars, schedule, clocks, StoreTypeOK, RestTypeOK, BackoffBounded
  <2> QED  BY <2>1, SchedParts, PTL
<1> QED
  BY <1>3, <1>4, <1>5, <1>6, <1>7 DEF Next, Pass, VisitActions

\* The schedule, the clocks and the slots have their types.
THEOREM TypeCorrect == Spec => []TypeOK
<1>1. SchedInv => TypeOK
  BY DEF SchedInv
<1> QED  BY <1>1, SchedInit, SchedStep, PTL DEF Spec

\* Every gap lies between the first retry and the cap, whatever adopts or
\* re-arms the slot between two passes.
THEOREM GapsBounded == Spec => []BackoffBounded
<1>1. SchedInv => BackoffBounded
  BY DEF SchedInv
<1> QED  BY <1>1, SchedInit, SchedStep, PTL DEF Spec

-----------------------------------------------------------------------------
(* OneSlotHeld. *)

\* A pass that has not seen the worker busy has seen no slot held.
HeldInv ==
    /\ slot # N /\ ~workerBusy => \A i \in Slots : ~held[i]
    /\ \A i, j \in Slots : held[i] /\ held[j] => i = j
    /\ \A i \in Slots : held[i] => Busy(conn[i])

LEMMA HeldStep ==
  ASSUME SchedInv, HeldInv, Next
  PROVE  HeldInv'
<1>1. CASE StartPass
  BY <1>1 DEF StartPass, slotVars, HeldInv
<1>2. CASE Tick
  BY <1>2 DEF Tick, slotVars, HeldInv
<1>3. CASE Environment
  BY <1>3 DEF Environment, Others, HeldInv
<1>4. ASSUME NEW i \in Slots, VisitActions(i), ~Attempt(i) PROVE HeldInv'
  <2>1. slot # N
    BY <1>4, Visits, Constants DEF VisitActions, AtSlot, Slots
  <2>2. UNCHANGED <<conn, held, workerBusy>>
    BY <1>4
    DEF VisitActions, NotArmed, StillConnecting, AttemptOver, GiveUp, Wait, slotVars
  <2> QED  BY <2>1, <2>2 DEF HeldInv
<1>5. ASSUME NEW i \in Slots, Attempt(i) PROVE HeldInv'
  <2>1. \A j \in Slots : ~held[j]
    BY <1>5, Constants DEF Attempt, Attempts, AtSlot, HeldInv, Slots
  <2>2. /\ workerBusy' /\ held' = [held EXCEPT ![i] = TRUE]
        /\ conn' = [conn EXCEPT ![i] = "REQUESTED"]
    BY <1>5 DEF Attempt, Set
  <2> QED  BY <2>1, <2>2 DEF HeldInv, Busy, SchedInv, TypeOK
<1> QED  BY <1>1, <1>2, <1>3, <1>4, <1>5 DEF Next, Pass, VisitActions

\* However many slots wait for their sensors, and whatever users adopt and claim,
\* passes hold at most one slot REQUESTED or CONNECTING.  It does not bound the
\* attempts: one whose slot was torn down or cancelled may run on or stay queued.
THEOREM OneSlotIsHeld == Spec => []OneSlotHeld
<1>1. Init => HeldInv
  BY DEF Init, HeldInv
<1>2. SchedInv /\ HeldInv /\ [Next]_vars => HeldInv'
  <2>1. CASE UNCHANGED vars
    BY <2>1 DEF vars, slotVars, HeldInv
  <2> QED  BY <2>1, HeldStep
<1>3. HeldInv => OneSlotHeld
  <2> SUFFICES ASSUME HeldInv PROVE OneSlotHeld
    OBVIOUS
  <2> DEFINE S == {i \in Slots : held[i]}
  <2>1. CASE S = {}
    BY <2>1, FS_EmptySet DEF OneSlotHeld
  <2>2. CASE S # {}
    <3>1. PICK i \in Slots : S = {i}
      BY <2>2 DEF HeldInv
    <3>2. Cardinality(S) = 1
      <4> HIDE DEF S
      <4> QED  BY <3>1, FS_Singleton
    <3> QED  BY <3>2 DEF OneSlotHeld
  <2> QED  BY <2>1, <2>2
<1> QED  BY <1>1, <1>2, <1>3, SchedInit, SchedStep, PTL DEF Spec

-----------------------------------------------------------------------------
(* GapKept. *)

\* While a slot rests, its next attempt is as far ahead as its gap has to go,
\* wherever the clock has wrapped around.
GapInv ==
    \A i \in Slots :
        seen[i] # "OFF" /\ ~inFlight[i] /\ rested[i] < backoff[i] =>
            overdue[i] = ClockRange + rested[i] - backoff[i]

\* A visit of slot j leaves the others alone.
LEMMA OthersUnvisited ==
  ASSUME SchedInv, NEW j \in Slots, VisitActions(j), NEW i \in Slots \ {j}
  PROVE  /\ seen'[i] = seen[i] /\ inFlight'[i] = inFlight[i] /\ rested'[i] = rested[i]
         /\ backoff'[i] = backoff[i] /\ overdue'[i] = overdue[i] /\ armedFor'[i] = armedFor[i]
         /\ conn'[i] = conn[i] /\ reconnect'[i] = reconnect[i] /\ held'[i] = held[i]
         /\ busyFor'[i] = busyFor[i] /\ away'[i] = away[i]
<1>1. /\ seen'[i] = seen[i] /\ inFlight'[i] = inFlight[i]
      /\ backoff'[i] = backoff[i] /\ overdue'[i] = overdue[i] /\ armedFor'[i] = armedFor[i]
  BY DEF VisitActions, NotArmed, StillConnecting, AttemptOver, GiveUp, Wait, Attempt, Keep, Set,
     SchedInv, TypeOK
<1>2. /\ rested'[i] = rested[i] /\ busyFor'[i] = busyFor[i] /\ away'[i] = away[i]
      /\ conn'[i] = conn[i] /\ reconnect'[i] = reconnect[i] /\ held'[i] = held[i]
  BY DEF VisitActions, NotArmed, StillConnecting, AttemptOver, GiveUp, Wait, Attempt, Set,
     slotVars, SchedInv, TypeOK
<1> QED  BY <1>1, <1>2

LEMMA GapStep ==
  ASSUME SchedInv, GapInv, Next
  PROVE  GapInv'
<1> SUFFICES ASSUME NEW i \in Slots, seen'[i] # "OFF", ~inFlight'[i], rested'[i] < backoff'[i]
             PROVE  overdue'[i] = ClockRange + rested'[i] - backoff'[i]
  BY DEF GapInv
<1>1. CASE \E j \in Slots \ {i} : VisitActions(j)
  BY <1>1, OthersUnvisited DEF GapInv
<1>2. CASE NotArmed(i)
  <2>1. Stored(i, reconnect[i], Backoff(i), (0 - Backoff(i)) % ClockRange, FALSE)
    BY <1>2, KeepStores DEF NotArmed
  <2>2. /\ reconnect[i] # "OFF" /\ rested'[i] = 0 /\ backoff'[i] = Backoff(i)
        /\ overdue'[i] = (0 - Backoff(i)) % ClockRange
    BY <1>2, <2>1 DEF NotArmed, Stored, Set, SchedInv, TypeOK
  <2>3. Backoff(i) \in FirstRetry .. MaxBackoff
    BY <2>2, Found
  <2> QED  BY <2>2, <2>3, GapAhead, Constants
<1>3. CASE AttemptOver(i)
  <2> DEFINE longer == Capped(Backoff(i) * Factor)
  <2>1. longer \in FirstRetry .. MaxBackoff
    BY <1>3, Found, LongerGap DEF AttemptOver
  <2>2. Stored(i, "ARMED", longer, (0 - longer) % ClockRange, FALSE) /\ rested'[i] = 0
    BY <1>3, KeepStores DEF AttemptOver, Set, SchedInv, TypeOK
  <2> HIDE DEF longer
  <2>3. backoff'[i] = longer /\ overdue'[i] = (0 - longer) % ClockRange
    BY <2>2 DEF Stored, SchedInv, TypeOK
  <2> QED  BY <2>1, <2>2, <2>3, GapAhead, Constants
<1>4. CASE Wait(i)
  <2>1. /\ backoff'[i] = Backoff(i) /\ overdue'[i] = Overdue(i) /\ ~InFlight(i)
        /\ rested'[i] = IF LeftOff(i) THEN 0 ELSE rested[i]
        /\ reconnect[i] = "ARMED"
    BY <1>4 DEF Wait, Resting, Keep, Set, SchedInv, TypeOK
  <2> QED  BY <2>1, Found, Constants DEF GapInv
<1>5. ~(StillConnecting(i) \/ Attempt(i) \/ GiveUp(i))
  BY DEF StillConnecting, Attempt, GiveUp, Keep, Set, SchedInv, TypeOK
<1>6. CASE StartPass \/ Environment
  BY <1>6 DEF StartPass, Environment, Others, schedule, clocks, GapInv
<1>7. CASE Tick
  <2>1. /\ seen' = seen /\ inFlight' = inFlight /\ backoff' = backoff
        /\ overdue'[i] = (overdue[i] + 1) % ClockRange
        /\ rested'[i] = Older(rested[i], MaxBackoff)
    BY <1>7 DEF Tick, slotVars
  <2>2. /\ rested[i] \in 0 .. MaxBackoff /\ backoff[i] \in FirstRetry .. MaxBackoff
        /\ overdue[i] \in 0 .. ClockRange - 1
    BY <2>1 DEF SchedInv, TypeOK, BackoffBounded
  <2>3. rested'[i] = rested[i] + 1 /\ rested[i] < backoff[i]
    BY <2>1, <2>2, Constants DEF Older
  <2>4. overdue[i] = ClockRange + rested[i] - backoff[i]
    BY <2>1, <2>3 DEF GapInv
  <2>5. overdue[i] + 1 \in 0 .. ClockRange - 1
    BY <2>1, <2>2, <2>3, <2>4, Constants
  <2>6. (overdue[i] + 1) % ClockRange = overdue[i] + 1
    BY <2>5, NoWrap
  <2> QED  BY <2>1, <2>2, <2>3, <2>4, <2>6, Constants
<1> QED
  BY <1>1, <1>2, <1>3, <1>4, <1>5, <1>6, <1>7 DEF Next, Pass, VisitActions

\* A rescan is an attempt.
LEMMA RescanAttempts ==
  ASSUME SchedInv, Next, NEW i \in Slots, Rescan(i)
  PROVE  Attempt(i)
<1>1. ASSUME NEW j \in Slots, VisitActions(j), ~Attempt(i) PROVE FALSE
  <2>1. j = i
    BY <1>1, OthersUnvisited DEF Rescan
  <2> QED
    BY <1>1, <2>1
    DEF VisitActions, NotArmed, StillConnecting, AttemptOver, GiveUp, Wait, slotVars, Rescan
<1>2. ~(StartPass \/ Tick \/ Environment)
  BY DEF StartPass, Tick, Environment, slotVars, Rescan
<1> QED  BY <1>1, <1>2 DEF Next, Pass, VisitActions

\* A slot that attempts is one whose schedule was running, and is due.
LEMMA AttemptIsDue ==
  ASSUME SchedInv, NEW i \in Slots, Attempt(i)
  PROVE  /\ seen[i] # "OFF" /\ ~inFlight[i] /\ 2 * overdue[i] < ClockRange
         /\ reconnect[i] = "ARMED"
         /\ GiveUpAfter # 0 => armedFor[i] < GiveUpAfter
<1>1. /\ reconnect[i] = "ARMED" /\ ~InFlight(i) /\ ~TimeIsUp(i) /\ 2 * Overdue(i) < ClockRange
  BY DEF Attempt, Resting, Attempts, Due
<1>2. ~LeftOff(i)
  BY <1>1, Found, Constants
<1>3. /\ ArmedFor(i) = armedFor[i] /\ Overdue(i) = overdue[i] /\ InFlight(i) = inFlight[i]
      /\ seen[i] # "OFF" /\ armedFor[i] \in 0 .. ClockRange - 1
  BY <1>1, <1>2, Found
<1> QED  BY <1>1, <1>3, Constants DEF TimeIsUp

\* No rescan starts before the gap is over, also when the clock wraps around in
\* the middle of it.
THEOREM GapIsKept == Spec => GapKept
<1>1. Init => GapInv
  BY DEF Init, GapInv
<1>2. SchedInv /\ GapInv /\ [Next]_vars => GapInv'
  <2>1. CASE UNCHANGED vars
    BY <2>1 DEF vars, schedule, clocks, GapInv
  <2> QED  BY <2>1, GapStep
<1>3. SchedInv /\ GapInv /\ [Next]_vars
        => [\A i \in Slots : Rescan(i) => rested[i] >= backoff[i]]_vars
  <2> SUFFICES ASSUME SchedInv, GapInv, Next, NEW i \in Slots, Rescan(i)
               PROVE  rested[i] >= backoff[i]
    OBVIOUS
  <2>1. seen[i] # "OFF" /\ ~inFlight[i] /\ 2 * overdue[i] < ClockRange
    BY RescanAttempts, AttemptIsDue
  <2>2. rested[i] \in 0 .. MaxBackoff /\ backoff[i] \in FirstRetry .. MaxBackoff
    BY <2>1 DEF SchedInv, TypeOK, BackoffBounded
  <2> QED  BY <2>1, <2>2, Constants DEF GapInv
<1> QED  BY <1>1, <1>2, <1>3, SchedInit, SchedStep, PTL DEF Spec, GapKept

-----------------------------------------------------------------------------
(* GiveUpOnTime. *)

\* Time since a pass last came by slot i.
Since(i) == IF i < slot /\ slot < N THEN 0 ELSE idleLoop

\* Longest age of a hunt that a user adopted, of one that is armed while an attempt
\* is under way, of one whose attempt is over and no pass saw that yet, and of one
\* that the next pass gives up.
AttemptAge == Late + MaxAttempt
OldestHunt(i) ==
    IF reconnect[i] = "ADOPTED" THEN AttemptAge
    ELSE IF reconnect[i] = "ARMED" /\ Busy(conn[i]) THEN AttemptAge + busyFor[i]
    ELSE IF inFlight[i] THEN AttemptAge + MaxAttempt + Since(i)
    ELSE AttemptAge + MaxAttempt + MaxPass + Since(i)

\* How the clock of the schedule follows the time the slot is looked for.
HuntAge(i) ==
    /\ reconnect[i] # "OFF" => conn[i] # "READY"
    /\ seen[i] # "OFF" => armedFor[i] <= away[i] \/ away[i] = Late
    /\ GiveUpAfter # 0 /\ seen[i] # "OFF" => armedFor[i] <= OldestHunt(i)
    /\ GiveUpAfter # 0 => away[i] <= (IF seen[i] = "OFF" THEN Since(i) ELSE armedFor[i] + MaxPass)

AgeInv == \A i \in Slots : HuntAge(i)

AgeTypes(i) ==
    /\ conn[i] \in {"IDLE", "REQUESTED", "CONNECTING", "READY"}
    /\ reconnect[i] \in {"OFF", "ARMED", "ADOPTED"}
    /\ seen[i] \in {"OFF", "ARMED", "ADOPTED"} /\ inFlight[i] \in BOOLEAN
    /\ armedFor[i] \in 0 .. ClockRange - 1 /\ armedFor[i] \in Nat
    /\ busyFor[i] \in 0 .. MaxAttempt /\ away[i] \in 0 .. Late /\ idleLoop \in 0 .. MaxPass

LEMMA AgeTyped == SchedInv => \A i \in Slots : AgeTypes(i)
BY DEF SchedInv, TypeOK, AgeTypes

LEMMA SinceType == SchedInv => \A i \in Slots : Since(i) \in 0 .. MaxPass
BY Constants DEF Since, SchedInv, TypeOK

LEMMA SinceVisit ==
  ASSUME SchedInv, NEW j \in Slots, AtSlot(j)
  PROVE  /\ Since(j) = idleLoop /\ Since(j)' = 0
         /\ \A i \in Slots \ {j} : Since(i)' = Since(i)
BY Constants DEF Since, AtSlot, EndPass, Slots, SchedInv, TypeOK

LEMMA AgeVisit ==
  ASSUME SchedInv, NEW i \in Slots, VisitActions(i), HuntAge(i)
  PROVE  HuntAge(i)'
<1> USE DEF HuntAge
<1>1. AgeTypes(i)
  BY AgeTyped
<1>2. AtSlot(i) /\ Since(i) = idleLoop /\ Since(i)' = 0
  BY Visits, SinceVisit DEF VisitActions
<1>3. reconnect[i] # "OFF" =>
        IF seen[i] = "OFF" THEN ArmedFor(i) = 0 /\ ~InFlight(i)
        ELSE ArmedFor(i) = armedFor[i] /\ InFlight(i) = inFlight[i]
  BY <1>1, Found DEF LeftOff, AgeTypes
<1>4. CASE (NotArmed(i) /\ reconnect[i] = "OFF") \/ GiveUp(i)
  <2>1. /\ reconnect'[i] = "OFF" /\ seen'[i] = "OFF" /\ away'[i] = 0
    BY <1>4 DEF NotArmed, GiveUp, Keep, Set, slotVars, SchedInv, TypeOK
  <2> QED  BY <1>2, <2>1
<1>5. CASE /\ reconnect[i] # "OFF"
           /\ NotArmed(i) \/ StillConnecting(i) \/ AttemptOver(i) \/ Wait(i) \/ Attempt(i)
  <2>1. /\ reconnect' = reconnect /\ away' = away
        /\ seen'[i] = reconnect[i] /\ armedFor'[i] = ArmedFor(i)
    BY <1>5
    DEF NotArmed, StillConnecting, AttemptOver, Wait, Attempt, Resting, Keep, Set, slotVars,
        SchedInv, TypeOK
  <2>2. GiveUpAfter # 0 => armedFor'[i] <= OldestHunt(i)'
    <3> SUFFICES ASSUME GiveUpAfter # 0 PROVE ArmedFor(i) <= OldestHunt(i)'
      BY <2>1
    <3>1. /\ ArmedFor(i) \in Nat
          /\ seen[i] = "OFF" => ArmedFor(i) = 0
          /\ seen[i] # "OFF" => ArmedFor(i) <= OldestHunt(i)
      BY <1>1, <1>3, <1>5 DEF AgeTypes
    <3>2. CASE NotArmed(i)
      <4>1. reconnect[i] = "ADOPTED"
        BY <1>1, <1>5, <3>2 DEF NotArmed, AgeTypes
      <4>2. OldestHunt(i)' = AttemptAge /\ OldestHunt(i) = AttemptAge
        BY <2>1, <4>1 DEF OldestHunt, AttemptAge
      <4> QED  BY <3>1, <4>2, Constants DEF AttemptAge
    <3>3. CASE StillConnecting(i)
      <4>1. /\ reconnect[i] = "ARMED" /\ Busy(conn[i]) /\ conn' = conn /\ busyFor' = busyFor
        BY <1>1, <3>3 DEF StillConnecting, slotVars, Busy, AgeTypes
      <4>2. OldestHunt(i)' = AttemptAge + busyFor[i] /\ OldestHunt(i) = AttemptAge + busyFor[i]
        BY <2>1, <4>1 DEF OldestHunt, AttemptAge
      <4> QED  BY <1>1, <3>1, <4>2, Constants DEF AttemptAge, AgeTypes
    <3>4. CASE AttemptOver(i)
      <4>1. /\ reconnect[i] = "ARMED" /\ conn[i] = "IDLE" /\ conn' = conn
            /\ InFlight(i) /\ ~inFlight'[i]
        BY <3>4 DEF AttemptOver, slotVars, Keep, Set, SchedInv, TypeOK
      <4>2. OldestHunt(i)' = AttemptAge + MaxAttempt + MaxPass + 0
        BY <1>2, <2>1, <4>1 DEF OldestHunt, AttemptAge, Busy
      <4>3. seen[i] # "OFF" /\ inFlight[i]
        BY <1>3, <4>1
      <4>4. OldestHunt(i) = AttemptAge + MaxAttempt + idleLoop
        BY <1>2, <4>1, <4>3 DEF OldestHunt, Busy
      <4> QED  BY <1>1, <3>1, <4>2, <4>3, <4>4, Constants DEF AttemptAge, AgeTypes
    <3>5. CASE Wait(i) \/ Attempt(i)
      <4>1. ~TimeIsUp(i) /\ reconnect[i] = "ARMED"
        BY <3>5 DEF Wait, Attempt, Resting
      <4>2. ArmedFor(i) < GiveUpAfter
        BY <3>1, <4>1, Constants DEF TimeIsUp
      <4>3. busyFor'[i] \in Nat
        <5>1. busyFor \in [Slots -> 0 .. MaxAttempt]
          BY DEF SchedInv, TypeOK
        <5>2. busyFor' = busyFor \/ busyFor' = [busyFor EXCEPT ![i] = 0]
          BY <3>5 DEF Wait, Attempt, Set
        <5> QED  BY <5>1, <5>2, Constants
      <4>4. OldestHunt(i)' >= AttemptAge
        <5>1. OldestHunt(i)' \in {AttemptAge, AttemptAge + busyFor'[i], AttemptAge + MaxAttempt + 0,
                                  AttemptAge + MaxAttempt + MaxPass + 0}
          BY <1>2 DEF OldestHunt, AttemptAge
        <5> QED  BY <4>3, <5>1, Constants DEF AttemptAge
      <4>5. OldestHunt(i)' \in Int
        BY <1>2, <4>3, Constants DEF OldestHunt, AttemptAge
      <4> QED  BY <3>1, <4>2, <4>4, <4>5, Constants DEF AttemptAge
    <3> QED  BY <1>5, <3>2, <3>3, <3>4, <3>5
  <2>3. conn'[i] # "READY"
    BY <1>5 DEF NotArmed, StillConnecting, AttemptOver, Wait, Attempt, slotVars, Set, SchedInv, TypeOK
  <2>4. armedFor'[i] <= away'[i] \/ away'[i] = Late
    BY <1>1, <1>3, <1>5, <2>1, Constants DEF AgeTypes
  <2>5. GiveUpAfter # 0 => away'[i] <= armedFor'[i] + MaxPass
    BY <1>1, <1>2, <1>3, <1>5, <2>1, Constants DEF AgeTypes
  <2> QED  BY <1>5, <2>1, <2>2, <2>3, <2>4, <2>5
<1>6. NotArmed(i) \/ reconnect[i] = "ARMED"
  BY DEF VisitActions, StillConnecting, AttemptOver, GiveUp, Wait, Attempt, Resting
<1> QED  BY <1>4, <1>5, <1>6 DEF VisitActions

LEMMA AgeEnvironment ==
  ASSUME SchedInv, NEW i \in Slots, Environment, HuntAge(i)
  PROVE  HuntAge(i)'
<1> USE DEF HuntAge
<1>1. AgeTypes(i) /\ Since(i) \in 0 .. MaxPass
  BY AgeTyped, SinceType
<1>2. /\ seen' = seen /\ inFlight' = inFlight /\ armedFor' = armedFor
      /\ Since(i)' = Since(i)
      /\ GiveUpAfter # 0 /\ UserTakes(i) => armedFor[i] < Late
      /\ busyFor'[i] = IF Busy(conn[i]) /\ Busy(conn'[i]) THEN busyFor[i] ELSE 0
      /\ away'[i] = IF seen[i] = "OFF" /\ reconnect'[i] = "OFF" THEN 0 ELSE away[i]
  BY DEF Environment, Others, schedule, Since
<1>3. Turns(i)
  BY EnvironmentTurns
<1>4. reconnect'[i] # "OFF" => conn'[i] # "READY"
  BY <1>1, <1>3 DEF Turns
<1>5. seen[i] # "OFF" => armedFor[i] <= away'[i] \/ away'[i] = Late
  BY <1>2
<1>6. GiveUpAfter # 0 => away'[i] <= (IF seen[i] = "OFF" THEN Since(i) ELSE armedFor[i] + MaxPass)
  BY <1>1, <1>2
<1>7. ASSUME GiveUpAfter # 0, seen[i] # "OFF" PROVE armedFor[i] <= OldestHunt(i)'
  <2>1. armedFor[i] <= OldestHunt(i) /\ armedFor[i] \in Nat /\ busyFor[i] \in 0 .. MaxAttempt
    BY <1>1, <1>7 DEF AgeTypes
  <2>2. busyFor'[i] \in 0 .. MaxAttempt
    BY <1>1, <1>2, Constants DEF AgeTypes
  <2>3. CASE UserTakes(i)
    <3>1. armedFor[i] < Late
      BY <1>2, <1>7, <2>3
    <3> QED  BY <1>1, <1>2, <2>1, <2>2, <3>1, Constants DEF OldestHunt, AttemptAge
  <2>4. CASE reconnect'[i] = "ADOPTED" /\ ~UserTakes(i)
    <3>1. reconnect[i] = "ADOPTED"
      BY <1>1, <1>3, <2>4 DEF UserTakes, Turns, AgeTypes
    <3> QED  BY <2>1, <2>4, <3>1 DEF OldestHunt, AttemptAge
  <2>5. CASE reconnect'[i] = "ARMED" /\ Busy(conn'[i]) /\ ~UserTakes(i)
    <3>1. OldestHunt(i)' = AttemptAge + busyFor'[i]
      BY <2>5 DEF OldestHunt, AttemptAge
    <3>2. CASE reconnect[i] = "ADOPTED"
      BY <2>1, <2>2, <3>1, <3>2, Constants DEF OldestHunt, AttemptAge
    <3>3. CASE reconnect[i] # "ADOPTED"
      <4>1. reconnect[i] = "ARMED" /\ Busy(conn[i])
        BY <1>1, <1>3, <2>5, <3>3 DEF UserTakes, Turns, Busy, AgeTypes
      <4>2. OldestHunt(i) = AttemptAge + busyFor[i] /\ busyFor'[i] = busyFor[i]
        BY <1>2, <2>5, <4>1 DEF OldestHunt
      <4> QED  BY <2>1, <3>1, <4>2
    <3> QED  BY <3>2, <3>3
  <2>6. CASE reconnect'[i] # "ADOPTED" /\ ~(reconnect'[i] = "ARMED" /\ Busy(conn'[i]))
    <3>1. OldestHunt(i)' = IF inFlight[i] THEN AttemptAge + MaxAttempt + Since(i)
                           ELSE AttemptAge + MaxAttempt + MaxPass + Since(i)
      BY <1>2, <2>6 DEF OldestHunt, AttemptAge
    <3> QED  BY <1>1, <2>1, <3>1, Constants DEF OldestHunt, AttemptAge
  <2> QED  BY <1>1, <1>3, <2>3, <2>4, <2>5, <2>6 DEF Turns
<1> QED  BY <1>2, <1>4, <1>5, <1>6, <1>7

LEMMA AgeTick ==
  ASSUME SchedInv, NEW i \in Slots, Tick, HuntAge(i)
  PROVE  HuntAge(i)'
<1> USE DEF HuntAge
<1>1. AgeTypes(i)
  BY AgeTyped
<1>2. /\ conn' = conn /\ reconnect' = reconnect
      /\ seen' = seen /\ inFlight' = inFlight /\ idleLoop < MaxPass
      /\ Busy(conn[i]) => busyFor'[i] = busyFor[i] + 1
      /\ GiveUpAfter # 0 /\ reconnect[i] = "ADOPTED" => armedFor[i] < AttemptAge
      /\ away'[i] = IF seen[i] = "OFF" /\ reconnect[i] = "OFF" THEN 0 ELSE Older(away[i], Late)
      /\ armedFor'[i] = IF seen[i] = "OFF" THEN 0 ELSE (armedFor[i] + 1) % ClockRange
  BY DEF Tick, slotVars, AttemptAge
<1>3. Since(i) = idleLoop /\ Since(i)' = idleLoop + 1
  BY Constants DEF Tick, Since
<1>4. /\ away'[i] \in 0 .. Late /\ away'[i] <= away[i] + 1
      /\ seen[i] # "OFF" => away'[i] = away[i] + 1 \/ away'[i] = Late
  BY <1>1, <1>2, Constants DEF Older, AgeTypes
<1>5. armedFor'[i] <= armedFor[i] + 1 /\ armedFor'[i] \in Nat
  <2>1. CASE armedFor[i] + 1 = ClockRange
    <3>1. ClockRange % ClockRange \in 0 .. ClockRange - 1
      BY Wraps, Constants
    <3> QED  BY <1>1, <1>2, <2>1, <3>1, Constants DEF AgeTypes
  <2>2. CASE armedFor[i] + 1 # ClockRange
    BY <1>1, <1>2, <2>2, NoWrap, Constants DEF AgeTypes
  <2> QED  BY <2>1, <2>2
<1>6. ASSUME GiveUpAfter # 0, seen[i] # "OFF"
      PROVE  armedFor'[i] = armedFor[i] + 1 /\ armedFor'[i] <= OldestHunt(i)'
  <2>1. armedFor[i] <= OldestHunt(i)
    BY <1>6
  <2>2. OldestHunt(i) <= AttemptAge + MaxAttempt + MaxPass + idleLoop
    BY <1>1, <1>3, Constants DEF OldestHunt, AttemptAge, AgeTypes
  <2>3. OldestHunt(i) \in Nat
    BY <1>1, <1>3, Constants DEF OldestHunt, AttemptAge, AgeTypes
  <2>4. armedFor[i] + 1 \in 0 .. ClockRange - 1
    BY <1>1, <1>2, <2>1, <2>2, <2>3, Constants DEF AttemptAge, AgeTypes
  <2>5. armedFor'[i] = armedFor[i] + 1
    BY <1>2, <1>6, <2>4, NoWrap
  <2>6. CASE reconnect[i] = "ADOPTED"
    <3>1. OldestHunt(i)' = AttemptAge
      BY <1>2, <2>6 DEF OldestHunt, AttemptAge
    <3> QED  BY <1>1, <1>2, <1>6, <2>5, <2>6, <3>1, Constants DEF AttemptAge, AgeTypes
  <2>7. CASE reconnect[i] # "ADOPTED"
    <3>1. OldestHunt(i)' = OldestHunt(i) + 1
      BY <1>1, <1>2, <1>3, <2>7, Constants DEF OldestHunt, AttemptAge, AgeTypes
    <3> QED  BY <1>1, <2>1, <2>3, <2>5, <3>1 DEF AgeTypes
  <2> QED  BY <2>5, <2>6, <2>7
<1>7. GiveUpAfter # 0 =>
        away'[i] <= (IF seen[i] = "OFF" THEN idleLoop + 1 ELSE armedFor'[i] + MaxPass)
  BY <1>1, <1>3, <1>4, <1>6, Constants DEF AgeTypes
<1>8. seen[i] # "OFF" => armedFor'[i] <= away'[i] \/ away'[i] = Late
  BY <1>1, <1>4, <1>5 DEF AgeTypes
<1> QED  BY <1>2, <1>3, <1>6, <1>7, <1>8

LEMMA AgeStep ==
  ASSUME SchedInv, AgeInv, Next
  PROVE  AgeInv'
<1> SUFFICES ASSUME NEW i \in Slots PROVE HuntAge(i)'
  BY DEF AgeInv
<1>1. HuntAge(i)
  BY DEF AgeInv
<1>2. CASE VisitActions(i)
  BY <1>1, <1>2, AgeVisit
<1>3. CASE \E j \in Slots \ {i} : VisitActions(j)
  <2>1. PICK j \in Slots \ {i} : VisitActions(j)
    BY <1>3
  <2>2. Since(i)' = Since(i)
    BY <2>1, Visits, SinceVisit DEF VisitActions
  <2> QED  BY <1>1, <2>1, <2>2, OthersUnvisited DEF HuntAge, OldestHunt, AttemptAge
<1>4. CASE Environment
  BY <1>1, <1>4, AgeEnvironment
<1>5. CASE StartPass
  BY <1>1, <1>5, Constants
  DEF StartPass, slotVars, schedule, clocks, HuntAge, OldestHunt, AttemptAge, Since, Slots
<1>6. CASE Tick
  BY <1>1, <1>6, AgeTick
<1> QED  BY <1>2, <1>3, <1>4, <1>5, <1>6 DEF Next, Pass, VisitActions

\* The hunt ends when it has lasted its time: not sooner, and not later although
\* the clock wraps around, users adopt it and attempts are under way at that time.
THEOREM HuntGivenUpOnTime == Spec => GiveUpOnTime
<1> DEFINE OnTime(i) ==
       /\ (reconnect[i] = "ARMED" /\ reconnect'[i] = "OFF" /\ slot' # slot)
            => away[i] >= GiveUpAfter
       /\ Rescan(i) /\ GiveUpAfter # 0 => away[i] < GiveUpAfter + MaxPass
<1>1. Init => AgeInv
  <2> SUFFICES ASSUME Init, NEW i \in Slots PROVE HuntAge(i)
    BY DEF AgeInv
  <2>1. Since(i) = 0
    BY DEF Init, Since
  <2> QED  BY <2>1, Constants DEF Init, HuntAge
<1>2. SchedInv /\ AgeInv /\ [Next]_vars => AgeInv'
  <2>1. CASE UNCHANGED vars
    BY <2>1 DEF vars, slotVars, schedule, clocks, AgeInv, HuntAge, OldestHunt, AttemptAge, Since
  <2> QED  BY <2>1, AgeStep
<1>3. ASSUME SchedInv, AgeInv, Next, NEW i \in Slots,
             reconnect[i] = "ARMED", reconnect'[i] = "OFF", slot' # slot
      PROVE  away[i] >= GiveUpAfter
  <2>1. GiveUp(i)
    <3>1. ~(Tick \/ StartPass \/ Environment)
      BY <1>3 DEF Tick, StartPass, slotVars, Environment, Others
    <3>2. VisitActions(i)
      BY <1>3, <3>1, OthersUnvisited DEF Next, Pass, VisitActions
    <3> QED
      BY <1>3, <3>2
      DEF VisitActions, NotArmed, StillConnecting, AttemptOver, Wait, Attempt, slotVars
  <2>2. GiveUpAfter # 0 /\ ArmedFor(i) >= GiveUpAfter
    BY <2>1 DEF GiveUp, TimeIsUp
  <2>3. ArmedFor(i) = armedFor[i] /\ seen[i] # "OFF"
    BY <1>3, <2>2, Found, Constants
  <2>4. away[i] \in Nat /\ armedFor[i] \in Nat
    BY <1>3 DEF SchedInv, TypeOK
  <2> QED  BY <1>3, <2>2, <2>3, <2>4, Constants DEF AgeInv, HuntAge
<1>4. ASSUME SchedInv, AgeInv, Next, NEW i \in Slots, Rescan(i), GiveUpAfter # 0
      PROVE  away[i] < GiveUpAfter + MaxPass
  <2>1. seen[i] # "OFF" /\ reconnect[i] = "ARMED" /\ armedFor[i] < GiveUpAfter
    BY <1>4, RescanAttempts, AttemptIsDue
  <2>2. away[i] \in Nat /\ armedFor[i] \in Nat
    BY <1>4 DEF SchedInv, TypeOK
  <2> QED  BY <1>4, <2>1, <2>2, Constants DEF AgeInv, HuntAge
<1>5. SchedInv /\ AgeInv /\ [Next]_vars => [\A i \in Slots : OnTime(i)]_vars
  BY <1>3, <1>4
<1> QED  BY <1>1, <1>2, <1>5, SchedInit, SchedStep, PTL DEF Spec, GiveUpOnTime

-----------------------------------------------------------------------------
(* The lifecycle of a slot. *)

\* The pass, too, takes slots only through the steps of SlotLifecycle: what
\* ControlLoop does to a slot and what the schedule does are steps of one and the
\* same state machine, so that neither can do what the other does not expect.
THEOREM ScheduleKeepsLifecycle == Spec => Lifecycle!Spec
<1>1. Init => Lifecycle!Init
  BY DEF Init, Lifecycle!Init
<1>2. SchedInv /\ [Next]_vars => [Lifecycle!Next]_(Lifecycle!lifecycleVars)
  <2> SUFFICES ASSUME SchedInv, [Next]_vars, conn' # conn \/ reconnect' # reconnect
               PROVE  Lifecycle!Next
    BY DEF Lifecycle!lifecycleVars
  <2>1. CASE Environment
    BY <2>1 DEF Environment
  <2>2. ASSUME NEW i \in Slots, Attempt(i) PROVE Lifecycle!Next
    <3>1. Lifecycle!Request(i)
      BY <2>2 DEF Attempt, Attempts, Set, Lifecycle!Request, Lifecycle!Moves
    <3> QED  BY <3>1 DEF Lifecycle!Next
  <2>3. ASSUME NEW i \in Slots, GiveUp(i) PROVE Lifecycle!Next
    <3>1. reconnect' = [s \in Slots |-> IF s \in {i} THEN "OFF" ELSE reconnect[s]]
      BY <2>3 DEF GiveUp, Set, SchedInv, TypeOK
    <3>2. Lifecycle!Disarm({i})
      BY <2>3, <3>1 DEF GiveUp, Lifecycle!Disarm
    <3> QED  BY <3>2 DEF Lifecycle!Next
  <2>4. ~(StartPass \/ Tick \/ UNCHANGED vars)
    BY DEF StartPass, Tick, vars, slotVars
  <2>5. ~\E i \in Slots : NotArmed(i) \/ StillConnecting(i) \/ AttemptOver(i) \/ Wait(i)
    BY DEF NotArmed, StillConnecting, AttemptOver, Wait, slotVars
  <2> QED  BY <2>1, <2>2, <2>3, <2>4, <2>5 DEF Next, Pass
<1> QED  BY <1>1, <1>2, SchedInit, SchedStep, PTL DEF Spec, Lifecycle!Spec

=============================================================================

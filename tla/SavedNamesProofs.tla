-------------------------- MODULE SavedNamesProofs --------------------------
(***************************************************************************)
(* Proofs about SavedNames, for every number of slots and every set of     *)
(* sensor names.                                                           *)
(***************************************************************************)
EXTENDS SavedNames, TLAPS

-----------------------------------------------------------------------------
(* Types. *)

LEMMA SlotZero == 0 \in Slots /\ \A i \in Slots : i < N - 1 => i + 1 \in Slots
BY NamesAssumption DEF Slots

LEMMA TypeInit == Init => TypeOK
BY SlotZero DEF Init, TypeOK, All, Names

LEMMA TypeStep == TypeOK /\ [Next]_vars => TypeOK'
<1> SUFFICES ASSUME TypeOK, [Next]_vars PROVE TypeOK'
  OBVIOUS
<1> USE DEF TypeOK, Set, Names, flash, names, slots, setup, places, tasks, forget, history
<1>1. CASE BootWithoutNames
  BY <1>1 DEF BootWithoutNames, All
<1>2. CASE Migrate
  BY <1>2, SlotZero DEF Migrate
<1>3. CASE LoadSlot
  BY <1>3, SlotZero DEF LoadSlot
<1>4. CASE Reset
  BY <1>4, SlotZero DEF Reset, All
<1>5. ASSUME NEW i \in Slots, UserConnects(i) PROVE TypeOK'
  BY <1>5 DEF UserConnects, ForgetBegins
<1>6. ASSUME NEW i \in Slots, FirmwareLooks(i) \/ Fails(i) \/ FailsAtBoot(i) \/ Disarms(i)
      PROVE  TypeOK'
  BY <1>6 DEF FirmwareLooks, Fails, FailsAtBoot, Disarms
<1>7. CASE FirmwareClaims \/ ArmsFailed
  BY <1>7, SlotZero DEF FirmwareClaims, ArmsFailed
<1>8. ASSUME NEW i \in Slots, NEW s \in Sensors, BecomesReady(i, s)
      PROVE  TypeOK'
  BY <1>8 DEF BecomesReady, Forgetting
<1>9. CASE PutKey \/ SetFlag \/ SetTarget
  BY <1>9, SlotZero DEF PutKey, SetFlag, SetTarget
<1>10. ASSUME NEW i \in Slots, Disconnects(i) \/ ReleaseReads(i) PROVE TypeOK'
  BY <1>10 DEF Disconnects, ReleaseReads
<1>11. CASE ReleaseLost
  BY <1>11, SlotZero DEF ReleaseLost
<1>12. ASSUME NEW i \in Slots, ForgetsNothing(i) \/ Forgets(i) PROVE TypeOK'
  BY <1>12 DEF ForgetsNothing, Forgets, ForgetEnds
<1>13. CASE ForgetDisconnects \/ RemoveKey
  BY <1>13 DEF ForgetDisconnects, RemoveKey, ForgetBegins
<1>14. CASE ClearFlag
  BY <1>14, SlotZero DEF ClearFlag, ForgetEnds
<1>15. CASE UNCHANGED vars
  BY <1>15 DEF vars
<1> QED
  BY <1>1, <1>2, <1>3, <1>4, <1>5, <1>6, <1>7, <1>8, <1>9, <1>10, <1>11, <1>12, <1>13,
     <1>14, <1>15 DEF Next, Setup, Connecting, Saving, Releasing, Forget

\* Flash, RAM and the places of the tasks have their types.
THEOREM TypeCorrect == Spec => []TypeOK
BY TypeInit, TypeStep, PTL DEF Spec

-----------------------------------------------------------------------------
(* NamesAgree. *)

\* Flag, key and target of slot i say the same.
Agree(i) ==
    /\ saved[i] <=> key[i] # NoName
    /\ saved[i] => target[i] = key[i] /\ found

\* Up to where setup() has got: the slots before it are loaded, the others
\* have the flags of a fresh start.
BootInv ==
    /\ ~Running => worker = "idle" /\ uart = "idle" /\ loop = "idle"
    /\ boot = "migrate" => \A i \in Slots : ~saved[i]
    /\ boot = "load" => \A i \in Slots : IF i < loading THEN Agree(i) ELSE ~saved[i]

\* The lifecycle lock keeps the sensor of the slot that is being saved, and keeps
\* a forget out of the save unless the slot became READY in the middle of it.
LockInv ==
    /\ \A i \in Slots : Locked(i) => conn[i] \in Sensors
    /\ \A i \in Slots : ~raced[i] => ~(Locked(i) /\ Forgetting(i))

\* How far a save or a forget of slot i has got.
Progress(i) ==
    /\ ~Forgetting(i) /\ ~Locked(i) => Agree(i)
    /\ Locked(i) /\ worker \in {"setFlag", "setTarget"} => key[i] = conn[i]
    /\ Locked(i) /\ worker = "setTarget" => saved[i]
    /\ Forgetting(i) /\ uart = "clearFlag" => key[i] = NoName

SlotInv == \A i \in Slots : Running /\ ~failed[i] /\ ~raced[i] => Progress(i)

NamesInv == TypeOK /\ BootInv /\ LockInv /\ SlotInv

LEMMA NamesInit == Init => NamesInv
BY TypeInit DEF Init, NamesInv, BootInv, LockInv, SlotInv, Running, Locked, Forgetting, All

\* What one step of the boot does to the slots.
LEMMA LoadSlotLoads ==
  ASSUME NamesInv, LoadSlot
  PROVE  /\ \A i \in Slots : IF i < loading' \/ boot' = "run" THEN Agree(i)' ELSE ~saved'[i]
         /\ boot' = "run" => loading = N - 1
         /\ boot' \in {"load", "run"} /\ key' = key
<1>1. ASSUME NEW i \in Slots, i = loading PROVE Agree(i)'
  BY <1>1 DEF LoadSlot, Agree, NamesInv, TypeOK, BootInv, Slots, Set, flash
<1>2. ASSUME NEW i \in Slots, i < loading PROVE Agree(i)'
  BY <1>2 DEF LoadSlot, Agree, NamesInv, TypeOK, BootInv, Slots, Set, flash
<1>3. ASSUME NEW i \in Slots, i > loading PROVE ~saved'[i]
  <2>1. i # loading /\ ~(i < loading)
    BY <1>3, NamesAssumption DEF NamesInv, TypeOK, Slots
  <2> QED  BY <2>1 DEF LoadSlot, NamesInv, TypeOK, BootInv, Set
<1>4. /\ boot' = "run" => loading = N - 1
      /\ boot' = "load" => loading' = loading + 1
      /\ boot' \in {"load", "run"} /\ key' = key
  BY NamesAssumption DEF LoadSlot, NamesInv, TypeOK, Slots, flash
<1>5. loading \in Slots /\ N \in Nat
  BY NamesAssumption DEF NamesInv, TypeOK
<1>6. ASSUME NEW i \in Slots PROVE i < loading \/ i = loading \/ i > loading
  BY <1>5 DEF Slots
<1>7. ASSUME NEW i \in Slots, i < loading' \/ boot' = "run" PROVE Agree(i)'
  BY <1>1, <1>2, <1>4, <1>5, <1>7 DEF Slots
<1>8. ASSUME NEW i \in Slots, ~(i < loading' \/ boot' = "run") PROVE ~saved'[i]
  BY <1>3, <1>4, <1>5, <1>8 DEF Slots
<1> QED  BY <1>4, <1>7, <1>8

\* What the claims, the failures and the hunts leave alone.
LEMMA ConnectingKeeps ==
  ASSUME NamesInv, Connecting
  PROVE  /\ Running /\ UNCHANGED <<flash, names, conn, setup, uart, uslot, failed, raced>>
         /\ \A i \in Slots : Locked(i)' <=> Locked(i)
         /\ worker' # worker => {worker, worker'} = {"idle", "arm"}
<1> USE DEF NamesInv, BootInv, Running, Locked, slots, places, tasks, forget, history
<1>1. ASSUME NEW i \in Slots,
             UserConnects(i) \/ FirmwareLooks(i) \/ Fails(i) \/ FailsAtBoot(i) \/ Disarms(i)
      PROVE  /\ Running /\ UNCHANGED <<flash, names, conn, setup, uart, uslot, failed, raced>>
             /\ \A k \in Slots : Locked(k)' <=> Locked(k)
             /\ worker' # worker => {worker, worker'} = {"idle", "arm"}
  BY <1>1 DEF UserConnects, FirmwareLooks, Fails, FailsAtBoot, Disarms
<1>2. CASE FirmwareClaims \/ ArmsFailed
  BY <1>2 DEF FirmwareClaims, ArmsFailed
<1> QED  BY <1>1, <1>2 DEF Connecting

\* What a teardown other than a forget's leaves alone.
LEMMA ReleasingKeeps ==
  ASSUME NamesInv, Releasing
  PROVE  /\ Running
         /\ UNCHANGED <<flash, names, setup, worker, uart, wslot, uslot, history>>
         /\ \A i \in Slots : conn'[i] # conn[i] => conn'[i] = NoName /\ ~Locked(i)
<1> USE DEF NamesInv, TypeOK, BootInv, Running, Set, places, tasks
<1>1. ASSUME NEW i \in Slots, Disconnects(i) \/ ReleaseReads(i)
      PROVE  /\ Running
             /\ UNCHANGED <<flash, names, setup, worker, uart, wslot, uslot, history>>
             /\ \A k \in Slots : conn'[k] # conn[k] => conn'[k] = NoName /\ ~Locked(k)
  BY <1>1 DEF Disconnects, ReleaseReads, slots
<1>2. CASE ReleaseLost
  BY <1>2 DEF ReleaseLost
<1> QED  BY <1>1, <1>2 DEF Releasing

LEMMA BootStep ==
  ASSUME NamesInv, Next
  PROVE  BootInv'
<1> USE DEF NamesInv, TypeOK, BootInv, Agree, Running, Set, flash, names, slots, setup, places,
        tasks, forget, history
<1>1. CASE BootWithoutNames
  BY <1>1 DEF BootWithoutNames
<1>2. CASE Migrate
  BY <1>2 DEF Migrate, Slots
<1>3. CASE LoadSlot
  <2>1. worker' = worker /\ uart' = uart /\ loop' = loop
    BY <1>3 DEF LoadSlot
  <2> QED  BY <1>3, <2>1, LoadSlotLoads DEF LoadSlot
<1>4. CASE Reset
  BY <1>4 DEF Reset, All
<1>5. CASE Connecting
  BY <1>5, ConnectingKeeps
<1>6. CASE \E i \in Slots, s \in Sensors : BecomesReady(i, s)
  BY <1>6 DEF BecomesReady
<1>7. CASE PutKey \/ SetFlag \/ SetTarget
  BY <1>7 DEF PutKey, SetFlag, SetTarget
<1>8. CASE Releasing
  BY <1>8, ReleasingKeeps
<1>9. CASE \E i \in Slots : ForgetsNothing(i) \/ Forgets(i)
  BY <1>9 DEF ForgetsNothing, Forgets
<1>10. CASE ForgetDisconnects \/ RemoveKey \/ ClearFlag
  BY <1>10 DEF ForgetDisconnects, RemoveKey, ClearFlag
<1> QED
  BY <1>1, <1>2, <1>3, <1>4, <1>5, <1>6, <1>7, <1>8, <1>9, <1>10
  DEF Next, Setup, Saving, Forget

LEMMA LockStep ==
  ASSUME NamesInv, Next
  PROVE  LockInv'
<1> USE DEF NamesInv, TypeOK, BootInv, LockInv, Running, Locked, Forgetting, Set, flash, names,
        slots, setup, places, tasks, forget, history
<1>1. CASE BootWithoutNames \/ Migrate
  BY <1>1 DEF BootWithoutNames, Migrate
<1>3. CASE LoadSlot
  BY <1>3 DEF LoadSlot
<1>4. CASE Reset
  BY <1>4 DEF Reset
<1>5. CASE Connecting
  BY <1>5, ConnectingKeeps
<1>6. ASSUME NEW j \in Slots, NEW s \in Sensors, BecomesReady(j, s)
      PROVE  LockInv'
  <2>1. wslot' = j /\ conn'[j] = s
    BY <1>6 DEF BecomesReady
  <2>2. ASSUME NEW i \in Slots, Locked(i)', Forgetting(i)'
        PROVE  raced'[i]
    BY <1>6, <2>1, <2>2 DEF BecomesReady
  <2> QED  BY <2>1, <2>2
<1>7. CASE PutKey \/ SetFlag \/ SetTarget
  BY <1>7 DEF PutKey, SetFlag, SetTarget
<1>8. CASE Releasing
  BY <1>8, ReleasingKeeps
<1>9. CASE \E i \in Slots : ForgetsNothing(i) \/ Forgets(i)
  BY <1>9 DEF ForgetsNothing, Forgets
<1>10. CASE ForgetDisconnects
  BY <1>10 DEF ForgetDisconnects
<1>11. CASE RemoveKey \/ ClearFlag
  BY <1>11 DEF RemoveKey, ClearFlag
<1> QED
  BY <1>1, <1>3, <1>4, <1>5, <1>6, <1>7, <1>8, <1>9, <1>10, <1>11
  DEF Next, Setup, Saving, Forget

LEMMA SlotStep ==
  ASSUME NamesInv, Next
  PROVE  SlotInv'
<1> SUFFICES ASSUME NEW i \in Slots, Running', ~failed'[i], ~raced'[i]
             PROVE  Progress(i)'
  BY DEF SlotInv
<1> USE DEF NamesInv, TypeOK, LockInv, SlotInv, Progress, Agree, Running, Locked,
        Forgetting, Names, Set, flash, names, slots, setup, places, tasks, forget, history
<1>1. CASE BootWithoutNames
  BY <1>1 DEF BootWithoutNames, All
<1>2. CASE Migrate \/ Reset
  BY <1>2 DEF Migrate, Reset
<1>3. CASE LoadSlot
  <2>1. Agree(i)' /\ worker' = "idle" /\ uart' = "idle"
    BY <1>3, LoadSlotLoads DEF LoadSlot, BootInv
  <2> QED  BY <2>1
<1>4. CASE Connecting
  BY <1>4, ConnectingKeeps
<1>5. CASE \E j \in Slots, s \in Sensors : BecomesReady(j, s)
  BY <1>5 DEF BecomesReady
<1>6. CASE PutKey
  BY <1>6, NamesAssumption DEF PutKey
<1>7. CASE SetFlag
  BY <1>7 DEF SetFlag
<1>8. CASE SetTarget
  BY <1>8, NamesAssumption DEF SetTarget
<1>9. CASE Releasing
  BY <1>9, ReleasingKeeps
<1>10. CASE \E j \in Slots : ForgetsNothing(j) \/ Forgets(j)
  BY <1>10 DEF ForgetsNothing, Forgets
<1>11. CASE ForgetDisconnects
  BY <1>11 DEF ForgetDisconnects
<1>12. CASE RemoveKey
  BY <1>12 DEF RemoveKey
<1>13. CASE ClearFlag
  BY <1>13 DEF ClearFlag
<1> QED
  BY <1>1, <1>2, <1>3, <1>4, <1>5, <1>6, <1>7, <1>8, <1>9, <1>10, <1>11, <1>12, <1>13
  DEF Next, Setup, Saving, Forget

LEMMA NamesStep == NamesInv /\ [Next]_vars => NamesInv'
<1>1. CASE UNCHANGED vars
  BY <1>1, TypeStep
  DEF vars, flash, names, slots, setup, places, tasks, history, NamesInv, BootInv, LockInv,
      SlotInv, Progress, Agree, Running, Locked, Forgetting
<1> QED  BY <1>1, TypeStep, BootStep, LockStep, SlotStep DEF NamesInv

\* Whatever the order of saves and forgets, and wherever the board is reset, flash,
\* flag and target of a slot agree once nobody is changing them.
THEOREM SavedNamesAgree == Spec => []NamesAgree
<1>1. NamesInv => NamesAgree
  BY DEF NamesInv, SlotInv, Progress, Locked, Forgetting, NamesAgree, AtRest, Agree
<1> QED  BY <1>1, NamesInit, NamesStep, PTL DEF Spec

-----------------------------------------------------------------------------
(* MigrationKeepsNames. *)

\* setup() loses no name that is in flash, and ends with what it found saved.
THEOREM BootKeepsNames == Spec => MigrationKeepsNames
<1> DEFINE Kept == /\ ~Running => \A i \in Slots : key[i] # NoName => key'[i] = key[i]
                   /\ boot = "load" /\ boot' = "run" =>
                         \A i \in Slots : saved'[i] <=> key[i] # NoName
<1>1. ASSUME NamesInv, [Next]_vars, ~Running, NEW i \in Slots, key[i] # NoName
      PROVE  key'[i] = key[i]
  <2> USE DEF NamesInv, TypeOK, BootInv, Running, Set, flash
  <2>1. CASE Setup
    BY <1>1, <2>1 DEF Setup, BootWithoutNames, Migrate, MustMigrate, LoadSlot
  <2>2. CASE Reset
    BY <2>2 DEF Reset
  <2>3. ~(Connecting \/ Releasing)
    BY <1>1, ConnectingKeeps, ReleasingKeeps
  <2>4. ~(Saving \/ Forget)
    BY <1>1
    DEF Saving, BecomesReady, PutKey, SetFlag, SetTarget, Forget, ForgetsNothing, Forgets,
        ForgetDisconnects, RemoveKey, ClearFlag
  <2> QED  BY <1>1, <2>1, <2>2, <2>3, <2>4 DEF Next, vars
<1>2. ASSUME NamesInv, [Next]_vars, boot = "load", boot' = "run", NEW i \in Slots
      PROVE  saved'[i] <=> key[i] # NoName
  <2> USE DEF NamesInv, TypeOK, BootInv, Running
  <2>1. ~(Connecting \/ Releasing)
    BY <1>2, ConnectingKeeps, ReleasingKeeps
  <2>2. ~(Saving \/ Forget)
    BY <1>2
    DEF Saving, BecomesReady, PutKey, SetFlag, SetTarget, Forget, ForgetsNothing, Forgets,
        ForgetDisconnects, RemoveKey, ClearFlag
  <2>3. LoadSlot
    BY <1>2, <2>1, <2>2 DEF Next, vars, setup, Setup, BootWithoutNames, Migrate, Reset
  <2> QED  BY <1>2, <2>3, LoadSlotLoads DEF Agree
<1>3. NamesInv /\ [Next]_vars => Kept
  BY <1>1, <1>2
<1>4. Kept => [Kept]_vars
  OBVIOUS
<1> QED  BY <1>3, NamesInit, NamesStep, PTL DEF Spec, MigrationKeepsNames

-----------------------------------------------------------------------------
(* ForgottenStays. *)

Excused(i) == notRemoved[i] \/ overtaken[i] \/ (i = 0 /\ legacy # NoName)

\* While its forget goes on, a slot that was torn down is connected only if it became
\* READY in the middle.  Once it has ended and is not excused, nobody saves the slot
\* any more or is about to claim it.
ForgetInv ==
    \A i \in Slots :
        forgotten[i] =>
            /\ Forgetting(i) => claim[i] # "user" /\ (conn[i] # NoName => raced[i])
            /\ \/ Forgetting(i)
               \/ Excused(i)
               \/ Gone(i) /\ ~Locked(i) /\ ~(loop = "claim" /\ lslot = i)

LEMMA ForgetStep ==
  ASSUME NamesInv, ForgetInv, Next
  PROVE  ForgetInv'
<1> SUFFICES ASSUME NEW i \in Slots, forgotten'[i]
             PROVE  /\ Forgetting(i)' => claim'[i] # "user" /\ (conn'[i] # NoName => raced'[i])
                    /\ \/ Forgetting(i)'
                       \/ Excused(i)'
                       \/ Gone(i)' /\ ~Locked(i)' /\ ~(loop' = "claim" /\ lslot' = i)
  BY DEF ForgetInv
<1> USE DEF NamesInv, TypeOK, ForgetInv, Excused, Gone, Free, Running, Locked, Forgetting, Set,
        flash, names, slots, setup, places, tasks, forget, history
<1>1. CASE BootWithoutNames \/ Reset
  BY <1>1 DEF BootWithoutNames, Reset, BootInv, All
<1>2. CASE Migrate
  BY <1>2 DEF Migrate, MustMigrate
<1>3. CASE LoadSlot
  BY <1>3 DEF LoadSlot
<1>4. ASSUME NEW j \in Slots, UserConnects(j) \/ FirmwareLooks(j) \/ Fails(j)
      PROVE  /\ Forgetting(i)' => claim'[i] # "user" /\ (conn'[i] # NoName => raced'[i])
             /\ \/ Forgetting(i)'
                \/ Excused(i)'
                \/ Gone(i)' /\ ~Locked(i)' /\ ~(loop' = "claim" /\ lslot' = i)
  BY <1>4 DEF UserConnects, ForgetBegins, FirmwareLooks, Fails
<1>5. ASSUME NEW j \in Slots, FailsAtBoot(j) \/ Disarms(j)
      PROVE  /\ Forgetting(i)' => claim'[i] # "user" /\ (conn'[i] # NoName => raced'[i])
             /\ \/ Forgetting(i)'
                \/ Excused(i)'
                \/ Gone(i)' /\ ~Locked(i)' /\ ~(loop' = "claim" /\ lslot' = i)
  BY <1>5 DEF FailsAtBoot, Disarms
<1>6. CASE FirmwareClaims
  BY <1>6 DEF FirmwareClaims
<1>7. CASE ArmsFailed
  BY <1>7 DEF ArmsFailed
<1>8. CASE \E j \in Slots, s \in Sensors : BecomesReady(j, s)
  BY <1>8 DEF BecomesReady
<1>9. CASE PutKey \/ SetFlag \/ SetTarget
  BY <1>9 DEF PutKey, SetFlag, SetTarget
<1>10. CASE Releasing
  BY <1>10 DEF Releasing, Disconnects, ReleaseReads, ReleaseLost
<1>11. ASSUME NEW j \in Slots, ForgetsNothing(j)
       PROVE  ~Forgetting(i)' /\ (Excused(i)' \/ (Gone(i)' /\ ~Locked(i)' /\ ~(loop' = "claim" /\ lslot' = i)))
  <2>1. ~Forgetting(i)' /\ ~Forgetting(i) /\ (Locked(i)' <=> Locked(i))
    BY <1>11 DEF ForgetsNothing
  <2>2. CASE i # j
    BY <1>11, <2>1, <2>2 DEF ForgetsNothing, ForgetEnds
  <2>3. CASE i = j
    <3>1. ~Locked(i)
      BY <1>11, <2>3, NamesAssumption DEF ForgetsNothing, LockInv
    <3>2. CASE failed[i] \/ raced[i]
      BY <1>11, <2>3, <3>2 DEF ForgetsNothing, ForgetEnds
    <3>3. CASE ~failed[i] /\ ~raced[i]
      <4>1. key[i] = NoName
        BY <1>11, <2>1, <2>3, <3>1, <3>3 DEF ForgetsNothing, SlotInv, Progress, Agree
      <4> QED  BY <1>11, <2>1, <2>3, <3>1, <4>1 DEF ForgetsNothing, ForgetEnds
    <3> QED  BY <2>1, <3>2, <3>3
  <2> QED  BY <2>2, <2>3
<1>12. CASE \E j \in Slots : Forgets(j)
  BY <1>12 DEF Forgets
<1>13. CASE ForgetDisconnects
  BY <1>13 DEF ForgetDisconnects, ForgetBegins
<1>14. CASE RemoveKey
  BY <1>14 DEF RemoveKey
<1>15. CASE ClearFlag
  BY <1>15 DEF ClearFlag, ForgetEnds, LockInv, SlotInv, BootInv, Progress
<1> QED
  BY <1>1, <1>2, <1>3, <1>4, <1>5, <1>6, <1>7, <1>8, <1>9, <1>10, <1>11, <1>12, <1>13, <1>14,
     <1>15 DEF Next, Setup, Connecting, Saving, Forget

\* Once a forget has ended, and until a user asks for a connect, nothing the firmware
\* does by itself connects, saves or looks for the sensor, across resets and failing
\* flash.  The three exceptions are those of ForgottenStays: a key that could not be
\* removed or read (notRemoved), a firmware connect already under way when the flag was
\* cleared (overtaken), and the v1 name of slot 0.
THEOREM ForgottenIsFinal == Spec => []ForgottenStays
<1>1. Init => ForgetInv
  BY DEF Init, ForgetInv, All
<1>2. NamesInv /\ ForgetInv /\ [Next]_vars => ForgetInv'
  <2>1. CASE UNCHANGED vars
    BY <2>1
    DEF vars, flash, names, slots, setup, places, tasks, forget, history, ForgetInv, Excused,
        Gone, Free, Locked, Forgetting
  <2> QED  BY <2>1, ForgetStep
<1>3. ForgetInv => ForgottenStays
  BY DEF ForgetInv, ForgottenStays, Excused
<1> QED  BY <1>1, <1>2, <1>3, NamesInit, NamesStep, PTL DEF Spec

=============================================================================

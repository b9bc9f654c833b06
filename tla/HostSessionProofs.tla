------------------------- MODULE HostSessionProofs -------------------------
(***************************************************************************)
(* Proofs about HostSession, for every number of slots, every depth of the *)
(* sample queue and every bound.                                           *)
(***************************************************************************)
EXTENDS HostSession, TLAPS

Busy == {"announce", "hello", "list", "connect", "start", "fields", "publish"}
Opening == {"start", "fields", "publish"}
Resending == {"resendInfo", "resendFields"}

-----------------------------------------------------------------------------
(* Types, and samples. *)

\* What the types need besides: a resend is about a slot, and a queued sample is owed.
CountInv ==
    /\ uart \in Resending => uslot \in Slots
    /\ \A i \in Slots : queue[i] <= owed[i]

\* Who is at work on a slot: the worker has the slots that are CONNECTING and the
\* sessions that are open without their slot being READY.
PlaceInv ==
    /\ worker \in Busy => conn[wslot] # "READY"
    /\ \A i \in Slots : conn[i] = "CONNECTING" => worker \in Busy /\ wslot = i
    /\ \A i \in Slots : open[i] /\ conn[i] # "READY" => worker \in Opening /\ wslot = i
    /\ teardown = "drain" /\ open[tslot] => worker \in Opening /\ wslot = tslot

-----------------------------------------------------------------------------
(* The handshake. *)

\* Nobody has sent the first handshake yet, or the worker is about to.
First == hostLink = "SILENT" \/ worker = "hello"

FirstInv ==
    /\ hostLink = "SILENT" => worker \in {"idle", "announce"} /\ uart = "idle"
    /\ First => /\ \A i \in Slots : conn[i] # "READY" /\ introduced[i] = {}
                /\ uart \notin Resending

GreetInv ==
    ~greeted =>
        /\ First \/ uart = "handshake"
        /\ worker \notin Opening /\ uart \notin Resending /\ sampler = "look"
        /\ \A i \in Slots : conn[i] # "READY" /\ introduced[i] = {}

-----------------------------------------------------------------------------
(* The introduction. *)

\* A READY slot was introduced, and the worker goes frame by frame.
IntroInv ==
    /\ \A i \in Slots : conn[i] = "READY" => introduced[i] = Frames
    /\ worker \in {"fields", "publish"} /\ conn[wslot] = "CONNECTING" => "info" \in introduced[wslot]
    /\ worker = "publish" /\ conn[wslot] = "CONNECTING" => "fields" \in introduced[wslot]

\* The slot that is being served is one of an introduced session, or of none.
TakeInv ==
    sampler # "look" =>
        /\ worker \in Opening => wslot # vslot
        /\ (queue[vslot] = 0 /\ ~open[vslot]) \/ "fields" \in introduced[vslot]

-----------------------------------------------------------------------------
(* What the host knows. *)

\* The uart task has told the host of slot i, in the answer under way or in one
\* the host relies on.
Told(i) ==
    \/ rebuilt
    \/ uart \in Resending \cup {"resend"} /\ i < uslot
    \/ uart = "handle" /\ FirstContact /\ command # "C_DEV_LIST"

Listed ==
    \/ rebuilt
    \/ uart \in Resending \cup {"resend"} /\ command = "C_DEV_LIST"
    \/ uart = "handle" /\ FirstContact /\ command # "C_DEV_LIST"

AnswerInv ==
    /\ rebuilt => listening /\ uart = "idle"
    /\ ~listening => \A i \in Slots : table[i] = {}
    /\ uart = "handshake" /\ prev = "SILENT" =>
         /\ worker \in {"idle", "announce", "list", "connect", "tell"}
         /\ \A i \in Slots : conn[i] # "READY" /\ introduced[i] = {}

\* A slot that is being introduced is known as far as it was introduced.
KnownInv ==
    /\ \A i \in Slots : listening /\ conn[i] # "READY" /\ ~lost[i] => introduced[i] \subseteq table[i]
    /\ uart \in Resending => conn[uslot] = "READY" \/ ~lost[uslot]
    /\ uart = "resendFields" /\ listening /\ conn[uslot] = "READY" => "info" \in table[uslot]

\* A READY slot is known if the host was told of it.
ToldInv ==
    \A i \in Slots : listening /\ conn[i] = "READY" =>
        /\ Told(i) /\ ~lost[i] => Frames \subseteq table[i]
        /\ Listed => "listed" \in table[i] \/ (worker = "tell" /\ wslot = i)

-----------------------------------------------------------------------------
(* Types. *)

LEMMA SlotFacts ==
    /\ 0 \in Slots /\ 0 \in 0 .. N
    /\ \A i \in Slots : i \in 0 .. N /\ i + 1 \in 0 .. N /\ i \in Nat
    /\ Depth \in Nat \ {0} /\ MaxSamples \in Nat /\ MaxRestarts \in Nat /\ MaxCommands \in Nat
BY HostAssumption DEF Slots

LEMMA TypeInit == Init => TypeOK /\ CountInv
<1> SUFFICES ASSUME Init PROVE TypeOK /\ CountInv
  OBVIOUS
<1> USE SlotFacts DEF Init, All
<1>1. /\ conn \in [Slots -> {"IDLE", "CONNECTING", "READY"}]
      /\ open \in [Slots -> BOOLEAN] /\ streaming \in [Slots -> BOOLEAN]
      /\ queue \in [Slots -> 0 .. Depth] /\ dropped \in [Slots -> Nat] /\ owed \in [Slots -> Nat]
  OBVIOUS
<1>2. /\ table \in [Slots -> SUBSET (Frames \cup {"listed"})]
      /\ introduced \in [Slots -> SUBSET Frames] /\ lost \in [Slots -> BOOLEAN]
      /\ {listening, rebuilt, greeted} \subseteq BOOLEAN
  OBVIOUS
<1>3. restarts \in 0 .. MaxRestarts /\ commands \in 0 .. MaxCommands /\ samples \in 0 .. MaxSamples
  OBVIOUS
<1>4. CountInv
  BY DEF CountInv, Resending
<1> QED
  BY <1>1, <1>2, <1>3, <1>4 DEF TypeOK

\* What a frame does to the wire keeps the types.
LEMMA WireTypes ==
    ASSUME TypeOK, NEW i \in Slots,
           \/ SendHello \/ SendInfo(i) \/ SendFields(i) \/ IntroducedAgain(i) \/ emitDevList
           \/ UNCHANGED wireVars
    PROVE  /\ table' \in [Slots -> SUBSET (Frames \cup {"listed"})]
           /\ introduced' \in [Slots -> SUBSET Frames]
           /\ lost' \in [Slots -> BOOLEAN] /\ greeted' \in BOOLEAN
<1> USE DEF TypeOK
<1>1. CASE SendHello
  BY <1>1 DEF SendHello, All, Missed
<1>2. CASE SendInfo(i) \/ SendFields(i)
  BY <1>2 DEF SendInfo, SendFields, Learns, Set, Frames
<1>3. CASE IntroducedAgain(i)
  BY <1>3 DEF IntroducedAgain, Learns, Set, Frames
<1>4. CASE emitDevList
  <2>1. table' \in [Slots -> SUBSET (Frames \cup {"listed"})]
    BY <1>4 DEF emitDevList
  <2> QED
    BY <1>4, <2>1 DEF emitDevList
<1>5. CASE UNCHANGED wireVars
  BY <1>5 DEF wireVars
<1> QED
  BY <1>1, <1>2, <1>3, <1>4, <1>5

\* What the end of a session does keeps the types.
LEMMA EndTypes ==
    ASSUME TypeOK, CountInv, NEW i \in Slots, SessionEnds(i)
    PROVE  /\ table' \in [Slots -> SUBSET (Frames \cup {"listed"})]
           /\ introduced' \in [Slots -> SUBSET Frames]
           /\ lost' \in [Slots -> BOOLEAN] /\ greeted' \in BOOLEAN
           /\ queue' \in [Slots -> 0 .. Depth] /\ owed' \in [Slots -> Nat]
           /\ dropped' \in [Slots -> Nat] /\ samples' \in 0 .. MaxSamples
           /\ \A j \in Slots : queue'[j] <= owed'[j]
BY SlotFacts DEF SessionEnds, TypeOK, CountInv, Set, Frames

TypeInv == TypeOK /\ CountInv

LEMMA UartTypes ==
    ASSUME TypeInv, Uart
    PROVE  TypeInv'
<1> USE SlotFacts DEF TypeInv
<1> USE DEF TypeOK, CountInv, Resending, slotVars, sampleVars, uartVars, hostVars, workerVars,
            samplerVars, teardownVars, notUart, FirstContact, Answered
<1>1. ASSUME NEW c \in {"C_HELLO", "C_DEV_LIST", "C_CONNECT"}, Dispatch(c)
      PROVE  TypeInv'
  <2>1. {listening, rebuilt, greeted}' \subseteq BOOLEAN
    BY <1>1 DEF Dispatch, wireVars
  <2>2. commands' \in 0 .. MaxCommands
    BY <1>1 DEF Dispatch
  <2>3. hostLink' \in {"SILENT", "ANNOUNCED", "HEARD"} /\ prev' \in {"SILENT", "ANNOUNCED", "HEARD"}
    BY <1>1 DEF Dispatch
  <2> QED
    BY <1>1, <2>1, <2>2, <2>3 DEF Dispatch, wireVars
<1>2. CASE Handshake
  BY <1>2, WireTypes DEF Handshake
<1>3. CASE HandleHello
  BY <1>3, WireTypes DEF HandleHello
<1>4. CASE HandleDevList
  BY <1>4, WireTypes DEF HandleDevList
<1>5. CASE HandleOther
  BY <1>5 DEF HandleOther, wireVars
<1>6. CASE ResendLook
  BY <1>6 DEF ResendLook, wireVars
<1>7. CASE ResendInfo
  BY <1>7, WireTypes DEF ResendInfo
<1>8. CASE ResendFields
  BY <1>8, WireTypes DEF ResendFields
<1>9. CASE ResendList
  BY <1>9, WireTypes DEF ResendList
<1>10. CASE ResendEnds
  BY <1>10 DEF ResendEnds, wireVars
<1> QED
  BY <1>1, <1>2, <1>3, <1>4, <1>5, <1>6, <1>7, <1>8, <1>9, <1>10 DEF Uart

LEMMA WorkerTypes ==
    ASSUME TypeInv, Worker
    PROVE  TypeInv'
<1> USE SlotFacts DEF TypeInv
<1> USE DEF TypeOK, CountInv, Resending, slotVars, sampleVars, uartVars, hostVars, workerVars,
            samplerVars, teardownVars, notWorker, WorkerGoes, Set
<1>1. ASSUME NEW i \in Slots, Acquire(i)
      PROVE  TypeInv'
  BY <1>1 DEF Acquire, wireVars
<1>2. CASE Announce
  BY <1>2 DEF Announce, wireVars
<1>3. CASE AnnounceHello
  BY <1>3, WireTypes DEF AnnounceHello
<1>4. CASE ListConnecting
  BY <1>4, WireTypes DEF ListConnecting
<1>5. CASE ConnectOk
  BY <1>5 DEF ConnectOk, wireVars
<1>6. CASE ConnectFails
  BY <1>6 DEF ConnectFails, wireVars
<1>7. CASE StartAndIntroduce
  BY <1>7, WireTypes DEF StartAndIntroduce
<1>8. CASE IntroduceFields
  BY <1>8, WireTypes DEF IntroduceFields
<1>9. CASE Publish
  <2>1. CASE conn[wslot] = "CONNECTING"
    BY <1>9, <2>1 DEF Publish, wireVars
  <2>2. CASE conn[wslot] # "CONNECTING"
    <3>1. SessionEnds(wslot)
      BY <1>9, <2>2 DEF Publish
    <3>2. {listening, rebuilt, greeted}' \subseteq BOOLEAN
      BY <1>9, <3>1, EndTypes DEF Publish
    <3>3. open' \in [Slots -> BOOLEAN] /\ streaming' \in [Slots -> BOOLEAN]
      BY <1>9, <2>2 DEF Publish
    <3>4. /\ UNCHANGED <<hostLink, conn, uart, command, prev, uslot, sampler, vslot>>
          /\ UNCHANGED <<teardown, tslot, listening, rebuilt, restarts, commands, wslot>>
          /\ worker' = "tell"
      BY <1>9, <2>2 DEF Publish
    <3>5. CountInv'
      BY <3>1, <3>4, EndTypes
    <3> HIDE DEF CountInv, Set
    <3> QED
      BY <3>1, <3>2, <3>3, <3>4, <3>5, EndTypes
  <2> QED
    BY <2>1, <2>2
<1>10. CASE Tell
  BY <1>10, WireTypes DEF Tell
<1> QED
  BY <1>1, <1>2, <1>3, <1>4, <1>5, <1>6, <1>7, <1>8, <1>9, <1>10 DEF Worker

LEMMA OtherTypes ==
    ASSUME TypeInv, Teardown \/ Sampling \/ Host \/ UNCHANGED vars
    PROVE  TypeInv'
<1> USE SlotFacts DEF TypeInv
<1> USE DEF TypeOK, CountInv, Resending, slotVars, sampleVars, uartVars, hostVars, workerVars,
            samplerVars, teardownVars, notTeardown, notSampler, notHost, Set
<1>1. ASSUME NEW i \in Slots, Close(i)
      PROVE  TypeInv'
  BY <1>1 DEF Close, wireVars
<1>2. CASE Drain
  BY <1>2, EndTypes DEF Drain
<1>3. CASE TellDown
  BY <1>3, WireTypes DEF TellDown
<1>4. CASE Take
  <2>1. CASE queue[vslot] = 0
    BY <1>4, <2>1 DEF Take, SlotServed, wireVars
  <2>2. CASE queue[vslot] > 0
    <3>1. /\ queue' \in [Slots -> 0 .. Depth] /\ owed' \in [Slots -> Nat]
          /\ \A j \in Slots : queue'[j] <= owed'[j]
      BY <1>4, <2>2 DEF Take
    <3> QED
      BY <1>4, <2>2, <3>1 DEF Take, wireVars
  <2> QED
    BY <2>1, <2>2
<1>10. CASE SendValues \/ SendFieldsAgain
  BY <1>10, WireTypes DEF SendValues, SendFieldsAgain, SlotServed, wireVars
<1>5. ASSUME NEW i \in Slots, Look(i)
      PROVE  TypeInv'
  BY <1>5 DEF Look, wireVars
<1>6. ASSUME NEW i \in Slots, Push(i)
      PROVE  TypeInv'
  BY <1>6 DEF Push, wireVars
<1>7. CASE HostBoots
  BY <1>7 DEF HostBoots, Missed
<1>8. CASE HostRestarts
  <2>1. {listening, rebuilt, greeted}' \subseteq BOOLEAN
    BY <1>8 DEF HostRestarts
  <2>2. table' \in [Slots -> SUBSET (Frames \cup {"listed"})]
    BY <1>8 DEF HostRestarts, All
  <2> QED
    BY <1>8, <2>1, <2>2 DEF HostRestarts
<1>9. CASE UNCHANGED vars
  BY <1>9 DEF vars, wireVars
<1> QED
  BY <1>1, <1>2, <1>3, <1>4, <1>5, <1>6, <1>7, <1>8, <1>9, <1>10
     DEF Teardown, Sampling, Serve, Host

LEMMA TypeStep == TypeInv /\ [Next]_vars => TypeInv'
BY UartTypes, WorkerTypes, OtherTypes DEF Next

LEMMA TypesHold == Spec => []TypeInv
<1>1. Init => TypeInv
  BY TypeInit DEF TypeInv
<1> QED
  BY <1>1, TypeStep, PTL DEF Spec

\* The link, the slots, the queues, the places of the tasks and the host's table
\* have their types.
THEOREM TypeCorrect == Spec => []TypeOK
<1>1. TypeInv => TypeOK
  BY DEF TypeInv
<1> QED
  BY <1>1, TypesHold, PTL

-----------------------------------------------------------------------------
(* Who is at work on a slot, and the samples. *)

placeVars == <<conn, open, worker, wslot, teardown, tslot>>

\* The uart task, the sampler and the host leave the places alone.
LEMMA PlacesKept ==
    ASSUME Uart \/ Sampling \/ Host \/ UNCHANGED vars
    PROVE  UNCHANGED placeVars
<1> USE DEF placeVars, slotVars, workerVars, teardownVars
<1>1. CASE Uart
  BY <1>1 DEF Uart, notUart, Dispatch, Handshake, HandleHello, HandleDevList, HandleOther,
      ResendLook, ResendInfo, ResendFields, ResendList, ResendEnds, Answered
<1>2. CASE Sampling
  BY <1>2 DEF Sampling, Serve, Take, SendValues, SendFieldsAgain, Look, Push, notSampler
<1>3. CASE Host
  BY <1>3 DEF Host, HostBoots, HostRestarts, notHost
<1>4. CASE UNCHANGED vars
  BY <1>4 DEF vars
<1> QED
  BY <1>1, <1>2, <1>3, <1>4

LEMMA PlaceInit == Init => PlaceInv
BY SlotFacts DEF Init, PlaceInv, All, Busy, Opening

LEMMA PlaceStep == TypeInv /\ PlaceInv /\ [Next]_vars => PlaceInv'
<1> SUFFICES ASSUME TypeInv, PlaceInv, [Next]_vars
             PROVE  PlaceInv'
  OBVIOUS
<1>t. /\ conn \in [Slots -> {"IDLE", "CONNECTING", "READY"}] /\ open \in [Slots -> BOOLEAN]
      /\ wslot \in Slots /\ tslot \in Slots
  BY DEF TypeInv, TypeOK
<1> USE <1>t DEF PlaceInv, Busy, Opening, Set, slotVars, workerVars, teardownVars
<1>1. ASSUME NEW i \in Slots, Acquire(i)
      PROVE  PlaceInv'
  BY <1>1 DEF Acquire, notWorker
<1>2. CASE Announce \/ AnnounceHello \/ ListConnecting
  BY <1>2 DEF Announce, AnnounceHello, ListConnecting, notWorker, WorkerGoes
<1>3. CASE ConnectOk
  BY <1>3 DEF ConnectOk, notWorker, WorkerGoes
<1>4. CASE ConnectFails
  BY <1>4 DEF ConnectFails, notWorker, WorkerGoes
<1>5. CASE StartAndIntroduce \/ IntroduceFields
  BY <1>5 DEF StartAndIntroduce, IntroduceFields, notWorker, WorkerGoes
<1>6. CASE Publish
  BY <1>6 DEF Publish, Unlocked, notWorker, WorkerGoes
<1>7. CASE Tell
  BY <1>7, SlotFacts DEF Tell, notWorker
<1>8. ASSUME NEW i \in Slots, Close(i)
      PROVE  PlaceInv'
  BY <1>8 DEF Close, notTeardown
<1>9. CASE Drain
  BY <1>9 DEF Drain, notTeardown
<1>10. CASE TellDown
  BY <1>10, SlotFacts DEF TellDown, notTeardown
<1>11. CASE UNCHANGED placeVars
  BY <1>11 DEF placeVars
<1> QED
  BY <1>1, <1>2, <1>3, <1>4, <1>5, <1>6, <1>7, <1>8, <1>9, <1>10, <1>11, PlacesKept
     DEF Next, Worker, Teardown

LEMMA PlacesHold == Spec => [](TypeInv /\ PlaceInv)
<1>1. Init => TypeInv /\ PlaceInv
  BY TypeInit, PlaceInit DEF TypeInv
<1> QED
  BY <1>1, TypeStep, PlaceStep, PTL DEF Spec

LEMMA SamplesInit == Init => SamplesAccounted
BY DEF Init, SamplesAccounted, All

LEMMA SamplesStep == TypeInv /\ PlaceInv /\ SamplesAccounted /\ [Next]_vars => SamplesAccounted'
<1> SUFFICES ASSUME TypeInv, PlaceInv, SamplesAccounted, [Next]_vars,
                    NEW j \in Slots, open'[j], conn'[j] # "IDLE"
             PROVE  owed'[j] = queue'[j] + dropped'[j]
  BY DEF SamplesAccounted
<1> DEFINE Goal == owed'[j] = queue'[j] + dropped'[j]
<1>t. /\ conn \in [Slots -> {"IDLE", "CONNECTING", "READY"}] /\ open \in [Slots -> BOOLEAN]
      /\ wslot \in Slots /\ tslot \in Slots /\ vslot \in Slots
      /\ queue \in [Slots -> Nat] /\ dropped \in [Slots -> Nat] /\ owed \in [Slots -> Nat]
  BY SlotFacts DEF TypeInv, TypeOK
<1>a. open[j] /\ conn[j] # "IDLE" => owed[j] = queue[j] + dropped[j]
  BY DEF SamplesAccounted
<1> USE <1>t, <1>a DEF Set, slotVars, sampleVars
<1>0. CASE UNCHANGED <<conn, open, sampleVars>>
  BY <1>0
<1>1. CASE Uart \/ Host \/ UNCHANGED vars
  BY <1>0, <1>1 DEF Uart, notUart, Dispatch, Handshake, HandleHello, HandleDevList, HandleOther,
      ResendLook, ResendInfo, ResendFields, ResendList, ResendEnds, Answered,
      Host, HostBoots, HostRestarts, notHost, vars
<1>2. ASSUME NEW i \in Slots, Acquire(i)
      PROVE  Goal
  BY <1>2 DEF Acquire, PlaceInv, Opening
<1>3. CASE ConnectOk
  BY <1>3 DEF ConnectOk
<1>4. CASE ConnectFails
  BY <1>4 DEF ConnectFails
<1>5. CASE Announce \/ AnnounceHello \/ ListConnecting \/ StartAndIntroduce \/ IntroduceFields \/ Tell
  BY <1>0, <1>5 DEF Announce, AnnounceHello, ListConnecting, StartAndIntroduce, IntroduceFields, Tell
<1>6. CASE Publish
  BY <1>6 DEF Publish, SessionEnds
<1>7. ASSUME NEW i \in Slots, Close(i)
      PROVE  Goal
  BY <1>7 DEF Close
<1>8. CASE Drain
  BY <1>8 DEF Drain, SessionEnds
<1>9. CASE TellDown
  BY <1>0, <1>9 DEF TellDown
<1>10. CASE Take
  <2>1. UNCHANGED <<conn, open, dropped>>
    BY <1>10 DEF Take, notSampler
  <2>2. CASE queue[vslot] > 0
    BY <1>10, <2>1, <2>2 DEF Take
  <2>3. CASE queue[vslot] = 0
    BY <1>10, <2>1, <2>3 DEF Take
  <2> QED
    BY <2>2, <2>3
<1>13. CASE SendValues \/ SendFieldsAgain
  BY <1>0, <1>13 DEF SendValues, SendFieldsAgain, notSampler
<1>11. ASSUME NEW i \in Slots, Look(i)
      PROVE  Goal
  BY <1>0, <1>11 DEF Look, notSampler
<1>12. ASSUME NEW i \in Slots, Push(i)
      PROVE  Goal
  BY <1>12 DEF Push, notSampler
<1> QED
  BY <1>1, <1>2, <1>3, <1>4, <1>5, <1>6, <1>7, <1>8, <1>9, <1>10, <1>11, <1>12, <1>13
     DEF Next, Worker, Teardown, Sampling, Serve

\* Every sample of an open session that nobody took to send it is queued or counted
\* as dropped.
THEOREM SamplesAreAccounted == Spec => []SamplesAccounted
<1>1. TypeInv /\ PlaceInv /\ SamplesAccounted /\ [Next]_vars => SamplesAccounted'
  BY SamplesStep
<1> QED
  BY <1>1, PlacesHold, SamplesInit, PTL DEF Spec

-----------------------------------------------------------------------------
(* The handshake comes first. *)

SessionInv == TypeInv /\ PlaceInv /\ FirstInv /\ GreetInv

\* What a frame, or the end of a session, does to introduced and greeted.
LEMMA FrameFacts ==
    /\ SendHello => greeted' /\ introduced' = introduced
    /\ emitDevList \/ UNCHANGED wireVars => greeted' = greeted /\ introduced' = introduced
    /\ \A i \in Slots : SendInfo(i) \/ SendFields(i) \/ IntroducedAgain(i) => greeted' = greeted
    /\ \A i \in Slots : SessionEnds(i) =>
         greeted' = greeted /\ introduced' = [introduced EXCEPT ![i] = {}]
BY DEF SendHello, emitDevList, wireVars, SendInfo, SendFields, IntroducedAgain, SessionEnds, Set

LEMMA FirstInit == Init => FirstInv /\ GreetInv
BY DEF Init, FirstInv, GreetInv, First, All, Opening, Resending

\* Before the handshake nothing is introduced, so no session's end undoes an
\* introduction.
LEMMA NothingToEnd ==
    ASSUME TypeInv, NEW i \in Slots, introduced' = [introduced EXCEPT ![i] = {}],
           \A j \in Slots : introduced[j] = {}
    PROVE  introduced' = introduced
BY DEF TypeInv, TypeOK

LEMMA FirstStepUart ==
    ASSUME SessionInv, Uart
    PROVE  FirstInv' /\ GreetInv'
<1>t. conn \in [Slots -> {"IDLE", "CONNECTING", "READY"}] /\ (uart \in Resending => uslot \in Slots)
  BY DEF SessionInv, TypeInv, TypeOK, CountInv
<1> USE <1>t, FrameFacts
<1> USE DEF SessionInv, FirstInv, GreetInv, First, Resending, Opening, notUart, slotVars, workerVars,
            samplerVars, Answered
<1>1. ASSUME NEW c \in {"C_HELLO", "C_DEV_LIST", "C_CONNECT"}, Dispatch(c)
      PROVE  FirstInv' /\ GreetInv'
  BY <1>1 DEF Dispatch
<1>2. CASE Handshake
  BY <1>2 DEF Handshake
<1>3. CASE HandleHello \/ HandleDevList \/ HandleOther
  BY <1>3 DEF HandleHello, HandleDevList, HandleOther
<1>4. CASE ResendLook
  BY <1>4 DEF ResendLook
<1>5. CASE ResendInfo \/ ResendFields
  BY <1>5 DEF ResendInfo, ResendFields
<1>6. CASE ResendList \/ ResendEnds
  BY <1>6 DEF ResendList, ResendEnds
<1> QED
  BY <1>1, <1>2, <1>3, <1>4, <1>5, <1>6 DEF Uart

LEMMA FirstStepWorker ==
    ASSUME SessionInv, Worker
    PROVE  FirstInv' /\ GreetInv'
<1>t. conn \in [Slots -> {"IDLE", "CONNECTING", "READY"}] /\ wslot \in Slots
  BY DEF SessionInv, TypeInv, TypeOK
<1> USE <1>t, FrameFacts
<1> USE DEF SessionInv, FirstInv, GreetInv, First, Resending, Opening, notWorker, uartVars,
            samplerVars, WorkerGoes, Set
<1>1. ASSUME NEW i \in Slots, Acquire(i)
      PROVE  FirstInv' /\ GreetInv'
  BY <1>1 DEF Acquire
<1>2. CASE Announce
  BY <1>2 DEF Announce, slotVars
<1>3. CASE AnnounceHello
  BY <1>3 DEF AnnounceHello, slotVars
<1>4. CASE ListConnecting
  BY <1>4 DEF ListConnecting, slotVars
<1>5. CASE ConnectOk
  BY <1>5 DEF ConnectOk, ConnectTakesLonger
<1>6. CASE ConnectFails
  BY <1>6 DEF ConnectFails
<1>7. CASE StartAndIntroduce
  BY <1>7 DEF StartAndIntroduce
<1>8. CASE IntroduceFields
  BY <1>8 DEF IntroduceFields, slotVars
<1>9. CASE Publish
  BY <1>9 DEF Publish
<1>10. CASE Tell
  BY <1>10 DEF Tell, slotVars
<1> QED
  BY <1>1, <1>2, <1>3, <1>4, <1>5, <1>6, <1>7, <1>8, <1>9, <1>10 DEF Worker

LEMMA FirstStepOther ==
    ASSUME SessionInv, Teardown \/ Sampling \/ Host \/ UNCHANGED vars
    PROVE  FirstInv' /\ GreetInv'
<1>t. /\ conn \in [Slots -> {"IDLE", "CONNECTING", "READY"}] /\ tslot \in Slots /\ vslot \in Slots
      /\ introduced \in [Slots -> SUBSET Frames]
  BY DEF SessionInv, TypeInv, TypeOK
<1> USE <1>t, FrameFacts
<1> USE DEF SessionInv, FirstInv, GreetInv, First, Resending, Opening, notTeardown, notSampler,
            notHost, uartVars, samplerVars, workerVars, slotVars, Set
<1>1. ASSUME NEW i \in Slots, Close(i)
      PROVE  FirstInv' /\ GreetInv'
  BY <1>1 DEF Close
<1>2. CASE Drain
  BY <1>2 DEF Drain
<1>3. CASE TellDown
  BY <1>3 DEF TellDown
<1>4. CASE Serve
  <2>1. greeted /\ (open[vslot] => ~First)
    BY <1>4 DEF Serve, Take, SendValues, SendFieldsAgain, PlaceInv
  <2>2. UNCHANGED <<conn, hostLink, worker, uart, greeted>>
    BY <1>4 DEF Serve, Take, SendValues, SendFieldsAgain, SendFields, wireVars, sampleVars
  <2>3. introduced' = introduced \/ ~First
    BY <1>4, <2>1 DEF Serve, Take, SendValues, SendFieldsAgain, wireVars
  <2> QED
    BY <2>1, <2>2, <2>3
<1>5. ASSUME NEW i \in Slots, Look(i)
      PROVE  FirstInv' /\ GreetInv'
  BY <1>5 DEF Look
<1>6. ASSUME NEW i \in Slots, Push(i)
      PROVE  FirstInv' /\ GreetInv'
  BY <1>6 DEF Push
<1>7. CASE HostBoots \/ HostRestarts
  BY <1>7 DEF HostBoots, HostRestarts
<1>8. CASE UNCHANGED vars
  BY <1>8 DEF vars, wireVars
<1> QED
  BY <1>1, <1>2, <1>3, <1>4, <1>5, <1>6, <1>7, <1>8 DEF Teardown, Sampling, Host

LEMMA SessionHolds == Spec => []SessionInv
<1>1. Init => SessionInv
  BY TypeInit, PlaceInit, FirstInit DEF SessionInv, TypeInv
<1>2. SessionInv /\ [Next]_vars => SessionInv'
  <2>1. SessionInv /\ [Next]_vars => FirstInv' /\ GreetInv'
    BY FirstStepUart, FirstStepWorker, FirstStepOther DEF Next
  <2> QED
    BY <2>1, TypeStep, PlaceStep DEF SessionInv
<1> QED
  BY <1>1, <1>2, PTL DEF Spec

LEMMA GreetedFirst == SessionInv /\ [Next]_vars => (introduced' # introduced => greeted)
<1> SUFFICES ASSUME SessionInv, [Next]_vars, ~greeted
             PROVE  introduced' = introduced
  OBVIOUS
<1>t. /\ wslot \in Slots /\ tslot \in Slots
      /\ worker \notin Opening /\ uart \notin Resending /\ sampler = "look"
      /\ \A i \in Slots : introduced[i] = {}
  BY DEF SessionInv, GreetInv, TypeInv, TypeOK
<1> USE <1>t, FrameFacts
<1>1. CASE Uart
  BY <1>1 DEF Uart, Dispatch, Handshake, HandleHello, HandleDevList, HandleOther, ResendLook,
      ResendInfo, ResendFields, ResendList, ResendEnds, Resending, wireVars
<1>2. CASE Worker
  BY <1>2 DEF Worker, Acquire, Announce, AnnounceHello, ListConnecting, ConnectOk, ConnectFails,
      StartAndIntroduce, IntroduceFields, Publish, Tell, Opening
<1>3. CASE Drain
  BY <1>3, NothingToEnd DEF Drain, SessionInv
<1>4. CASE TellDown \/ \E i \in Slots : Close(i)
  BY <1>4 DEF TellDown, Close
<1>5. CASE Sampling
  BY <1>5 DEF Sampling, Serve, Take, SendValues, SendFieldsAgain, Look, Push, wireVars
<1>6. CASE Host
  BY <1>6 DEF Host, HostBoots, HostRestarts
<1>7. CASE UNCHANGED vars
  BY <1>7 DEF vars
<1> QED
  BY <1>1, <1>2, <1>3, <1>4, <1>5, <1>6, <1>7 DEF Next, Teardown

\* No frame of a slot is sent before a T_HELLO was.
THEOREM HandshakeComesFirst == Spec => HandshakeFirst
BY SessionHolds, GreetedFirst, PTL DEF Spec, HandshakeFirst

-----------------------------------------------------------------------------
(* The fields come before the samples. *)

IntroducedInv == TypeInv /\ PlaceInv /\ IntroInv

LEMMA IntroInit == Init => IntroInv /\ TakeInv
BY DEF Init, IntroInv, TakeInv, All

\* What the frames that introduce a slot add.
LEMMA Introduces ==
    ASSUME TypeInv, NEW i \in Slots
    PROVE  /\ SendInfo(i) => introduced' = [introduced EXCEPT ![i] = introduced[i] \cup {"info"}]
           /\ SendFields(i) \/ IntroducedAgain(i) =>
                introduced' = [introduced EXCEPT ![i] = introduced[i] \cup {"fields"}]
BY DEF SendInfo, SendFields, IntroducedAgain, Set

LEMMA IntroStep == IntroducedInv /\ [Next]_vars => IntroInv'
<1> SUFFICES ASSUME IntroducedInv, [Next]_vars
             PROVE  IntroInv'
  OBVIOUS
<1>t. /\ conn \in [Slots -> {"IDLE", "CONNECTING", "READY"}]
      /\ introduced \in [Slots -> SUBSET Frames]
      /\ wslot \in Slots /\ tslot \in Slots /\ vslot \in Slots /\ (uart \in Resending => uslot \in Slots)
      /\ worker \in Busy => conn[wslot] # "READY"
      /\ \A i \in Slots : SendInfo(i) =>
           introduced' = [introduced EXCEPT ![i] = introduced[i] \cup {"info"}]
      /\ \A i \in Slots : SendFields(i) \/ IntroducedAgain(i) =>
           introduced' = [introduced EXCEPT ![i] = introduced[i] \cup {"fields"}]
  BY Introduces DEF IntroducedInv, TypeInv, TypeOK, CountInv, PlaceInv
<1> USE <1>t, FrameFacts DEF IntroducedInv, IntroInv, Frames, Set, slotVars, workerVars
<1>0. CASE UNCHANGED <<conn, worker, wslot, introduced>>
  BY <1>0
<1>1. CASE Uart
  <2>1. UNCHANGED <<conn, worker, wslot>>
    BY <1>1 DEF Uart, notUart, Dispatch, Handshake, HandleHello, HandleDevList, HandleOther,
        ResendLook, ResendInfo, ResendFields, ResendList, ResendEnds, Answered
  <2>2. CASE ResendInfo \/ ResendFields
    BY <2>1, <2>2 DEF ResendInfo, ResendFields, Resending
  <2>3. CASE ~(ResendInfo \/ ResendFields)
    BY <1>0, <1>1, <2>1, <2>3 DEF Uart, Dispatch, Handshake, HandleHello, HandleDevList, HandleOther,
        ResendLook, ResendList, ResendEnds
  <2> QED
    BY <2>2, <2>3
<1>2. ASSUME NEW i \in Slots, Acquire(i)
      PROVE  IntroInv'
  BY <1>2 DEF Acquire
<1>3. CASE Announce \/ AnnounceHello \/ ListConnecting \/ ConnectOk
  BY <1>3 DEF Announce, AnnounceHello, ListConnecting, ConnectOk, WorkerGoes
<1>4. CASE ConnectFails
  BY <1>4 DEF ConnectFails, WorkerGoes
<1>5. CASE StartAndIntroduce
  BY <1>5 DEF StartAndIntroduce, WorkerGoes
<1>6. CASE IntroduceFields
  BY <1>6 DEF IntroduceFields, WorkerGoes
<1>7. CASE Publish
  BY <1>7 DEF Publish, WorkerGoes, Busy
<1>8. CASE Tell
  BY <1>8 DEF Tell
<1>9. CASE TellDown \/ \E i \in Slots : Close(i)
  BY <1>0, <1>9 DEF TellDown, Close, notTeardown
<1>10. CASE Drain
  BY <1>10 DEF Drain, notTeardown
<1>11. CASE Serve
  <2>1. UNCHANGED <<conn, worker, wslot>>
    BY <1>11 DEF Serve, Take, SendValues, SendFieldsAgain, notSampler
  <2>2. UNCHANGED introduced \/ SendFields(vslot)
    BY <1>11 DEF Serve, Take, SendValues, SendFieldsAgain, wireVars
  <2> QED
    BY <1>0, <2>1, <2>2
<1>12. CASE Host \/ UNCHANGED vars \/ \E i \in Slots : Look(i) \/ Push(i)
  BY <1>0, <1>12 DEF Host, HostBoots, HostRestarts, notHost, vars, wireVars, Look, Push, notSampler
<1> QED
  BY <1>1, <1>2, <1>3, <1>4, <1>5, <1>6, <1>7, <1>8, <1>9, <1>10, <1>11, <1>12
     DEF Next, Worker, Teardown, Sampling, Serve

LEMMA TakeStep == IntroducedInv /\ TakeInv /\ [Next]_vars => TakeInv'
<1> SUFFICES ASSUME IntroducedInv, TakeInv, [Next]_vars
             PROVE  TakeInv'
  OBVIOUS
<1>t. /\ conn \in [Slots -> {"IDLE", "CONNECTING", "READY"}] /\ open \in [Slots -> BOOLEAN]
      /\ queue \in [Slots -> 0 .. Depth]
      /\ introduced \in [Slots -> SUBSET Frames]
      /\ wslot \in Slots /\ tslot \in Slots /\ vslot \in Slots /\ (uart \in Resending => uslot \in Slots)
      /\ \A i \in Slots : SendInfo(i) =>
           introduced' = [introduced EXCEPT ![i] = introduced[i] \cup {"info"}]
      /\ \A i \in Slots : SendFields(i) \/ IntroducedAgain(i) =>
           introduced' = [introduced EXCEPT ![i] = introduced[i] \cup {"fields"}]
  BY Introduces DEF IntroducedInv, TypeInv, TypeOK, CountInv
<1> USE <1>t, FrameFacts DEF TakeInv, Frames, Set, slotVars, workerVars, sampleVars, samplerVars, Opening
<1>0. CASE UNCHANGED <<open, worker, wslot, queue, sampler, vslot>> /\
           \A i \in Slots : introduced[i] \subseteq introduced'[i]
  BY <1>0
<1>1. CASE Uart
  <2>1. UNCHANGED <<open, worker, wslot, queue, sampler, vslot>>
    BY <1>1 DEF Uart, notUart, Dispatch, Handshake, HandleHello, HandleDevList, HandleOther,
        ResendLook, ResendInfo, ResendFields, ResendList, ResendEnds, Answered
  <2>2. CASE ResendInfo \/ ResendFields
    BY <1>0, <2>1, <2>2 DEF ResendInfo, ResendFields, Resending
  <2>3. CASE ~(ResendInfo \/ ResendFields)
    BY <1>0, <1>1, <2>1, <2>3 DEF Uart, Dispatch, Handshake, HandleHello, HandleDevList, HandleOther,
        ResendLook, ResendList, ResendEnds
  <2> QED
    BY <2>2, <2>3
<1>2. ASSUME NEW i \in Slots, Acquire(i)
      PROVE  TakeInv'
  BY <1>2 DEF Acquire, notWorker
<1>3. CASE Announce \/ AnnounceHello \/ ListConnecting \/ ConnectFails
  BY <1>3 DEF Announce, AnnounceHello, ListConnecting, ConnectFails, WorkerGoes, notWorker
<1>4. CASE ConnectOk
  BY <1>4 DEF ConnectOk, ConnectTakesLonger, notWorker
<1>5. CASE StartAndIntroduce \/ IntroduceFields
  BY <1>5 DEF StartAndIntroduce, IntroduceFields, WorkerGoes, notWorker
<1>6. CASE Publish
  <2>1. CASE conn[wslot] = "CONNECTING"
    BY <1>6, <2>1 DEF Publish, WorkerGoes, notWorker
  <2>2. CASE conn[wslot] # "CONNECTING"
    BY <1>6, <2>2 DEF Publish, WorkerGoes, notWorker, SessionEnds
  <2> QED
    BY <2>1, <2>2
<1>7. CASE Tell
  BY <1>7 DEF Tell, notWorker
<1>8. ASSUME NEW i \in Slots, Close(i)
      PROVE  TakeInv'
  BY <1>8 DEF Close, notTeardown
<1>9. CASE Drain
  <2>1. ~(open[tslot] /\ ~(worker \in Opening /\ wslot = tslot))
    BY <1>9 DEF Drain, IntroducedInv, PlaceInv
  <2> QED
    BY <1>9, <2>1 DEF Drain, notTeardown, SessionEnds
<1>10. CASE TellDown
  BY <1>10 DEF TellDown, notTeardown
<1>11. CASE Serve
  <2>1. UNCHANGED <<open, worker, wslot>>
    BY <1>11 DEF Serve, Take, SendValues, SendFieldsAgain, notSampler
  <2>2. CASE Take
    BY <2>1, <2>2 DEF Take, SlotServed, wireVars
  <2>3. CASE SendValues
    BY <2>1, <2>3 DEF SendValues, SlotServed, wireVars
  <2>4. CASE SendFieldsAgain
    BY <2>4 DEF SendFieldsAgain, SlotServed
  <2> QED
    BY <1>11, <2>2, <2>3, <2>4 DEF Serve
<1>12. ASSUME NEW i \in Slots, Look(i)
      PROVE  TakeInv'
  BY <1>12 DEF Look, notSampler, IntroducedInv, IntroInv, PlaceInv, Busy
<1>13. ASSUME NEW i \in Slots, Push(i)
      PROVE  TakeInv'
  BY <1>13 DEF Push, notSampler
<1>14. CASE Host \/ UNCHANGED vars
  BY <1>0, <1>14 DEF Host, HostBoots, HostRestarts, notHost, vars, wireVars
<1> QED
  BY <1>1, <1>2, <1>3, <1>4, <1>5, <1>6, <1>7, <1>8, <1>9, <1>10, <1>11, <1>12, <1>13, <1>14
     DEF Next, Worker, Teardown, Sampling, Serve

LEMMA IntroducedHolds == Spec => []IntroducedInv
<1>1. Init => IntroducedInv
  BY TypeInit, PlaceInit, IntroInit DEF IntroducedInv, TypeInv
<1>2. IntroducedInv /\ [Next]_vars => IntroducedInv'
  <2>1. IntroducedInv /\ [Next]_vars => IntroInv'
    BY IntroStep
  <2> QED
    BY <2>1, TypeStep, PlaceStep DEF IntroducedInv
<1> QED
  BY <1>1, <1>2, PTL DEF Spec

LEMMA TakeHolds == Spec => [](IntroducedInv /\ TakeInv)
<1>1. Init => TakeInv
  BY IntroInit
<1> QED
  BY <1>1, TakeStep, IntroducedHolds, PTL DEF Spec

\* A sample is taken to be sent only of a session whose T_FIELDS was sent before.
THEOREM FieldsComeFirst == Spec => FieldsFirst
<1>1. TypeInv /\ TypeInv' /\ TakeInv /\ [Next]_vars =>
        \A i \in Slots : Takes(i) => "fields" \in introduced[i]
  <2> SUFFICES ASSUME TypeInv, TakeInv, [Next]_vars, NEW i \in Slots, Takes(i)
               PROVE  "fields" \in introduced[i]
    OBVIOUS
  <2>1. Take
    BY DEF Takes, Next, vars, samplerVars, Sampling, Serve, SendValues, SendFieldsAgain, SlotServed,
       Look, Push, Uart, notUart, Dispatch, Handshake, HandleHello, HandleDevList, HandleOther,
       ResendLook, ResendInfo, ResendFields, ResendList, ResendEnds, Answered, Worker, notWorker,
       Acquire, Announce, AnnounceHello, ListConnecting, ConnectOk, ConnectFails,
       StartAndIntroduce, IntroduceFields, Publish, Tell, Teardown, notTeardown, Close, Drain,
       TellDown, Host, notHost, HostBoots, HostRestarts
  <2> QED
    BY <2>1, SlotFacts DEF Take, SlotServed, Takes, TypeInv, TypeOK, TakeInv
<1> QED
  BY <1>1, TypesHold, TakeHolds, PTL DEF Spec, FieldsFirst

-----------------------------------------------------------------------------
(* The host knows every READY slot. *)

KnowledgeInv == SessionInv /\ IntroInv /\ AnswerInv /\ KnownInv

\* The types, and what is true of the place of the worker.
LEMMA KnowledgeTypes ==
    ASSUME KnowledgeInv
    PROVE  /\ conn \in [Slots -> {"IDLE", "CONNECTING", "READY"}] /\ open \in [Slots -> BOOLEAN]
           /\ table \in [Slots -> SUBSET (Frames \cup {"listed"})]
           /\ introduced \in [Slots -> SUBSET Frames] /\ lost \in [Slots -> BOOLEAN]
           /\ wslot \in Slots /\ tslot \in Slots /\ vslot \in Slots
           /\ uart \in Resending => uslot \in Slots
           /\ listening \in BOOLEAN
BY DEF KnowledgeInv, SessionInv, TypeInv, TypeOK, CountInv

LEMMA KnowledgeInit == Init => AnswerInv /\ KnownInv /\ ToldInv
BY DEF Init, AnswerInv, KnownInv, ToldInv, All, Resending

\* Only a frame to a host that listens is known.
LEMMA DeafHost ==
    ASSUME KnowledgeInv, NEW i \in Slots, ~listening,
           \/ SendHello \/ SendInfo(i) \/ SendFields(i) \/ IntroducedAgain(i) \/ emitDevList
           \/ SessionEnds(i) \/ UNCHANGED wireVars
    PROVE  \A j \in Slots : table'[j] = {}
<1> USE KnowledgeTypes DEF KnowledgeInv, AnswerInv
<1>1. CASE SessionEnds(i)
  BY <1>1 DEF SessionEnds, Set
<1>2. CASE ~SessionEnds(i)
  BY <1>2 DEF SendHello, SendInfo, SendFields, IntroducedAgain, emitDevList, Learns, wireVars
<1> QED
  BY <1>1, <1>2

LEMMA AnswerStepUart ==
    ASSUME KnowledgeInv, Uart
    PROVE  AnswerInv'
<1> USE KnowledgeTypes, FrameFacts, DeafHost, SlotFacts
<1> USE DEF KnowledgeInv, AnswerInv, hostVars, slotVars, workerVars, notUart, Answered, Resending
<1>1. ASSUME NEW c \in {"C_HELLO", "C_DEV_LIST", "C_CONNECT"}, Dispatch(c)
      PROVE  AnswerInv'
  BY <1>1 DEF Dispatch, SessionInv, FirstInv, First, wireVars
<1>2. CASE Handshake
  BY <1>2 DEF Handshake
<1>3. CASE HandleHello \/ HandleOther
  BY <1>3 DEF HandleHello, HandleOther
<1>4. CASE HandleDevList
  BY <1>4 DEF HandleDevList
<1>5. CASE ResendLook
  BY <1>5 DEF ResendLook, wireVars
<1>6. CASE ResendInfo \/ ResendFields
  BY <1>6 DEF ResendInfo, ResendFields
<1>7. CASE ResendList \/ ResendEnds
  BY <1>7 DEF ResendList, ResendEnds
<1> QED
  BY <1>1, <1>2, <1>3, <1>4, <1>5, <1>6, <1>7 DEF Uart

LEMMA AnswerStepOther ==
    ASSUME KnowledgeInv, Worker \/ Teardown \/ Sampling \/ Host \/ UNCHANGED vars
    PROVE  AnswerInv'
<1> USE KnowledgeTypes, FrameFacts, DeafHost
<1> USE DEF KnowledgeInv, AnswerInv, hostVars, uartVars, Set
<1>1. ASSUME NEW i \in Slots, Acquire(i)
      PROVE  AnswerInv'
  BY <1>1 DEF Acquire, notWorker
<1>2. CASE Announce
  BY <1>2 DEF Announce, notWorker, slotVars, WorkerGoes, SessionInv, FirstInv
<1>3. CASE AnnounceHello
  BY <1>3 DEF AnnounceHello, notWorker, slotVars, WorkerGoes
<1>4. CASE ListConnecting
  BY <1>4 DEF ListConnecting, notWorker, slotVars, WorkerGoes
<1>5. CASE ConnectOk
  BY <1>5 DEF ConnectOk, notWorker, ConnectTakesLonger, WorkerGoes
<1>6. CASE ConnectFails
  BY <1>6 DEF ConnectFails, notWorker, WorkerGoes
<1>7. CASE StartAndIntroduce \/ IntroduceFields
  BY <1>7 DEF StartAndIntroduce, IntroduceFields, notWorker, slotVars, WorkerGoes
<1>8. CASE Publish
  BY <1>8 DEF Publish, notWorker, WorkerGoes
<1>9. CASE Tell
  BY <1>9 DEF Tell, notWorker, slotVars
<1>10. ASSUME NEW i \in Slots, Close(i)
       PROVE  AnswerInv'
  BY <1>10 DEF Close, notTeardown, workerVars
<1>11. CASE Drain
  BY <1>11 DEF Drain, notTeardown, workerVars
<1>12. CASE TellDown
  BY <1>12 DEF TellDown, notTeardown, workerVars, slotVars
<1>13. CASE Serve
  <2>1. UNCHANGED wireVars \/ (open[vslot] /\ SendFields(vslot))
    BY <1>13 DEF Serve, Take, SendValues, SendFieldsAgain
  <2>2. UNCHANGED <<conn, open, worker, wslot, uart, prev, listening, rebuilt>>
    BY <1>13 DEF Serve, Take, SendValues, SendFieldsAgain, notSampler, workerVars
  <2>3. uart = "handshake" /\ prev = "SILENT" => ~open[vslot]
    BY DEF SessionInv, PlaceInv, Opening
  <2> QED
    BY <2>1, <2>2, <2>3
<1>14. ASSUME NEW i \in Slots, Look(i) \/ Push(i)
       PROVE  AnswerInv'
  BY <1>14 DEF Look, Push, notSampler, workerVars
<1>15. CASE HostBoots
  BY <1>15 DEF HostBoots, notHost, slotVars, workerVars
<1>16. CASE HostRestarts
  BY <1>16 DEF HostRestarts, notHost, slotVars, workerVars, All
<1>17. CASE UNCHANGED vars
  BY <1>17 DEF vars, wireVars, slotVars, workerVars
<1> QED
  BY <1>1, <1>2, <1>3, <1>4, <1>5, <1>6, <1>7, <1>8, <1>9, <1>10, <1>11, <1>12, <1>13, <1>14, <1>15,
     <1>16, <1>17 DEF Worker, Teardown, Sampling, Host

\* A slot that is being introduced is known as far as it was introduced.
Followed == \A i \in Slots : listening /\ conn[i] # "READY" /\ ~lost[i] => introduced[i] \subseteq table[i]

\* What an introduction and the list add, to a host that listens.
LEMMA Learnt ==
    ASSUME KnowledgeInv, NEW i \in Slots, UNCHANGED <<conn, listening>>,
           SendInfo(i) \/ SendFields(i) \/ emitDevList \/ UNCHANGED wireVars
    PROVE  /\ Followed' /\ lost' = lost
           /\ \A j \in Slots : table[j] \cap Frames \subseteq table'[j]
           /\ SendInfo(i) /\ listening => "info" \in table'[i]
<1> USE KnowledgeTypes DEF KnowledgeInv, KnownInv, Followed, Frames
<1>1. CASE SendInfo(i) \/ SendFields(i)
  BY <1>1 DEF SendInfo, SendFields, Learns, Set
<1>2. CASE emitDevList /\ ~SendInfo(i)
  BY <1>2 DEF emitDevList
<1>3. CASE UNCHANGED wireVars /\ ~SendInfo(i)
  BY <1>3 DEF wireVars
<1> QED
  BY <1>1, <1>2, <1>3

\* Who missed frames of its introduction is noted, also when the host is wiped.
LEMMA Wiped ==
    ASSUME KnowledgeInv, SendHello, UNCHANGED <<conn, listening>>
    PROVE  Followed'
BY KnowledgeTypes DEF SendHello, Missed, Followed, KnowledgeInv, KnownInv, All

\* A session that ended is not known and has nothing to be known.
LEMMA Ended ==
    ASSUME KnowledgeInv, NEW i \in Slots, SessionEnds(i), UNCHANGED listening,
           \A j \in Slots : j # i => conn'[j] = conn[j]
    PROVE  Followed' /\ ~lost'[i] /\ \A j \in Slots : j # i => lost'[j] = lost[j] /\ table'[j] = table[j]
BY KnowledgeTypes DEF SessionEnds, Set, Followed, KnowledgeInv, KnownInv

LEMMA KnownStepUart ==
    ASSUME KnowledgeInv, Uart
    PROVE  KnownInv'
<1> USE KnowledgeTypes DEF KnowledgeInv, Resending
<1>f. UNCHANGED <<conn, listening>>
  BY DEF Uart, notUart, slotVars, hostVars, Dispatch, Handshake, HandleHello, HandleDevList, HandleOther,
      ResendLook, ResendInfo, ResendFields, ResendList, ResendEnds, Answered
<1>k. KnownInv' <=> /\ Followed'
                    /\ uart' \in Resending => conn'[uslot'] = "READY" \/ ~lost'[uslot']
                    /\ uart' = "resendFields" /\ listening' /\ conn'[uslot'] = "READY" =>
                         "info" \in table'[uslot']
  BY DEF KnownInv, Followed
<1>1. ASSUME NEW c \in {"C_HELLO", "C_DEV_LIST", "C_CONNECT"}, Dispatch(c)
      PROVE  KnownInv'
  BY <1>1, <1>f, <1>k, Learnt, SlotFacts DEF Dispatch
<1>2. CASE Handshake
  BY <1>2, <1>f, <1>k, Wiped DEF Handshake
<1>3. CASE HandleHello
  BY <1>3, <1>f, <1>k, Wiped, Learnt, SlotFacts DEF HandleHello, Answered
<1>4. CASE HandleDevList
  BY <1>4, <1>f, <1>k, Learnt, SlotFacts DEF HandleDevList
<1>5. CASE HandleOther \/ ResendEnds
  BY <1>5, <1>f, <1>k, Learnt, SlotFacts DEF HandleOther, ResendEnds, Answered
<1>6. CASE ResendLook
  BY <1>6, <1>f, <1>k, Learnt, SlotFacts DEF ResendLook
<1>7. CASE ResendInfo
  BY <1>7, <1>f, <1>k, Learnt DEF ResendInfo, KnownInv
<1>8. CASE ResendFields
  <2>1. Followed'
    BY <1>8, <1>f DEF ResendFields, IntroducedAgain, Learns, Set, Followed, KnownInv
  <2> QED
    BY <1>8, <1>k, <2>1 DEF ResendFields
<1>9. CASE ResendList
  BY <1>9, <1>f, <1>k, Learnt, SlotFacts DEF ResendList
<1> QED
  BY <1>1, <1>2, <1>3, <1>4, <1>5, <1>6, <1>7, <1>8, <1>9 DEF Uart

LEMMA KnownStepOther ==
    ASSUME KnowledgeInv, Worker \/ Teardown \/ Sampling \/ Host \/ UNCHANGED vars
    PROVE  KnownInv'
<1> USE KnowledgeTypes DEF KnowledgeInv
<1>k. /\ KnownInv <=> /\ Followed
                      /\ uart \in Resending => conn[uslot] = "READY" \/ ~lost[uslot]
                      /\ uart = "resendFields" /\ listening /\ conn[uslot] = "READY" =>
                           "info" \in table[uslot]
      /\ KnownInv' <=> /\ Followed'
                       /\ uart' \in Resending => conn'[uslot'] = "READY" \/ ~lost'[uslot']
                       /\ uart' = "resendFields" /\ listening' /\ conn'[uslot'] = "READY" =>
                            "info" \in table'[uslot']
  BY DEF KnownInv, Followed
<1>n. UNCHANGED <<conn, uart, uslot, listening>>
        /\ (emitDevList \/ UNCHANGED wireVars \/ \E i \in Slots : SendInfo(i) \/ SendFields(i)) => KnownInv'
  BY <1>k, Learnt, SlotFacts DEF Resending, Frames
<1>1. ASSUME NEW i \in Slots, Acquire(i)
      PROVE  KnownInv'
  <2>1. Followed' /\ UNCHANGED <<uart, uslot, listening, table, lost>>
    BY <1>1, <1>k DEF Acquire, Set, Followed, notWorker, uartVars, hostVars, wireVars
  <2>2. conn' = [conn EXCEPT ![i] = "CONNECTING"] /\ conn[i] = "IDLE"
    BY <1>1 DEF Acquire, Set
  <2> QED
    BY <1>k, <2>1, <2>2 DEF Resending
<1>2. CASE Announce \/ ListConnecting \/ ConnectOk \/ StartAndIntroduce \/ IntroduceFields \/ Tell
  BY <1>2, <1>n DEF Announce, ListConnecting, ConnectOk, StartAndIntroduce, IntroduceFields, Tell,
      notWorker, uartVars, hostVars, slotVars
<1>3. CASE AnnounceHello
  <2>1. uart \notin Resending /\ UNCHANGED <<conn, uart, uslot, listening>>
    BY <1>3 DEF AnnounceHello, SessionInv, FirstInv, First, notWorker, uartVars, hostVars, slotVars
  <2> QED
    BY <1>3, <1>k, <2>1, Wiped DEF AnnounceHello, Resending
<1>4. CASE ConnectFails
  <2>1. UNCHANGED <<uart, uslot, listening, table, lost, introduced>>
    BY <1>4 DEF ConnectFails, notWorker, uartVars, hostVars, wireVars
  <2>2. conn' = [conn EXCEPT ![wslot] = "IDLE"] /\ conn[wslot] # "READY"
    BY <1>4 DEF ConnectFails, Set, SessionInv, PlaceInv, Busy
  <2> QED
    BY <1>k, <2>1, <2>2 DEF Resending, Followed
<1>5. CASE Publish
  <2>1. UNCHANGED <<uart, uslot, listening>>
    BY <1>5 DEF Publish, notWorker, uartVars, hostVars
  <2>2. CASE conn[wslot] = "CONNECTING"
    <3>1. UNCHANGED <<table, lost, introduced>> /\ conn' = [conn EXCEPT ![wslot] = "READY"]
      BY <1>5, <2>2 DEF Publish, Set, wireVars
    <3>2. "info" \in introduced[wslot]
      BY <1>5, <2>2 DEF Publish, IntroInv
    <3>3. Followed'
      BY <1>k, <2>1, <3>1 DEF Followed
    <3>4. uart = "resendFields" /\ listening /\ uslot = wslot => "info" \in table[wslot]
      BY <1>k, <2>2, <3>2 DEF Followed, Resending
    <3> QED
      BY <1>k, <2>1, <3>1, <3>3, <3>4 DEF Resending
  <2>3. CASE conn[wslot] # "CONNECTING"
    <3>1. SessionEnds(wslot) /\ conn' = conn /\ conn[wslot] # "READY"
      BY <1>5, <2>3 DEF Publish, SessionInv, PlaceInv, Busy
    <3> QED
      BY <1>k, <2>1, <3>1, Ended DEF Resending
  <2> QED
    BY <2>2, <2>3
<1>6. ASSUME NEW i \in Slots, Close(i)
      PROVE  KnownInv'
  BY <1>6, <1>n DEF Close, notTeardown, uartVars, hostVars
<1>7. CASE Drain
  <2>1. SessionEnds(tslot) /\ conn' = [conn EXCEPT ![tslot] = "IDLE"] /\ UNCHANGED <<uart, uslot, listening>>
    BY <1>7 DEF Drain, Set, notTeardown, uartVars, hostVars
  <2> QED
    BY <1>k, <2>1, Ended DEF Resending
<1>8. CASE TellDown
  BY <1>8, <1>n DEF TellDown, notTeardown, uartVars, hostVars, slotVars
<1>9. CASE Serve
  BY <1>9, <1>n DEF Serve, Take, SendValues, SendFieldsAgain, notSampler, uartVars, hostVars
<1>10. ASSUME NEW i \in Slots, Look(i) \/ Push(i)
       PROVE  KnownInv'
  BY <1>10, <1>n DEF Look, Push, notSampler, uartVars, hostVars
<1>11. CASE HostBoots
  BY <1>11, <1>k DEF HostBoots, notHost, uartVars, slotVars, Missed, Followed, Resending
<1>12. CASE HostRestarts
  BY <1>12, <1>k DEF HostRestarts, notHost, uartVars, slotVars, Followed, Resending
<1>13. CASE UNCHANGED vars
  BY <1>13, <1>n DEF vars, uartVars, hostVars, slotVars
<1> QED
  BY <1>1, <1>2, <1>3, <1>4, <1>5, <1>6, <1>7, <1>8, <1>9, <1>10, <1>11, <1>12, <1>13
     DEF Worker, Teardown, Sampling, Host

LEMMA KnowledgeHolds == Spec => []KnowledgeInv
<1>1. KnowledgeInv /\ [Next]_vars => AnswerInv' /\ KnownInv'
  BY AnswerStepUart, AnswerStepOther, KnownStepUart, KnownStepOther DEF Next
<1>2. AnswerInv /\ KnownInv /\ SessionInv /\ IntroInv => KnowledgeInv
  BY DEF KnowledgeInv
<1>3. IntroducedInv => IntroInv
  BY DEF IntroducedInv
<1>4. Init => AnswerInv /\ KnownInv
  BY KnowledgeInit
<1> QED
  BY <1>1, <1>2, <1>3, <1>4, SessionHolds, IntroducedHolds, PTL DEF Spec

\* The list the host is sent has every READY slot, and takes no name or field away.
LEMMA ListFacts ==
    ASSUME KnowledgeInv, emitDevList
    PROVE  /\ \A i \in Slots : listening /\ conn[i] = "READY" => "listed" \in table'[i]
           /\ \A i \in Slots : Frames \subseteq table[i] => Frames \subseteq table'[i]
           /\ lost' = lost
BY KnowledgeTypes DEF emitDevList, Frames

\* The host is told of a slot and of the list: what ToldInv says of slot i.
Knows(i) ==
    /\ Told(i) /\ ~lost[i] => Frames \subseteq table[i]
    /\ Listed => "listed" \in table[i] \/ (worker = "tell" /\ wslot = i)

LEMMA ToldStepUart ==
    ASSUME KnowledgeInv, ToldInv, Uart
    PROVE  ToldInv'
<1> SUFFICES ASSUME NEW i \in Slots, listening, conn[i] = "READY", UNCHANGED <<conn, listening, worker, wslot>>
             PROVE  Knows(i)'
  <2>1. UNCHANGED <<conn, listening, worker, wslot>>
    BY DEF Uart, notUart, slotVars, hostVars, workerVars, Dispatch, Handshake, HandleHello, HandleDevList,
        HandleOther, ResendLook, ResendInfo, ResendFields, ResendList, ResendEnds, Answered
  <2> QED
    BY <2>1 DEF ToldInv, Knows
<1>k. Knows(i)
  BY DEF ToldInv, Knows
<1>t. /\ i \in Nat /\ i < N /\ N \in Nat /\ uslot \in 0 .. N
      /\ table \in [Slots -> SUBSET (Frames \cup {"listed"})] /\ lost \in [Slots -> BOOLEAN]
      /\ uart # "idle" => ~rebuilt
  BY HostAssumption DEF KnowledgeInv, SessionInv, TypeInv, TypeOK, AnswerInv, Slots
<1> USE <1>k, <1>t DEF Knows, Told, Listed, Resending, FirstContact
<1>1. ASSUME NEW c \in {"C_HELLO", "C_DEV_LIST", "C_CONNECT"}, Dispatch(c)
      PROVE  Knows(i)'
  BY <1>1 DEF Dispatch
<1>2. CASE Handshake
  <2>1. prev # "SILENT"
    BY <1>2 DEF Handshake, KnowledgeInv, AnswerInv
  <2>2. prev \in {"ANNOUNCED", "HEARD"}
    BY <2>1 DEF KnowledgeInv, SessionInv, TypeInv, TypeOK
  <2> QED
    BY <1>2, <2>2 DEF Handshake, hostVars
<1>3. CASE HandleHello
  <2>1. CASE FirstContact
    BY <1>3, <2>1 DEF HandleHello, Answered, wireVars
  <2>2. CASE ~FirstContact
    BY <1>3, <2>2 DEF HandleHello, Answered
  <2> QED
    BY <2>1, <2>2
<1>4. CASE HandleDevList
  BY <1>4, ListFacts DEF HandleDevList, hostVars
<1>5. CASE HandleOther
  BY <1>5 DEF HandleOther, Answered, wireVars
<1>6. CASE ResendLook
  BY <1>6 DEF ResendLook, hostVars, wireVars
<1>7. CASE ResendInfo
  BY <1>7, KnowledgeTypes DEF ResendInfo, SendInfo, Learns, Set, hostVars
<1>8. CASE ResendFields
  <2>1. uslot \in Slots /\ (uslot = i => "info" \in table[i])
    BY <1>8, KnowledgeTypes DEF ResendFields, KnowledgeInv, KnownInv
  <2>2. /\ table' = [table EXCEPT ![uslot] = table[uslot] \cup {"fields"}]
        /\ lost' = [lost EXCEPT ![uslot] = FALSE]
    BY <1>8 DEF ResendFields, IntroducedAgain, Learns, Set
  <2>3. uart' = "resend" /\ uslot' = uslot + 1 /\ UNCHANGED <<command, rebuilt>> /\ uart = "resendFields"
    BY <1>8 DEF ResendFields, hostVars
  <2>4. table[i] \subseteq table'[i] /\ (uslot = i => Frames \subseteq table'[i])
    BY <2>1, <2>2 DEF Frames
  <2>5. i < uslot + 1 /\ uslot # i => i < uslot
    BY <2>1 DEF Slots
  <2> QED
    BY <2>1, <2>2, <2>3, <2>4, <2>5
<1>9. CASE ResendList
  BY <1>9, ListFacts DEF ResendList, hostVars
<1>10. CASE ResendEnds
  BY <1>10 DEF ResendEnds, Answered, wireVars
<1> QED
  BY <1>1, <1>2, <1>3, <1>4, <1>5, <1>6, <1>7, <1>8, <1>9, <1>10 DEF Uart

toldVars == <<rebuilt, uart, uslot, command, prev>>

LEMMA ToldStepWorker ==
    ASSUME KnowledgeInv, ToldInv, Worker
    PROVE  ToldInv'
<1> SUFFICES ASSUME NEW i \in Slots, listening, conn'[i] = "READY", UNCHANGED <<listening, toldVars>>
             PROVE  Knows(i)'
  <2>1. UNCHANGED <<listening, toldVars>>
    BY DEF Worker, notWorker, hostVars, uartVars, toldVars, Acquire, Announce, AnnounceHello,
        ListConnecting, ConnectOk, ConnectFails, StartAndIntroduce, IntroduceFields, Publish, Tell
  <2> QED
    BY <2>1 DEF ToldInv, Knows
<1>k. conn[i] = "READY" => Knows(i)
  BY DEF ToldInv, Knows
<1>u. (Told(i)' <=> Told(i)) /\ (Listed' <=> Listed)
  BY DEF Told, Listed, FirstContact, toldVars
<1> USE <1>k, <1>u, KnowledgeTypes DEF Knows
<1>1. ASSUME NEW j \in Slots, Acquire(j)
      PROVE  Knows(i)'
  BY <1>1 DEF Acquire, Set, wireVars
<1>2. CASE Announce \/ ConnectOk
  BY <1>2 DEF Announce, ConnectOk, wireVars, slotVars, WorkerGoes
<1>3. CASE AnnounceHello
  BY <1>3 DEF AnnounceHello, slotVars, KnowledgeInv, SessionInv, FirstInv, First
<1>4. CASE ListConnecting
  BY <1>4, ListFacts DEF ListConnecting, slotVars, wireVars, WorkerGoes
<1>5. CASE ConnectFails
  BY <1>5 DEF ConnectFails, Set, wireVars
<1>6. CASE StartAndIntroduce \/ IntroduceFields
  <2>1. UNCHANGED <<conn, lost, wslot>> /\ worker # "tell"
    BY <1>6 DEF StartAndIntroduce, IntroduceFields, SendInfo, SendFields, WorkerGoes, slotVars
  <2>2. table[i] \subseteq table'[i]
    BY <1>6 DEF StartAndIntroduce, IntroduceFields, SendInfo, SendFields, Learns, Set
  <2> QED
    BY <2>1, <2>2
<1>7. CASE Publish
  <2>1. CASE conn[wslot] = "CONNECTING"
    <3>1. conn' = [conn EXCEPT ![wslot] = "READY"] /\ UNCHANGED <<table, lost, wslot>> /\ worker' = "tell"
      BY <1>7, <2>1 DEF Publish, Set, wireVars, WorkerGoes
    <3>2. worker = "publish"
      BY <1>7 DEF Publish
    <3>3. CASE i = wslot
      <4>1. Frames \subseteq introduced[i]
        BY <2>1, <3>2, <3>3 DEF KnowledgeInv, IntroInv, Frames
      <4>2. ~lost[i] => Frames \subseteq table[i]
        BY <2>1, <3>3, <4>1 DEF KnowledgeInv, KnownInv
      <4> QED
        BY <3>1, <3>3, <4>2
    <3>4. CASE i # wslot
      BY <3>1, <3>2, <3>4
    <3> QED
      BY <3>3, <3>4
  <2>2. CASE conn[wslot] # "CONNECTING"
    <3>1. i # wslot /\ SessionEnds(wslot) /\ conn' = conn
      BY <1>7, <2>2 DEF Publish, KnowledgeInv, SessionInv, PlaceInv, Busy
    <3> QED
      BY <1>7, <3>1 DEF Publish, SessionEnds, Set
  <2> QED
    BY <2>1, <2>2
<1>8. CASE Tell
  BY <1>8, ListFacts DEF Tell, slotVars
<1> QED
  BY <1>1, <1>2, <1>3, <1>4, <1>5, <1>6, <1>7, <1>8 DEF Worker

LEMMA ToldStepOther ==
    ASSUME KnowledgeInv, ToldInv, Teardown \/ Sampling \/ Host \/ UNCHANGED vars
    PROVE  ToldInv'
<1> SUFFICES ASSUME NEW i \in Slots, listening', conn'[i] = "READY"
             PROVE  Knows(i)'
  BY DEF ToldInv, Knows
<1>k. listening /\ conn[i] = "READY" => Knows(i)
  BY DEF ToldInv, Knows
<1> USE <1>k, KnowledgeTypes DEF Knows, Told, Listed, FirstContact, uartVars, hostVars, workerVars, slotVars
<1>1. ASSUME NEW j \in Slots, Close(j)
      PROVE  Knows(i)'
  BY <1>1 DEF Close, notTeardown, wireVars
<1>2. CASE Drain
  BY <1>2 DEF Drain, notTeardown, SessionEnds, Set
<1>3. CASE TellDown
  BY <1>3, ListFacts DEF TellDown, notTeardown
<1>4. CASE Serve
  <2>1. UNCHANGED <<conn, listening, worker, wslot, rebuilt, uart, uslot, command, prev>>
    BY <1>4 DEF Serve, Take, SendValues, SendFieldsAgain, notSampler
  <2>2. UNCHANGED wireVars \/ SendFields(vslot)
    BY <1>4 DEF Serve, Take, SendValues, SendFieldsAgain
  <2>3. lost' = lost /\ table[i] \subseteq table'[i]
    BY <2>2 DEF wireVars, SendFields, Learns, Set
  <2> QED
    BY <2>1, <2>3
<1>5. ASSUME NEW j \in Slots, Look(j) \/ Push(j)
      PROVE  Knows(i)'
  <2>1. UNCHANGED <<conn, listening, worker, wslot, rebuilt, uart, uslot, command, prev, table, lost>>
    BY <1>5 DEF Look, Push, notSampler, wireVars
  <2> QED
    BY <2>1
<1>6. CASE HostBoots
  <2>1. UNCHANGED <<uart, rebuilt>> /\ uart = "idle" /\ ~rebuilt
    BY <1>6 DEF HostBoots, notHost, KnowledgeInv, AnswerInv
  <2> QED
    BY <2>1, SlotFacts DEF Resending
<1>7. CASE HostRestarts
  BY <1>7 DEF HostRestarts
<1>8. CASE UNCHANGED vars
  BY <1>8 DEF vars, wireVars
<1> QED
  BY <1>1, <1>2, <1>3, <1>4, <1>5, <1>6, <1>7, <1>8 DEF Teardown, Sampling, Host

\* A host that had an answer with its table knows every READY slot that no task is
\* busy with and whose introduction it did not miss in part.
THEOREM HostKnowsEveryReadySlot == Spec => []HostKnowsReady
<1>1. Init => ToldInv
  BY KnowledgeInit
<1>2. KnowledgeInv /\ ToldInv /\ [Next]_vars => ToldInv'
  BY ToldStepUart, ToldStepWorker, ToldStepOther DEF Next
<1>3. KnowledgeInv /\ ToldInv => HostKnowsReady
  <2> SUFFICES ASSUME KnowledgeInv, ToldInv, NEW i \in Slots,
                      rebuilt, Settled(i), conn[i] = "READY", ~lost[i]
               PROVE  table[i] = Frames \cup {"listed"}
    BY DEF HostKnowsReady
  <2>1. Frames \subseteq table[i]
    BY DEF KnowledgeInv, AnswerInv, ToldInv, Told
  <2>2. "listed" \in table[i]
    BY DEF KnowledgeInv, AnswerInv, ToldInv, Listed, Settled
  <2> QED
    BY <2>1, <2>2, KnowledgeTypes
<1> QED
  BY <1>1, <1>2, <1>3, KnowledgeHolds, PTL DEF Spec
=============================================================================

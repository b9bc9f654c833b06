------------------------ MODULE FrameReceiverProofs ------------------------
(* The receiver stays inside its buffer whatever arrives, and gives the handler
   whole frames when the line is clean, for every size of the buffers.      *)
EXTENDS FrameReceiver, SequenceTheorems, TLAPS

LEMMA Constants ==
    /\ Base \in Nat /\ Base >= 1 /\ BufSize \in Nat /\ BufSize >= 1
    /\ ScratchSize \in Nat /\ ScratchSize >= 1 /\ FifoSize \in Nat /\ FifoSize >= 1
    /\ GapReset \in Nat /\ GapReset >= 1 /\ ClockRange \in Nat /\ ClockRange >= 1
    /\ MaxPause \in Nat /\ MaxStall \in Nat /\ MaxQuiet \in Nat
    /\ MaxFrames \in Nat /\ MaxNoise \in Nat
    /\ MaxPause + MaxStall <= GapReset /\ MaxPause <= MaxQuiet /\ MaxQuiet + MaxStall < ClockRange
BY LineAssumption

LEMMA Products == \A m, n \in Nat : m * n \in Nat
OBVIOUS

LEMMA Wraps ==
  ASSUME NEW x \in Nat
  PROVE  x % ClockRange \in 0 .. ClockRange - 1
BY Constants, SMT

-----------------------------------------------------------------------------
(* Types, and the bounds of the buffer. *)

\* The RX buffer when n bytes are taken from it.
LEMMA Drained ==
  ASSUME TypeOK, NEW n \in 0 .. Len(fifo), ReadBytes(n)
  PROVE  /\ fifo' \in Seq(Bytes) /\ Len(fifo') = Len(fifo) - n
         /\ \A i \in 1 .. Len(fifo) - n : fifo'[i] = fifo[i + n]
<1>1. fifo \in Seq(Bytes) /\ Len(fifo) \in Nat
  BY DEF TypeOK
<1>2. \A i \in n + 1 .. Len(fifo) : fifo[i] \in Bytes
  BY <1>1, ElementOfSeq
<1> DEFINE rest == SubSeq(fifo, n + 1, Len(fifo))
<1>3. /\ rest \in Seq(Bytes)
      /\ Len(rest) = IF n + 1 <= Len(fifo) THEN Len(fifo) - (n + 1) + 1 ELSE 0
      /\ \A i \in 1 .. Len(fifo) - (n + 1) + 1 : rest[i] = fifo[(n + 1) + i - 1]
  <2> HIDE DEF rest
  <2> QED  BY <1>1, <1>2, SubSeqProperties DEF rest
<1>4. fifo' = rest
  BY DEF ReadBytes
<1> HIDE DEF rest
<1> QED  BY <1>1, <1>3, <1>4

LEMMA FifoHead ==
  ASSUME TypeOK, fifo # << >>
  PROVE  /\ Len(fifo) \in Nat /\ Len(fifo) >= 1 /\ Head(fifo) = fifo[1]
         /\ fifo[1] \in Bytes
BY DEF TypeOK

\* A chunk of the RX buffer that is read into the buffer at pos.
LEMMA ChunkRead ==
  ASSUME TypeOK, NEW n \in 0 .. Len(fifo),
         buf' = [i \in DOMAIN buf |->
                   IF i \in pos .. pos + n - 1 THEN fifo[i - pos + 1] ELSE buf[i]]
  PROVE  buf' \in [0 .. BufSize - 1 -> Bytes]
<1>1. \A i \in 1 .. Len(fifo) : fifo[i] \in Bytes
  BY ElementOfSeq DEF TypeOK
<1> QED  BY <1>1 DEF TypeOK

LEMMA FrameType ==
  ASSUME NEW f \in Frames, NEW hi \in Values, NEW lo \in Values, NEW fill \in Values
  PROVE  /\ hi * Base + lo \in Nat
         /\ Frame(f, hi, lo, fill) \in Seq(Bytes)
         /\ Len(Frame(f, hi, lo, fill)) = hi * Base + lo + 2
<1> DEFINE n == hi * Base + lo
<1>1. n \in Nat
  BY Products, Constants DEF Values
<1>2. hi * Base + lo = n
  OBVIOUS
<1> HIDE DEF n
<1>3. \A i \in 1 .. n + 2 :
        [frame |-> f, at |-> i, of |-> n,
         value |-> IF i = 1 THEN hi ELSE IF i = 2 THEN lo ELSE fill] \in Bytes
  BY <1>1, Constants DEF Bytes, Frames
<1> QED  BY <1>1, <1>2, <1>3 DEF Frame

BoundsInv == TypeOK /\ NeverOverrun

LEMMA BoundsInit == Init => BoundsInv
<1> SUFFICES ASSUME Init PROVE BoundsInv
  OBVIOUS
<1>1. Stray(0) \in Bytes
  BY Constants DEF Stray, Bytes, Values
<1> QED  BY <1>1, Constants DEF Init, BoundsInv, TypeOK, NeverOverrun, States, Frames

LEMMA LineBounds ==
  ASSUME BoundsInv, HostWrites \/ ByteArrives \/ NoiseArrives
  PROVE  BoundsInv'
<1>1. UNCHANGED <<state, len, pos, skip, midFrameIdle, buf, idleFor, stall, got>>
  BY DEF HostWrites, ByteArrives, NoiseArrives, receiver
<1>2. CASE HostWrites
  <2>1. sent + 1 \in Frames /\ sent' = sent + 1
    BY <1>2, Constants DEF HostWrites, BoundsInv, TypeOK, Frames
  <2>2. line' \in Seq(Bytes)
    <3>1. PICK hi, lo, fill \in Values : line' = Frame(sent + 1, hi, lo, fill)
      BY <1>2 DEF HostWrites
    <3> QED  BY <2>1, <3>1, FrameType
  <2>3. owed' \subseteq Frames
    BY <1>2, <2>1 DEF HostWrites, BoundsInv, TypeOK
  <2>4. UNCHANGED <<fifo, quiet, noise, tainted>>
    BY <1>2 DEF HostWrites
  <2> QED
    BY <1>1, <2>1, <2>2, <2>3, <2>4 DEF BoundsInv, TypeOK, NeverOverrun, Frames
<1>3. ASSUME NEW b \in Bytes, Arrives(b)
      PROVE  fifo' \in Seq(Bytes) /\ Len(fifo') <= FifoSize
  BY <1>3, Constants, AppendProperties DEF Arrives, BoundsInv, TypeOK
<1>4. CASE ByteArrives
  <2>1. Head(line) \in Bytes /\ Tail(line) \in Seq(Bytes)
    BY <1>4, HeadTailProperties DEF ByteArrives, BoundsInv, TypeOK
  <2>2. fifo' \in Seq(Bytes) /\ Len(fifo') <= FifoSize /\ line' \in Seq(Bytes)
    BY <1>3, <1>4, <2>1 DEF ByteArrives
  <2>3. quiet' = 0 /\ tainted' \in BOOLEAN /\ owed' \subseteq Frames /\ UNCHANGED <<sent, noise>>
    BY <1>4 DEF ByteArrives, Taint, BoundsInv, TypeOK
  <2> QED
    BY <1>1, <2>2, <2>3, Constants DEF BoundsInv, TypeOK, NeverOverrun
<1>5. CASE NoiseArrives
  <2>1. \A v \in Values : Stray(v) \in Bytes
    BY Constants DEF Stray, Bytes
  <2>2. fifo' \in Seq(Bytes) /\ Len(fifo') <= FifoSize
    BY <1>3, <1>5, <2>1 DEF NoiseArrives
  <2>3. /\ quiet' = 0 /\ tainted' \in BOOLEAN /\ owed' \subseteq Frames
        /\ noise' \in 0 .. MaxNoise /\ UNCHANGED <<sent, line>>
    BY <1>5, Constants DEF NoiseArrives, Taint, BoundsInv, TypeOK
  <2> QED
    BY <1>1, <2>2, <2>3, Constants DEF BoundsInv, TypeOK, NeverOverrun
<1> QED  BY <1>2, <1>4, <1>5

LEMMA TickBounds ==
  ASSUME BoundsInv, Tick
  PROVE  BoundsInv'
<1>1. UNCHANGED <<state, len, pos, skip, midFrameIdle, buf, fifo, line, sent, noise, owed, got>>
  BY DEF Tick, receiver
<1>2. quiet' \in 0 .. MaxQuiet /\ stall' \in 0 .. MaxStall
  <2>1. quiet < MaxQuiet \/ quiet < MaxPause
    BY DEF Tick
  <2> QED  BY <2>1, Constants DEF Tick, BoundsInv, TypeOK
<1>3. idleFor' \in 0 .. ClockRange - 1
  <2>1. idleFor + 1 \in Nat /\ (idleFor + 1) % ClockRange \in 0 .. ClockRange - 1
    <3>1. idleFor \in 0 .. ClockRange - 1
      BY DEF BoundsInv, TypeOK
    <3>2. idleFor + 1 \in Nat
      BY <3>1, Constants
    <3> QED  BY <3>2, Wraps
  <2>2. idleFor' = IF midFrameIdle THEN (idleFor + 1) % ClockRange ELSE 0
    BY DEF Tick
  <2>3. 0 \in 0 .. ClockRange - 1
    BY Constants
  <2> QED  BY <2>1, <2>2, <2>3
<1>4. tainted' \in BOOLEAN
  BY DEF Tick
<1> QED  BY <1>1, <1>2, <1>3, <1>4 DEF BoundsInv, TypeOK, NeverOverrun

LEMMA ReadTypes ==
  ASSUME BoundsInv, HavingRead, NEW n \in 0 .. Len(fifo), ReadBytes(n),
         state' \in States, midFrameIdle' \in BOOLEAN,
         len' \in Nat, pos' \in Nat, skip' \in Nat,
         buf' \in [0 .. BufSize - 1 -> Bytes], got' \in Seq(0 .. MaxFrames)
  PROVE  TypeOK'
<1>1. fifo' \in Seq(Bytes) /\ Len(fifo') <= FifoSize
  <2>1. TypeOK /\ Len(fifo) \in Nat /\ Len(fifo) <= FifoSize
    BY DEF BoundsInv, TypeOK
  <2>2. fifo' \in Seq(Bytes) /\ Len(fifo') = Len(fifo) - n
    BY <2>1, Drained
  <2> QED  BY <2>1, <2>2, Constants
<1>2. idleFor' \in 0 .. ClockRange - 1 /\ UNCHANGED <<line, quiet, sent, noise, tainted, owed, stall>>
  BY Constants DEF HavingRead, BoundsInv, TypeOK
<1> QED  BY <1>1, <1>2 DEF BoundsInv, TypeOK

LEMMA ReadLen0Bounds ==
  ASSUME BoundsInv, ReadLen0
  PROVE  BoundsInv'
<1>1. fifo # << >> /\ Len(fifo) >= 1 /\ Len(fifo) \in Nat /\ Head(fifo).value \in Nat
  <2>1. fifo # << >>
    BY DEF ReadLen0, Reading
  <2> QED  BY <2>1, FifoHead, Constants DEF BoundsInv, Bytes, Values
<1>2. len' \in Nat
  BY <1>1, Products, Constants DEF ReadLen0
<1>3. state' = "READ_LEN1" /\ pos' = 0 /\ skip' = 0 /\ midFrameIdle' = FALSE
      /\ UNCHANGED <<buf, got>> /\ HavingRead /\ ReadBytes(1)
  BY DEF ReadLen0
<1>4. TypeOK'
  <2>1. /\ 1 \in 0 .. Len(fifo) /\ state' \in States /\ midFrameIdle' \in BOOLEAN
        /\ len' \in Nat /\ pos' \in Nat /\ skip' \in Nat
        /\ buf' \in [0 .. BufSize - 1 -> Bytes] /\ got' \in Seq(0 .. MaxFrames)
    <3>1. buf \in [0 .. BufSize - 1 -> Bytes] /\ got \in Seq(0 .. MaxFrames)
      BY DEF BoundsInv, TypeOK
    <3>2. UNCHANGED buf /\ UNCHANGED got
      BY <1>3
    <3>3. 1 \in 0 .. Len(fifo)
      BY <1>1
    <3> QED  BY <1>2, <1>3, <3>1, <3>2, <3>3 DEF States
  <2> QED  BY <1>3, <2>1, ReadTypes
<1> QED  BY <1>3, <1>4 DEF BoundsInv, NeverOverrun

LEMMA ReadLen1Bounds ==
  ASSUME BoundsInv, ReadLen1
  PROVE  BoundsInv'
<1>1. fifo # << >> /\ Len(fifo) >= 1 /\ Len(fifo) \in Nat /\ Head(fifo).value \in Nat
  <2>1. fifo # << >>
    BY DEF ReadLen1, Reading
  <2> QED  BY <2>1, FifoHead, Constants DEF BoundsInv, Bytes, Values
<1>2. PICK n \in Nat : n = len + Head(fifo).value
  BY <1>1 DEF BoundsInv, TypeOK
<1>3. /\ state' \in States /\ midFrameIdle' = FALSE /\ len' \in Nat /\ pos' \in Nat /\ skip' \in Nat
      /\ state' = "READ_PAYLOAD" => pos' < len' /\ len' <= BufSize
      /\ state' = "SKIP_PAYLOAD" => skip' \in 1 .. len' /\ len' > BufSize
  BY <1>2, Constants DEF ReadLen1, reset, BoundsInv, TypeOK, States
<1>4. UNCHANGED <<buf, got>> /\ HavingRead /\ ReadBytes(1)
  BY DEF ReadLen1
<1>5. TypeOK'
  <2>1. /\ 1 \in 0 .. Len(fifo) /\ midFrameIdle' \in BOOLEAN
        /\ buf' \in [0 .. BufSize - 1 -> Bytes] /\ got' \in Seq(0 .. MaxFrames)
    <3>1. buf \in [0 .. BufSize - 1 -> Bytes] /\ got \in Seq(0 .. MaxFrames)
      BY DEF BoundsInv, TypeOK
    <3>2. UNCHANGED buf /\ UNCHANGED got
      BY <1>4
    <3>3. 1 \in 0 .. Len(fifo)
      BY <1>1
    <3> QED  BY <1>3, <3>1, <3>2, <3>3
  <2> QED  BY <1>3, <1>4, <2>1, ReadTypes
<1> QED  BY <1>3, <1>5 DEF BoundsInv, NeverOverrun

\* What the handler is called with is a frame of the host, or 0.
LEMMA ContentType ==
  ASSUME NEW b \in [0 .. BufSize - 1 -> Bytes], NEW n \in Nat
  PROVE  Content(b, n) \in 0 .. MaxFrames
<1>1. b[0] \in Bytes
  BY Constants
<1> QED  BY <1>1, Constants DEF Content, Bytes

\* The chunk that a call reads of a payload.
LEMMA PayloadChunk ==
  ASSUME BoundsInv, ReadPayload
  PROVE  \E n \in 1 .. Len(fifo) :
           /\ n <= len - pos /\ pos + n <= len /\ pos < len /\ len <= BufSize
           /\ state = "READ_PAYLOAD" /\ ~GapSeen
           /\ ReadBytes(n)
           /\ buf' = [i \in DOMAIN buf |->
                        IF i \in pos .. pos + n - 1 THEN fifo[i - pos + 1] ELSE buf[i]]
           /\ \/ /\ pos + n < len /\ pos' = pos + n /\ midFrameIdle' = FALSE
                 /\ UNCHANGED <<state, len, skip, got>>
              \/ /\ pos + n = len /\ reset /\ got' = Append(got, Content(buf', len))
<1>1. state = "READ_PAYLOAD" /\ ~GapSeen /\ fifo # << >>
  BY DEF ReadPayload, Reading, Stage
<1>2. Len(fifo) \in Nat /\ Len(fifo) >= 1
  BY <1>1, FifoHead DEF BoundsInv
<1>3. pos < len /\ len <= BufSize /\ pos \in Nat /\ len \in Nat
  BY <1>1 DEF BoundsInv, NeverOverrun, TypeOK
<1>4. PICK n \in 1 .. Len(fifo) : n = Least(Len(fifo), len - pos) /\ n <= len - pos
  BY <1>2, <1>3 DEF Least
<1>5. /\ ReadBytes(n)
      /\ buf' = [i \in DOMAIN buf |->
                   IF i \in pos .. pos + n - 1 THEN fifo[i - pos + 1] ELSE buf[i]]
      /\ \/ /\ pos + n < len /\ pos' = pos + n /\ midFrameIdle' = FALSE
            /\ UNCHANGED <<state, len, skip, got>>
         \/ /\ pos + n >= len /\ reset /\ got' = Append(got, Content(buf', len))
  BY <1>4 DEF ReadPayload
<1> QED  BY <1>1, <1>3, <1>4, <1>5

LEMMA ReadPayloadBounds ==
  ASSUME BoundsInv, ReadPayload
  PROVE  BoundsInv'
<1>1. PICK n \in 1 .. Len(fifo) :
           /\ n <= len - pos /\ pos + n <= len /\ pos < len /\ len <= BufSize
           /\ state = "READ_PAYLOAD" /\ ~GapSeen
           /\ ReadBytes(n)
           /\ buf' = [i \in DOMAIN buf |->
                        IF i \in pos .. pos + n - 1 THEN fifo[i - pos + 1] ELSE buf[i]]
           /\ \/ /\ pos + n < len /\ pos' = pos + n /\ midFrameIdle' = FALSE
                 /\ UNCHANGED <<state, len, skip, got>>
              \/ /\ pos + n = len /\ reset /\ got' = Append(got, Content(buf', len))
  BY PayloadChunk
<1>2. Len(fifo) \in Nat /\ n \in 0 .. Len(fifo)
  BY DEF BoundsInv, TypeOK
<1>3. buf' \in [0 .. BufSize - 1 -> Bytes]
  BY <1>1, <1>2, ChunkRead DEF BoundsInv
<1>4. got' \in Seq(0 .. MaxFrames)
  <2>1. Content(buf', len) \in 0 .. MaxFrames
    BY <1>3, ContentType DEF BoundsInv, TypeOK
  <2>2. got \in Seq(0 .. MaxFrames)
    BY DEF BoundsInv, TypeOK
  <2>3. Append(got, Content(buf', len)) \in Seq(0 .. MaxFrames)
    BY <2>1, <2>2, AppendProperties
  <2> QED  BY <1>1, <2>2, <2>3
<1>5. /\ state' \in States /\ midFrameIdle' = FALSE /\ len' \in Nat /\ pos' \in Nat /\ skip' \in Nat
      /\ state' = "READ_PAYLOAD" => pos' < len' /\ len' <= BufSize
      /\ state' # "SKIP_PAYLOAD"
  BY <1>1, <1>2, Constants DEF reset, BoundsInv, TypeOK, States
<1>6. HavingRead
  BY DEF ReadPayload
<1>7. TypeOK'
  BY <1>1, <1>2, <1>3, <1>4, <1>5, <1>6, ReadTypes
<1> QED  BY <1>5, <1>7 DEF BoundsInv, NeverOverrun

\* The chunk that a call skips of a payload.
LEMMA SkipChunk ==
  ASSUME BoundsInv, SkipPayload
  PROVE  \E n \in 1 .. Len(fifo) :
           /\ n <= skip /\ skip \in 1 .. len /\ len > BufSize
           /\ state = "SKIP_PAYLOAD" /\ ~GapSeen
           /\ ReadBytes(n)
           /\ \/ skip = n /\ reset
              \/ /\ skip > n /\ skip' = skip - n /\ midFrameIdle' = FALSE
                 /\ UNCHANGED <<state, len, pos>>
<1>1. state = "SKIP_PAYLOAD" /\ ~GapSeen /\ fifo # << >>
  BY DEF SkipPayload, Reading, Stage
<1>2. Len(fifo) \in Nat /\ Len(fifo) >= 1
  BY <1>1, FifoHead DEF BoundsInv
<1>3. skip \in 1 .. len /\ len > BufSize /\ skip \in Nat /\ len \in Nat
  BY <1>1 DEF BoundsInv, NeverOverrun, TypeOK
<1>4. PICK n \in 1 .. Len(fifo) :
        n = Least(Least(Len(fifo), skip), ScratchSize) /\ n <= skip
  BY <1>2, <1>3, Constants DEF Least
<1> QED  BY <1>1, <1>3, <1>4 DEF SkipPayload

LEMMA SkipPayloadBounds ==
  ASSUME BoundsInv, SkipPayload
  PROVE  BoundsInv'
<1>1. PICK n \in 1 .. Len(fifo) :
           /\ n <= skip /\ skip \in 1 .. len /\ len > BufSize
           /\ state = "SKIP_PAYLOAD" /\ ~GapSeen
           /\ ReadBytes(n)
           /\ \/ skip = n /\ reset
              \/ /\ skip > n /\ skip' = skip - n /\ midFrameIdle' = FALSE
                 /\ UNCHANGED <<state, len, pos>>
  BY SkipChunk
<1>2. Len(fifo) \in Nat /\ n \in 0 .. Len(fifo)
  BY DEF BoundsInv, TypeOK
<1>3. /\ state' \in States /\ midFrameIdle' = FALSE /\ len' \in Nat /\ pos' \in Nat /\ skip' \in Nat
      /\ state' = "SKIP_PAYLOAD" => skip' \in 1 .. len' /\ len' > BufSize
      /\ state' # "READ_PAYLOAD"
  BY <1>1, <1>2, Constants DEF reset, BoundsInv, TypeOK, States
<1>4. HavingRead /\ UNCHANGED <<buf, got>>
  BY DEF SkipPayload
<1>5. TypeOK'
  BY <1>1, <1>2, <1>3, <1>4, ReadTypes DEF BoundsInv, TypeOK
<1> QED  BY <1>3, <1>5 DEF BoundsInv, NeverOverrun

LEMMA BoundsStep == BoundsInv /\ [Next]_vars => BoundsInv'
<1> SUFFICES ASSUME BoundsInv, [Next]_vars PROVE BoundsInv'
  OBVIOUS
<1>1. CASE FindsNothing
  <2>1. /\ UNCHANGED <<state, len, pos, skip, buf, fifo, line, quiet, sent, noise, tainted, owed, got>>
        /\ stall' = 0
    BY <1>1 DEF FindsNothing, wire
  <2>2. midFrameIdle' \in BOOLEAN /\ idleFor' \in 0 .. ClockRange - 1
    <3>1. midFrameIdle \in BOOLEAN /\ idleFor \in 0 .. ClockRange - 1
      BY DEF BoundsInv, TypeOK
    <3>2. \/ midFrameIdle' = TRUE /\ idleFor' = 0
          \/ midFrameIdle' = midFrameIdle /\ idleFor' = idleFor
      BY <1>1 DEF FindsNothing
    <3>3. 0 \in 0 .. ClockRange - 1
      BY Constants
    <3> QED  BY <3>1, <3>2, <3>3, Zenon
  <2>3. stall' \in 0 .. MaxStall
    BY <2>1, Constants
  <2>4. TypeOK /\ NeverOverrun
    BY DEF BoundsInv
  <2>5. TypeOK'
    BY <2>1, <2>2, <2>3, <2>4 DEF TypeOK
  <2>6. NeverOverrun'
    BY <2>1, <2>4 DEF NeverOverrun
  <2> QED  BY <2>5, <2>6 DEF BoundsInv
<1>2. CASE UNCHANGED vars
  BY <1>2 DEF vars, receiver, wire, BoundsInv, TypeOK, NeverOverrun
<1> QED
  BY <1>1, <1>2, LineBounds, TickBounds, ReadLen0Bounds, ReadLen1Bounds, ReadPayloadBounds,
     SkipPayloadBounds DEF Next, processStep

\* The variables of the receiver and of the line keep their types.
THEOREM TypeCorrect == Spec => []TypeOK
<1>1. BoundsInv => TypeOK
  BY DEF BoundsInv
<1> QED  BY <1>1, BoundsInit, BoundsStep, PTL DEF Spec

\* The receiver never writes past its buffer nor skips more than is left of a
\* frame, for every size of the buffer, the chunks and the frames.
THEOREM StaysInBuffer == Spec => []NeverOverrun
<1>1. BoundsInv => NeverOverrun
  BY DEF BoundsInv
<1> QED  BY <1>1, BoundsInit, BoundsStep, PTL DEF Spec

-----------------------------------------------------------------------------
(* A clean line. *)

\* Bytes that are on their way to the receiver.
Coming == fifo \o line

\* A receiver that takes the next byte for the first of a length.
AtStart == state = "READ_LEN0" \/ GapSeen

\* How the silence that the receiver saw follows the silence of the line.
SilenceInv ==
    /\ fifo # << >> => quiet <= stall
    /\ state # "READ_LEN0" /\ ~midFrameIdle => quiet <= stall
    /\ midFrameIdle => /\ idleFor <= (IF fifo = << >> THEN quiet ELSE MaxQuiet + stall)
                       /\ quiet <= idleFor + MaxStall

\* Bytes left of the frame of byte i.
Left(s, i) == s[i].of + 2 - s[i].at

\* The length that two bytes stand for.
LengthOf(b, c) == b.value * Base + c.value

\* Byte i is one of a frame whose rest follows it, and then another frame.
WholeFrom(s, i) ==
    /\ s[i].frame \in Frames /\ s[i].at \in 1 .. s[i].of + 2
    /\ i + Left(s, i) <= Len(s)
    /\ \A k \in 0 .. Left(s, i) :
         s[i + k].frame = s[i].frame /\ s[i + k].of = s[i].of /\ s[i + k].at = s[i].at + k
    /\ i + Left(s, i) < Len(s) => s[i + Left(s, i) + 1].at = 1
    /\ s[i].at = 1 => LengthOf(s[i], s[i + 1]) = s[i].of

WholeFrames(s) == \A i \in 1 .. Len(s) : WholeFrom(s, i)

\* The next byte is the one the receiver takes it for, and the payload it has so
\* far is that of the frame of this byte.
InStep(s) ==
    IF AtStart THEN s # << >> => s[1].at = 1
    ELSE /\ s # << >>
         /\ state = "READ_LEN1" => s[1].at = 2 /\ len + s[1].value = s[1].of
         /\ state = "READ_PAYLOAD" =>
              /\ s[1].at = pos + 3 /\ s[1].of = len
              /\ \A i \in 0 .. pos - 1 :
                   buf[i].frame = s[1].frame /\ buf[i].at = i + 3 /\ buf[i].of = len
         /\ state = "SKIP_PAYLOAD" => s[1].of = len /\ s[1].at + skip = len + 3

\* A pause of the burst is not taken for the silence after it.
PauseInv ==
    ~AtStart /\ midFrameIdle => idleFor <= MaxPause + (IF fifo = << >> THEN 0 ELSE stall)

\* Byte b comes before c: of an earlier frame, or earlier in the same one.
Before(b, c) ==
    \/ b.frame = 0 \/ c.frame = 0 \/ b.frame < c.frame
    \/ b.frame = c.frame /\ b.of = c.of /\ b.at < c.at /\ c.at <= c.of + 2

\* The bytes of the frames are in order, those of the frame that is being written
\* come last, and no frame that is being damaged is owed.
LineInv ==
    /\ owed \subseteq 1 .. sent
    /\ tainted /\ line # << >> => sent \notin owed
    /\ line # << >> => line[1].at >= 1
    /\ \A j \in 1 .. Len(line) : line[j].frame = sent /\ line[j].at = line[1].at + j - 1
    /\ \A i \in 1 .. Len(fifo) : fifo[i].frame <= sent
    /\ \A i, j \in 1 .. Len(fifo) : i < j => Before(fifo[i], fifo[j])
    /\ \A i, j \in 1 .. Len(line) : i < j => Before(line[i], line[j])
    /\ \A i \in 1 .. Len(fifo), j \in 1 .. Len(line) : Before(fifo[i], line[j])
    /\ ~tainted /\ line # << >> =>
         \A i \in 1 .. Len(fifo) : (fifo[i].frame = sent) <=> (i > Len(fifo) - (line[1].at - 1))

\* What the handler got is of frames before those that are still coming.
GotInv ==
    /\ \A k \in DOMAIN got : got[k] <= sent
    /\ \A k \in DOMAIN got : got[k] \in owed =>
         /\ \A i \in 1 .. Len(fifo) : fifo[i].frame = 0 \/ got[k] < fifo[i].frame
         /\ line # << >> => got[k] < sent
    /\ \A i, j \in DOMAIN got : i < j /\ {got[i], got[j]} \subseteq owed => got[i] < got[j]

\* Byte b is the last one of frame f, which fits the buffer.
EndOf(b, f) == b.frame = f /\ b.at = b.of + 2 /\ b.of \in 1 .. BufSize

\* s begins what is coming, and is all of it while the line is clean.
Ahead(s) ==
    IF tainted THEN Len(s) <= Len(fifo) /\ \A i \in 1 .. Len(s) : s[i] = fifo[i]
               ELSE s = Coming

\* s is what is coming up to the last frame that is owed: whole frames that the
\* receiver is in step with.
Kept(s) ==
    /\ Ahead(s)
    /\ WholeFrames(s)
    /\ ~tainted \/ s # << >> => InStep(s) /\ PauseInv
    /\ \A i \in Len(s) + 1 .. Len(fifo) : fifo[i].frame \notin owed
    /\ \A f \in owed : \/ \E k \in DOMAIN got : got[k] = f
                       \/ \E i \in 1 .. Len(s) : EndOf(s[i], f)

KeptInv == \E s \in Seq(Bytes) : Kept(s)

OwedInv == BoundsInv /\ SilenceInv /\ LineInv /\ GotInv /\ KeptInv

LEMMA Clocks ==
  ASSUME BoundsInv
  PROVE  /\ quiet \in 0 .. MaxQuiet /\ stall \in 0 .. MaxStall
         /\ idleFor \in 0 .. ClockRange - 1
         /\ state \in States /\ midFrameIdle \in BOOLEAN /\ tainted \in BOOLEAN
         /\ len \in Nat /\ pos \in Nat /\ skip \in Nat
         /\ fifo \in Seq(Bytes) /\ line \in Seq(Bytes) /\ Len(fifo) \in Nat /\ Len(line) \in Nat
BY DEF BoundsInv, TypeOK

\* A byte that arrives is in the RX buffer, or the RX buffer is full.
LEMMA NotEmptied ==
  ASSUME BoundsInv, NEW b \in Bytes, Arrives(b)
  PROVE  fifo' # << >>
<1>1. CASE Len(fifo) < FifoSize
  BY <1>1, Clocks, AppendProperties DEF Arrives
<1>2. CASE ~(Len(fifo) < FifoSize)
  <2>1. Len(fifo) # 0
    BY <1>2, Clocks, Constants
  <2>2. fifo # << >>
    BY <2>1, Clocks, EmptySeq
  <2> QED  BY <1>2, <2>2 DEF Arrives
<1> QED  BY <1>1, <1>2

\* What the calls of the receiver that read have in common.
Reads == ReadLen0 \/ ReadLen1 \/ ReadPayload \/ SkipPayload

LEMMA ReadFacts ==
  ASSUME BoundsInv, Reads
  PROVE  /\ fifo # << >> /\ midFrameIdle' = FALSE
         /\ quiet' = quiet /\ stall' = stall /\ tainted' = tainted /\ line' = line
<1>1. HavingRead /\ fifo # << >>
  BY DEF Reads, ReadLen0, ReadLen1, ReadPayload, SkipPayload, Reading
<1>2. midFrameIdle' = FALSE
  BY DEF Reads, ReadLen0, ReadLen1, ReadPayload, SkipPayload, reset
<1> QED  BY <1>1, <1>2 DEF HavingRead

\* The receiver's clock does not wrap around while it waits for a frame.
LEMMA IdleTicks ==
  ASSUME BoundsInv, SilenceInv, Tick, midFrameIdle
  PROVE  idleFor' = idleFor + 1
<1>1. idleFor + 1 \in 0 .. ClockRange - 1
  <2>1. quiet < MaxQuiet \/ quiet < MaxPause
    BY DEF Tick
  <2>2. stall < MaxStall
    BY DEF Tick
  <2>3. idleFor <= quiet \/ idleFor <= MaxQuiet + stall
    BY DEF SilenceInv
  <2> QED  BY <2>1, <2>2, <2>3, Clocks, Constants
<1>2. (idleFor + 1) % ClockRange = idleFor + 1
  BY <1>1, Constants, SMT
<1> QED  BY <1>2 DEF Tick

LEMMA SilenceInit == Init => SilenceInv
BY DEF Init, SilenceInv

LEMMA SilenceStep ==
  ASSUME BoundsInv, SilenceInv, [Next]_vars
  PROVE  SilenceInv'
<1> USE Clocks, Constants
<1>1. CASE HostWrites \/ UNCHANGED vars
  BY <1>1 DEF HostWrites, vars, receiver, wire, SilenceInv
<1>2. CASE ByteArrives \/ NoiseArrives
  <2>1. /\ quiet' = 0 /\ stall' = stall /\ state' = state /\ midFrameIdle' = midFrameIdle
        /\ idleFor' = idleFor
    BY <1>2 DEF ByteArrives, NoiseArrives, receiver
  <2>2. fifo' # << >>
    <3>1. CASE ByteArrives
      BY <3>1, NotEmptied, HeadTailProperties DEF ByteArrives
    <3>2. CASE NoiseArrives
      <4>1. \A v \in Values : Stray(v) \in Bytes
        BY DEF Stray, Bytes
      <4> QED  BY <3>2, <4>1, NotEmptied DEF NoiseArrives
    <3> QED  BY <1>2, <3>1, <3>2
  <2> QED  BY <2>1, <2>2 DEF SilenceInv
<1>3. CASE Tick
  <2>1. /\ quiet' = quiet + 1 /\ stall' = stall + 1 /\ state' = state
        /\ midFrameIdle' = midFrameIdle /\ fifo' = fifo
    BY <1>3 DEF Tick, receiver
  <2>2. midFrameIdle => idleFor' = idleFor + 1
    BY <1>3, IdleTicks
  <2> QED  BY <2>1, <2>2, SMTT(30) DEF SilenceInv
<1>4. CASE FindsNothing
  <2>1. /\ fifo = << >> /\ fifo' = fifo /\ stall' = 0 /\ quiet' = quiet /\ state' = state
        /\ \/ state # "READ_LEN0" /\ ~midFrameIdle /\ midFrameIdle' = TRUE /\ idleFor' = 0
           \/ /\ state = "READ_LEN0" \/ midFrameIdle
              /\ midFrameIdle' = midFrameIdle /\ idleFor' = idleFor
    BY <1>4 DEF FindsNothing, wire
  <2> QED  BY <2>1 DEF SilenceInv
<1>5. CASE Reads
  <2>1. fifo # << >> /\ midFrameIdle' = FALSE /\ quiet' = quiet /\ stall' = stall
    BY <1>5, ReadFacts
  <2> QED  BY <2>1 DEF SilenceInv
<1> QED  BY <1>1, <1>2, <1>3, <1>4, <1>5 DEF Next, processStep, Reads

-----------------------------------------------------------------------------
(* Whole frames on the way to the receiver. *)

LEMMA Fields ==
  ASSUME NEW s \in Seq(Bytes), NEW i \in 1 .. Len(s)
  PROVE  s[i].at \in Nat /\ s[i].of \in Nat /\ Left(s, i) \in Int
<1>1. s[i] \in Bytes
  BY ElementOfSeq
<1>2. s[i].at \in Nat /\ s[i].of \in Nat
  BY <1>1 DEF Bytes
<1> QED  BY <1>2 DEF Left

\* A frame that the host writes is one.
LEMMA FrameIsWhole ==
  ASSUME NEW f \in Frames, NEW hi \in Values, NEW lo \in Values, NEW fill \in Values
  PROVE  /\ WholeFrames(Frame(f, hi, lo, fill))
         /\ Frame(f, hi, lo, fill) # << >> /\ Frame(f, hi, lo, fill)[1].at = 1
<1> DEFINE n == hi * Base + lo
           s == Frame(f, hi, lo, fill)
<1>1. n \in Nat /\ s \in Seq(Bytes) /\ Len(s) = n + 2
  BY FrameType
<1>2. \A i \in 1 .. n + 2 :
        /\ s[i].frame = f /\ s[i].at = i /\ s[i].of = n
        /\ s[i].value = IF i = 1 THEN hi ELSE IF i = 2 THEN lo ELSE fill
  BY <1>1 DEF Frame
<1>3. LengthOf(s[1], s[2]) = n
  BY <1>1, <1>2 DEF LengthOf
<1> HIDE DEF n, s
<1>4. WholeFrames(s)
  BY <1>1, <1>2, <1>3 DEF WholeFrames, WholeFrom, Left
<1>5. s # << >> /\ s[1].at = 1
  BY <1>1, <1>2, EmptySeq
<1> QED  BY <1>4, <1>5 DEF s

\* The rest of a frame is one in every sequence that goes on in the same way.
LEMMA SameRest ==
  ASSUME NEW s \in Seq(Bytes), NEW i \in 1 .. Len(s), WholeFrom(s, i),
         NEW t \in Seq(Bytes), NEW j \in 1 .. Len(t),
         NEW d \in Nat, i + d = Len(s), j + d <= Len(t),
         \A k \in 0 .. d : t[j + k] = s[i + k],
         j + d < Len(t) => t[j + d + 1].at = 1
  PROVE  WholeFrom(t, j)
<1> DEFINE left == Left(s, i)
<1>1. Len(s) \in Nat /\ Len(t) \in Nat /\ i \in Nat /\ j \in Nat
  BY LenProperties
<1>2. s[i].at \in Nat /\ s[i].of \in Nat /\ left \in Int
  BY Fields
<1>3. s[i].frame \in Frames /\ s[i].at \in 1 .. s[i].of + 2 /\ i + left <= Len(s)
  BY DEF WholeFrom
<1>4. left \in 0 .. d /\ (s[i].at = 1 => left >= 1)
  <2> DEFINE at == s[i].at
             of == s[i].of
             last == Len(s)
  <2>1. left = of + 2 - at
    BY DEF Left
  <2>2. at \in 1 .. of + 2 /\ at \in Nat /\ of \in Nat /\ last \in Nat
    BY <1>1, <1>2, <1>3
  <2>3. i + left <= last /\ i + d = last
    BY <1>3
  <2> HIDE DEF at, of, last, left
  <2>4. left \in 0 .. d /\ (at = 1 => left >= 1)
    BY <1>1, <2>1, <2>2, <2>3
  <2> QED  BY <2>4 DEF at
<1>5. t[j] = s[i]
  <2>1. 0 \in 0 .. d /\ j + 0 = j /\ i + 0 = i
    BY <1>1
  <2> QED  BY <2>1
<1>6. Left(t, j) = left
  BY <1>5 DEF Left
<1>7. \A k \in 0 .. left : s[i + k].frame = s[i].frame /\ s[i + k].of = s[i].of
                           /\ s[i + k].at = s[i].at + k
  BY DEF WholeFrom
<1>8. i + left < Len(s) => s[i + left + 1].at = 1
  BY DEF WholeFrom
<1>9. s[i].at = 1 => LengthOf(s[i], s[i + 1]) = s[i].of
  BY DEF WholeFrom
<1> HIDE DEF left
<1>10. \A k \in 0 .. left : t[j + k] = s[i + k]
  BY <1>4
<1>11. j + left <= Len(t)
  BY <1>1, <1>4
<1>12. ASSUME j + left < Len(t) PROVE t[j + left + 1].at = 1
  <2>1. CASE left = d
    BY <1>12, <2>1
  <2>2. CASE left # d
    <3>1. i + left < Len(s) /\ left + 1 \in 0 .. d
      BY <1>1, <1>4, <2>2
    <3>2. t[j + (left + 1)] = s[i + (left + 1)]
      BY <3>1
    <3>3. j + (left + 1) = j + left + 1 /\ i + (left + 1) = i + left + 1
      BY <1>1, <1>2
    <3> QED  BY <1>8, <3>1, <3>2, <3>3
  <2> QED  BY <2>1, <2>2
<1>13. ASSUME s[i].at = 1 PROVE t[j + 1] = s[i + 1]
  <2>1. 1 \in 0 .. left
    BY <1>4, <1>13
  <2> QED  BY <1>10, <2>1
<1>14. \A k \in 0 .. left : t[j + k].frame = t[j].frame /\ t[j + k].of = t[j].of
                            /\ t[j + k].at = t[j].at + k
  BY <1>5, <1>7, <1>10
<1>15. t[j].at = 1 => LengthOf(t[j], t[j + 1]) = t[j].of
  BY <1>5, <1>9, <1>13
<1>16. t[j].frame \in Frames /\ t[j].at \in 1 .. t[j].of + 2
  BY <1>3, <1>5
<1> QED  BY <1>6, <1>11, <1>12, <1>14, <1>15, <1>16 DEF WholeFrom

LEMMA WholeConcat ==
  ASSUME NEW s \in Seq(Bytes), NEW t \in Seq(Bytes), WholeFrames(s), WholeFrames(t),
         t # << >> => t[1].at = 1
  PROVE  WholeFrames(s \o t)
<1> DEFINE u == s \o t
<1>1. /\ u \in Seq(Bytes) /\ Len(s) \in Nat /\ Len(t) \in Nat /\ Len(u) = Len(s) + Len(t)
      /\ \A i \in 1 .. Len(s) + Len(t) : u[i] = IF i <= Len(s) THEN s[i] ELSE t[i - Len(s)]
  BY ConcatProperties, LenProperties
<1> HIDE DEF u
<1> SUFFICES ASSUME NEW i \in 1 .. Len(u) PROVE WholeFrom(u, i)
  BY DEF WholeFrames, u
<1>2. CASE i <= Len(s)
  <2>1. i \in 1 .. Len(s) /\ WholeFrom(s, i)
    BY <1>1, <1>2 DEF WholeFrames
  <2>2. PICK d \in Nat : i + d = Len(s)
    <3>1. Len(s) - i \in Nat /\ i + (Len(s) - i) = Len(s)
      BY <1>1, <2>1
    <3> QED  BY <3>1
  <2>3. \A k \in 0 .. d : u[i + k] = s[i + k]
    <3> SUFFICES ASSUME NEW k \in 0 .. d PROVE u[i + k] = s[i + k]
      OBVIOUS
    <3>1. i + k \in 1 .. Len(s) + Len(t) /\ i + k <= Len(s)
      BY <1>1, <2>1, <2>2
    <3> QED  BY <1>1, <3>1
  <2>4. i + d < Len(u) => u[i + d + 1].at = 1
    <3> SUFFICES ASSUME i + d < Len(u) PROVE u[i + d + 1].at = 1
      OBVIOUS
    <3>1. /\ Len(s) + 1 \in 1 .. Len(s) + Len(t) /\ ~(Len(s) + 1 <= Len(s))
          /\ Len(s) + 1 - Len(s) = 1 /\ Len(t) # 0
      BY <1>1, <2>2
    <3>2. u[Len(s) + 1] = t[1] /\ t # << >>
      BY <1>1, <3>1, EmptySeq
    <3> QED  BY <2>2, <3>2
  <2>5. i + d <= Len(u)
    BY <1>1, <2>2
  <2> QED  BY <1>1, <2>1, <2>2, <2>3, <2>4, <2>5, SameRest
<1>3. CASE i > Len(s)
  <2>1. PICK j \in 1 .. Len(t) : i = Len(s) + j
    BY <1>1, <1>3
  <2>2. PICK d \in Nat : j + d = Len(t)
    <3>1. Len(t) - j \in Nat /\ j + (Len(t) - j) = Len(t)
      BY <1>1, <2>1
    <3> QED  BY <3>1
  <2>3. \A k \in 0 .. d : u[i + k] = t[j + k]
    <3> SUFFICES ASSUME NEW k \in 0 .. d PROVE u[i + k] = t[j + k]
      OBVIOUS
    <3>1. /\ i + k \in 1 .. Len(s) + Len(t) /\ ~(i + k <= Len(s))
          /\ i + k - Len(s) = j + k
      BY <1>1, <2>1, <2>2
    <3> QED  BY <1>1, <3>1
  <2>4. i + d = Len(u)
    <3>1. Len(u) = Len(s) + Len(t) /\ Len(s) \in Nat /\ Len(t) \in Nat /\ j \in Nat
      BY <1>1
    <3> QED  BY <2>1, <2>2, <3>1
  <2>5. WholeFrom(t, j)
    BY <2>1 DEF WholeFrames
  <2>6. i + d <= Len(u) /\ ~(i + d < Len(u))
    BY <1>1, <2>4
  <2> QED  BY <1>1, <2>1, <2>2, <2>3, <2>5, <2>6, SameRest, ZenonT(60)
<1> QED  BY <1>1, <1>2, <1>3

\* What is left when the first n bytes are read.
LEMMA WholeRest ==
  ASSUME NEW s \in Seq(Bytes), NEW t \in Seq(Bytes), NEW n \in Nat,
         Len(s) = Len(t) + n, \A i \in 1 .. Len(t) : t[i] = s[i + n], WholeFrames(s)
  PROVE  WholeFrames(t)
<1>1. Len(s) \in Nat /\ Len(t) \in Nat
  BY LenProperties
<1> SUFFICES ASSUME NEW j \in 1 .. Len(t) PROVE WholeFrom(t, j)
  BY DEF WholeFrames
<1>2. PICK d \in Nat : j + d = Len(t)
  <2>1. Len(t) - j \in Nat /\ j + (Len(t) - j) = Len(t)
    BY <1>1
  <2> QED  BY <2>1
<1>3. PICK i \in 1 .. Len(s) : i = j + n
  BY <1>1
<1>4. \A k \in 0 .. d : t[j + k] = s[i + k]
  <2> SUFFICES ASSUME NEW k \in 0 .. d PROVE t[j + k] = s[i + k]
    OBVIOUS
  <2>1. j + k \in 1 .. Len(t) /\ j + k + n = i + k
    BY <1>1, <1>2, <1>3
  <2> QED  BY <2>1
<1>5. WholeFrom(s, i) /\ i + d = Len(s) /\ j + d <= Len(t) /\ ~(j + d < Len(t))
  BY <1>1, <1>2, <1>3 DEF WholeFrames
<1> QED  BY <1>2, <1>3, <1>4, <1>5, SameRest

\* The bytes of the frame that the next byte is one of.
LEMMA NextFrame ==
  ASSUME NEW s \in Seq(Bytes), s # << >>, WholeFrames(s)
  PROVE  /\ s[1].at \in Nat /\ s[1].of \in Nat /\ s[1].frame \in Frames
         /\ Len(s) \in Nat /\ s[1].at >= 1 /\ s[1].at <= s[1].of + 2
         /\ s[1].of + 3 - s[1].at <= Len(s)
         /\ \A k \in 0 .. s[1].of + 2 - s[1].at :
              s[1 + k].frame = s[1].frame /\ s[1 + k].of = s[1].of /\ s[1 + k].at = s[1].at + k
         /\ s[1].of + 3 - s[1].at < Len(s) => s[s[1].of + 4 - s[1].at].at = 1
         /\ s[1].at = 1 => LengthOf(s[1], s[2]) = s[1].of
<1>1. Len(s) \in Nat /\ 1 \in 1 .. Len(s)
  BY EmptySeq, LenProperties
<1>2. s[1].at \in Nat /\ s[1].of \in Nat
  BY <1>1, Fields
<1>3. WholeFrom(s, 1)
  BY <1>1 DEF WholeFrames
<1>4. /\ Left(s, 1) = s[1].of + 2 - s[1].at
      /\ 1 + Left(s, 1) = s[1].of + 3 - s[1].at
      /\ 1 + Left(s, 1) + 1 = s[1].of + 4 - s[1].at
  BY <1>2, SMTT(30) DEF Left
<1>5. s[1].at \in 1 .. s[1].of + 2 /\ s[1].frame \in Frames /\ 1 + Left(s, 1) <= Len(s)
  BY <1>3 DEF WholeFrom
<1>6. 1 + Left(s, 1) < Len(s) => s[1 + Left(s, 1) + 1].at = 1
  BY <1>3 DEF WholeFrom
<1>7. s[1].at = 1 => LengthOf(s[1], s[2]) = s[1].of
  BY <1>3 DEF WholeFrom
<1>8. \A k \in 0 .. Left(s, 1) :
        s[1 + k].frame = s[1].frame /\ s[1 + k].of = s[1].of /\ s[1 + k].at = s[1].at + k
  BY <1>3 DEF WholeFrom
<1> QED  BY <1>1, <1>2, <1>4, <1>5, <1>6, <1>7, <1>8

-----------------------------------------------------------------------------
(* The receiver keeps in step with the line. *)

LEMMA ComingType ==
  ASSUME BoundsInv
  PROVE  /\ Coming \in Seq(Bytes) /\ Len(Coming) = Len(fifo) + Len(line)
         /\ \A i \in 1 .. Len(fifo) : Coming[i] = fifo[i]
         /\ (Coming = << >>) <=> (fifo = << >> /\ line = << >>)
<1>1. /\ Coming \in Seq(Bytes) /\ Len(Coming) = Len(fifo) + Len(line)
      /\ \A i \in 1 .. Len(fifo) + Len(line) :
           Coming[i] = IF i <= Len(fifo) THEN fifo[i] ELSE line[i - Len(fifo)]
  BY Clocks, ConcatProperties DEF Coming
<1>2. (Coming = << >>) <=> (fifo = << >> /\ line = << >>)
  BY Clocks, ConcatEqualIffEmpty DEF Coming
<1> QED  BY <1>1, <1>2, Clocks

\* Reading n bytes takes them from what is coming.
LEMMA ComingRead ==
  ASSUME BoundsInv, NEW n \in 1 .. Len(fifo), ReadBytes(n), line' = line
  PROVE  /\ Coming' \in Seq(Bytes) /\ Len(Coming) \in Nat
         /\ Len(Coming) = Len(Coming') + n
         /\ \A i \in 1 .. Len(Coming') : Coming'[i] = Coming[i + n]
         /\ Coming # << >>
<1>1. /\ fifo' \in Seq(Bytes) /\ Len(fifo') = Len(fifo) - n
      /\ \A i \in 1 .. Len(fifo) - n : fifo'[i] = fifo[i + n]
  BY Drained, Clocks DEF BoundsInv
<1>2. Len(fifo') \in Nat /\ Len(fifo) = Len(fifo') + n /\ fifo # << >>
  BY <1>1, Clocks, EmptySeq
<1>3. /\ Coming' \in Seq(Bytes) /\ Len(Coming') = Len(fifo') + Len(line)
      /\ \A i \in 1 .. Len(fifo') + Len(line) :
           Coming'[i] = IF i <= Len(fifo') THEN fifo'[i] ELSE line[i - Len(fifo')]
  BY <1>1, Clocks, ConcatProperties DEF Coming
<1>4. /\ Coming \in Seq(Bytes) /\ Len(Coming) = Len(fifo) + Len(line)
      /\ \A i \in 1 .. Len(fifo) + Len(line) :
           Coming[i] = IF i <= Len(fifo) THEN fifo[i] ELSE line[i - Len(fifo)]
  BY Clocks, ConcatProperties DEF Coming
<1>5. ASSUME NEW i \in 1 .. Len(Coming') PROVE Coming'[i] = Coming[i + n]
  <2>1. i \in 1 .. Len(fifo') + Len(line) /\ i + n \in 1 .. Len(fifo) + Len(line)
    BY <1>2, <1>3, Clocks
  <2>2. CASE i <= Len(fifo')
    BY <1>1, <1>2, <1>3, <1>4, <2>1, <2>2
  <2>3. CASE ~(i <= Len(fifo'))
    <3>1. ~(i + n <= Len(fifo)) /\ i - Len(fifo') = i + n - Len(fifo)
      BY <1>2, <2>1, <2>3
    <3>2. Coming'[i] = line[i - Len(fifo')]
      BY <1>3, <2>1, <2>3
    <3>3. Coming[i + n] = line[i + n - Len(fifo)]
      BY <1>4, <2>1, <3>1
    <3> QED  BY <3>1, <3>2, <3>3
  <2> QED  BY <2>2, <2>3
<1>6. Coming # << >>
  BY <1>2, ComingType
<1>7. Len(Coming) \in Nat /\ Len(Coming) = Len(Coming') + n
  BY <1>2, <1>3, <1>4, Clocks
<1> QED  BY <1>3, <1>5, <1>6, <1>7


-----------------------------------------------------------------------------
(* A call of the receiver that reads, in step with whole frames s. *)

\* What is left of s when n bytes are read.
Rest(s, n) == SubSeq(s, n + 1, Len(s))

LEMMA RestFacts ==
  ASSUME NEW s \in Seq(Bytes), NEW n \in 0 .. Len(s)
  PROVE  /\ Rest(s, n) \in Seq(Bytes) /\ Len(Rest(s, n)) = Len(s) - n
         /\ Len(Rest(s, n)) \in Nat /\ Len(s) \in Nat
         /\ \A i \in 1 .. Len(Rest(s, n)) : Rest(s, n)[i] = s[i + n]
         /\ (Rest(s, n) # << >>) <=> (n < Len(s))
<1>1. Len(s) \in Nat /\ \A i \in n + 1 .. Len(s) : s[i] \in Bytes
  BY ElementOfSeq, LenProperties
<1> DEFINE t == SubSeq(s, n + 1, Len(s))
<1>2. /\ t \in Seq(Bytes)
      /\ Len(t) = IF n + 1 <= Len(s) THEN Len(s) - (n + 1) + 1 ELSE 0
      /\ \A i \in 1 .. Len(s) - (n + 1) + 1 : t[i] = s[(n + 1) + i - 1]
  <2> HIDE DEF t
  <2> QED  BY <1>1, SubSeqProperties DEF t
<1>3. Rest(s, n) = t
  BY DEF Rest
<1> HIDE DEF t
<1>4. Len(t) = Len(s) - n /\ Len(t) \in Nat /\ \A i \in 1 .. Len(t) : t[i] = s[i + n]
  BY <1>1, <1>2
<1>5. (t # << >>) <=> (n < Len(s))
  BY <1>1, <1>2, <1>4, EmptySeq
<1> QED  BY <1>1, <1>2, <1>3, <1>4, <1>5

Following(s) ==
    /\ s # << >> /\ WholeFrames(s) /\ InStep(s)
    /\ \A i \in 1 .. Len(fifo) : i <= Len(s) => s[i] = fifo[i]

\* n bytes of the frame that s begins with are read, and when the last one of a
\* frame that fits the buffer is among them, the handler gets that frame.
Taken(s, n) ==
    /\ n \in 1 .. Len(fifo) /\ n <= Len(s) /\ ReadBytes(n)
    /\ InStep(Rest(s, n))'
    /\ \A i \in 1 .. n : s[i].frame = s[1].frame
    /\ \/ got' = got /\ \A i \in 1 .. n : s[i].at = s[i].of + 2 => s[i].of \notin 1 .. BufSize
       \/ /\ got' = Append(got, s[1].frame)
          /\ s[1].frame \in Frames /\ s[n].at = s[n].of + 2

LEMMA TakesLen0 ==
  ASSUME BoundsInv, NEW s \in Seq(Bytes), Following(s), ReadLen0
  PROVE  Taken(s, 1)
<1>1. s # << >> /\ WholeFrames(s) /\ InStep(s) /\ Len(s) \in Nat /\ Len(s) >= 1
  BY LenProperties, EmptySeq DEF Following
<1>2. AtStart /\ fifo # << >>
  BY DEF ReadLen0, Reading, Stage, AtStart
<1>3. state' = "READ_LEN1" /\ len' = Head(fifo).value * Base /\ ReadBytes(1)
      /\ midFrameIdle' = FALSE /\ got' = got
  BY DEF ReadLen0
<1>4. 1 \in 1 .. Len(fifo) /\ Head(fifo) = s[1]
  <2>1. Head(fifo) = fifo[1] /\ 1 \in 1 .. Len(fifo)
    BY <1>2, FifoHead, Clocks DEF BoundsInv
  <2> QED  BY <1>1, <2>1 DEF Following
<1>5. s[1].at = 1
  BY <1>1, <1>2 DEF InStep
<1>6. /\ s[1].of \in Nat /\ s[1].of + 2 <= Len(s)
      /\ \A k \in 0 .. s[1].of + 1 : s[1 + k].of = s[1].of /\ s[1 + k].at = 1 + k
      /\ LengthOf(s[1], s[2]) = s[1].of
  BY <1>1, <1>5, NextFrame
<1>7. PICK t : t = Rest(s, 1)
  OBVIOUS
<1>8. t # << >> /\ t[1] = s[2]
  <2>1. 1 \in 0 .. Len(s) /\ 1 < Len(s)
    BY <1>1, <1>6
  <2>2. t # << >> /\ Len(t) \in Nat /\ Len(t) = Len(s) - 1 /\ \A i \in 1 .. Len(t) : t[i] = s[i + 1]
    BY <1>7, <2>1, RestFacts
  <2>3. 1 \in 1 .. Len(t)
    BY <1>1, <2>1, <2>2
  <2> QED  BY <2>2, <2>3
<1>9. s[2].at = 2 /\ s[2].of = s[1].of
  <2>1. 1 \in 0 .. s[1].of + 1
    BY <1>6
  <2> QED  BY <1>6, <2>1
<1>10. len' + t[1].value = t[1].of
  BY <1>3, <1>4, <1>6, <1>8, <1>9 DEF LengthOf
<1>11. InStep(t)'
  BY <1>3, <1>8, <1>9, <1>10 DEF InStep, AtStart, GapSeen
<1>12. \A i \in 1 .. 1 : s[i].frame = s[1].frame /\ s[i].at # s[i].of + 2
  BY <1>5, <1>6
<1> QED  BY <1>1, <1>3, <1>4, <1>7, <1>11, <1>12 DEF Taken

LEMMA TakesLen1 ==
  ASSUME BoundsInv, NEW s \in Seq(Bytes), Following(s), ReadLen1
  PROVE  Taken(s, 1)
<1>1. s # << >> /\ WholeFrames(s) /\ InStep(s) /\ Len(s) \in Nat /\ Len(s) >= 1
  BY LenProperties, EmptySeq DEF Following
<1>2. ~AtStart /\ fifo # << >> /\ state = "READ_LEN1" /\ ReadBytes(1) /\ got' = got
  BY DEF ReadLen1, Reading, Stage, AtStart
<1>3. 1 \in 1 .. Len(fifo) /\ Head(fifo) = s[1]
  <2>1. Head(fifo) = fifo[1] /\ 1 \in 1 .. Len(fifo)
    BY <1>2, FifoHead, Clocks DEF BoundsInv
  <2> QED  BY <1>1, <2>1 DEF Following
<1>4. s[1].at = 2 /\ len + s[1].value = s[1].of
  BY <1>1, <1>2 DEF InStep
<1> DEFINE n == s[1].of
<1>5. /\ n \in Nat /\ n + 1 <= Len(s)
      /\ \A k \in 0 .. n : s[1 + k].of = n /\ s[1 + k].at = 2 + k
      /\ n + 1 < Len(s) => s[n + 2].at = 1
  BY <1>1, <1>4, NextFrame
<1>6. PICK t : t = Rest(s, 1)
  OBVIOUS
<1>7. /\ Len(t) \in Nat /\ Len(t) = Len(s) - 1 /\ \A i \in 1 .. Len(t) : t[i] = s[i + 1]
      /\ (t # << >>) <=> (1 < Len(s))
  <2>1. 1 \in 0 .. Len(s)
    BY <1>1
  <2> QED  BY <1>6, <2>1, RestFacts
<1>8. /\ midFrameIdle' = FALSE
      /\ \/ n = 0 /\ state' = "READ_LEN0"
         \/ n > BufSize /\ state' = "SKIP_PAYLOAD" /\ len' = n /\ skip' = n
         \/ n \in 1 .. BufSize /\ state' = "READ_PAYLOAD" /\ len' = n /\ pos' = 0
  BY <1>3, <1>4 DEF ReadLen1, reset
<1>9. n = 0 => state' = "READ_LEN0"
  BY <1>8, Constants
<1>10. InStep(t)'
  <2>1. CASE n = 0 /\ state' = "READ_LEN0"
    <3>1. t # << >> => t[1] = s[2] /\ n + 1 < Len(s)
      BY <1>1, <1>7, <2>1
    <3>2. t # << >> => t[1].at = 1
      BY <1>5, <2>1, <3>1
    <3> QED  BY <2>1, <3>2 DEF InStep, AtStart
  <2>2. CASE n # 0
    <3>1. t # << >> /\ t[1] = s[2]
      BY <1>1, <1>5, <1>7, <2>2
    <3>2. s[2].at = 3 /\ s[2].of = n
      <4>1. 1 \in 0 .. n
        BY <1>5, <2>2
      <4> QED  BY <1>5, <4>1
    <3>3. CASE state' = "SKIP_PAYLOAD" /\ len' = n /\ skip' = n
      <4>1. 3 + n = n + 3
        BY <1>5
      <4> QED  BY <1>8, <3>1, <3>2, <3>3, <4>1 DEF InStep, AtStart, GapSeen
    <3>4. CASE state' = "READ_PAYLOAD" /\ len' = n /\ pos' = 0
      <4>1. \A i \in 0 .. 0 - 1 : FALSE
        OBVIOUS
      <4> QED  BY <1>8, <3>1, <3>2, <3>4, <4>1 DEF InStep, AtStart, GapSeen
    <3> QED  BY <1>8, <2>2, <3>3, <3>4
  <2> QED  BY <1>9, <2>1, <2>2
<1>11. \A i \in 1 .. 1 : s[i].frame = s[1].frame
                         /\ (s[i].at = s[i].of + 2 => s[i].of \notin 1 .. BufSize)
  BY <1>4, <1>5
<1> QED  BY <1>1, <1>2, <1>3, <1>6, <1>10, <1>11 DEF Taken

\* A chunk of the payload joins what the buffer has of the frame.
LEMMA PayloadJoined ==
  ASSUME BoundsInv, NEW s \in Seq(Bytes), Following(s), NEW n \in 1 .. Len(fifo),
         state = "READ_PAYLOAD", ~GapSeen, n <= len - pos,
         buf' = [i \in DOMAIN buf |->
                   IF i \in pos .. pos + n - 1 THEN fifo[i - pos + 1] ELSE buf[i]]
  PROVE  /\ s[1].frame \in Frames /\ s[1].of = len /\ s[1].at = pos + 3
         /\ \A i \in 0 .. pos + n - 1 :
              buf'[i].frame = s[1].frame /\ buf'[i].at = i + 3 /\ buf'[i].of = len
<1>1. WholeFrames(s) /\ InStep(s) /\ s # << >>
  BY DEF Following
<1>2. ~AtStart /\ len \in Nat /\ pos \in Nat /\ Len(fifo) \in Nat
  BY Clocks DEF AtStart
<1>3. /\ s[1].at = pos + 3 /\ s[1].of = len
      /\ \A i \in 0 .. pos - 1 :
           buf[i].frame = s[1].frame /\ buf[i].at = i + 3 /\ buf[i].of = len
  BY <1>1, <1>2 DEF InStep
<1>4. /\ s[1].frame \in Frames /\ len + 3 - (pos + 3) <= Len(s) /\ Len(s) \in Nat
      /\ \A k \in 0 .. len + 2 - (pos + 3) :
           s[1 + k].frame = s[1].frame /\ s[1 + k].of = len /\ s[1 + k].at = pos + 3 + k
  BY <1>1, <1>3, NextFrame
<1>5. pos < len /\ len <= BufSize /\ DOMAIN buf = 0 .. BufSize - 1
  BY DEF BoundsInv, NeverOverrun, TypeOK
<1>6. ASSUME NEW i \in 0 .. pos + n - 1
      PROVE  buf'[i].frame = s[1].frame /\ buf'[i].at = i + 3 /\ buf'[i].of = len
  <2>1. i \in DOMAIN buf
    BY <1>2, <1>5, Constants
  <2>2. CASE i \in 0 .. pos - 1
    <3>1. buf'[i] = buf[i]
      BY <1>2, <2>1, <2>2
    <3> QED  BY <1>3, <2>2, <3>1
  <2>3. CASE ~(i \in 0 .. pos - 1)
    <3>1. PICK k \in 0 .. n - 1 : i = pos + k
      <4>1. i - pos \in 0 .. n - 1 /\ i = pos + (i - pos)
        BY <1>2, <2>3
      <4> QED  BY <4>1
    <3>2. buf'[i] = fifo[k + 1]
      <4>1. i \in pos .. pos + n - 1 /\ i - pos + 1 = k + 1
        BY <1>2, <3>1
      <4> QED  BY <2>1, <4>1
    <3>3. /\ k + 1 \in 1 .. Len(fifo) /\ k \in 0 .. len + 2 - (pos + 3) /\ 1 + k = k + 1
          /\ k + 1 <= Len(s)
      BY <1>2, <1>4, <3>1
    <3>4. fifo[k + 1] = s[1 + k]
      BY <3>3 DEF Following
    <3>5. pos + 3 + k = i + 3
      BY <1>2, <3>1
    <3> QED  BY <1>4, <3>2, <3>3, <3>4, <3>5
  <2> QED  BY <2>2, <2>3
<1> QED  BY <1>3, <1>4, <1>6

LEMMA TakesPayload ==
  ASSUME BoundsInv, NEW s \in Seq(Bytes), Following(s), ReadPayload
  PROVE  \E n \in 1 .. Len(fifo) : Taken(s, n)
<1>1. s # << >> /\ WholeFrames(s) /\ InStep(s) /\ Len(s) \in Nat
  BY LenProperties DEF Following
<1>2. PICK n \in 1 .. Len(fifo) :
           /\ n <= len - pos /\ pos + n <= len /\ pos < len /\ len <= BufSize
           /\ state = "READ_PAYLOAD" /\ ~GapSeen
           /\ ReadBytes(n)
           /\ buf' = [i \in DOMAIN buf |->
                        IF i \in pos .. pos + n - 1 THEN fifo[i - pos + 1] ELSE buf[i]]
           /\ \/ /\ pos + n < len /\ pos' = pos + n /\ midFrameIdle' = FALSE
                 /\ UNCHANGED <<state, len, skip, got>>
              \/ /\ pos + n = len /\ reset /\ got' = Append(got, Content(buf', len))
  BY PayloadChunk
<1>3. /\ s[1].frame \in Frames /\ s[1].of = len /\ s[1].at = pos + 3
      /\ \A i \in 0 .. pos + n - 1 :
           buf'[i].frame = s[1].frame /\ buf'[i].at = i + 3 /\ buf'[i].of = len
  BY <1>2, PayloadJoined
<1>4. /\ len + 3 - (pos + 3) <= Len(s)
      /\ \A k \in 0 .. len + 2 - (pos + 3) :
           /\ s[1 + k].frame = s[1].frame /\ s[1 + k].of = len
           /\ s[1 + k].at = pos + 3 + k
      /\ len + 3 - (pos + 3) < Len(s) => s[len + 4 - (pos + 3)].at = 1
  BY <1>1, <1>3, NextFrame
<1>5. len \in Nat /\ pos \in Nat /\ n \in Nat /\ n >= 1 /\ n <= Len(s) /\ n \in 0 .. Len(s)
  <2>1. len \in Nat /\ pos \in Nat /\ Len(fifo) \in Nat
    BY Clocks
  <2> QED  BY <1>1, <1>2, <1>4, <2>1
<1>6. PICK t : t = Rest(s, n)
  OBVIOUS
<1>7. /\ Len(t) \in Nat /\ Len(t) = Len(s) - n /\ \A i \in 1 .. Len(t) : t[i] = s[i + n]
      /\ (t # << >>) <=> (n < Len(s))
  BY <1>5, <1>6, RestFacts
<1>8. \A i \in 1 .. n : s[i].frame = s[1].frame /\ s[i].of = len /\ s[i].at = pos + 2 + i
  <2> SUFFICES ASSUME NEW i \in 1 .. n
               PROVE  s[i].frame = s[1].frame /\ s[i].of = len /\ s[i].at = pos + 2 + i
    OBVIOUS
  <2>1. PICK k \in 0 .. len + 2 - (pos + 3) : 1 + k = i /\ pos + 3 + k = pos + 2 + i
    <3>1. i - 1 \in 0 .. len + 2 - (pos + 3) /\ 1 + (i - 1) = i /\ pos + 3 + (i - 1) = pos + 2 + i
      BY <1>2, <1>5
    <3> QED  BY <3>1
  <2> QED  BY <1>4, <2>1
<1>9. CASE pos + n < len /\ pos' = pos + n /\ midFrameIdle' = FALSE /\ UNCHANGED <<state, len, skip, got>>
  <2>1. n \in 0 .. len + 2 - (pos + 3) /\ 1 + n = n + 1 /\ pos + 3 + n = pos + n + 3
    BY <1>5, <1>9
  <2>2. t # << >> /\ t[1] = s[1 + n]
    BY <1>4, <1>5, <1>7, <1>9
  <2>3. t[1].frame = s[1].frame /\ t[1].of = len /\ t[1].at = pos' + 3
    BY <1>4, <1>9, <2>1, <2>2
  <2>4. state' = "READ_PAYLOAD" /\ len' = len /\ got' = got
    BY <1>2, <1>9
  <2>5. \A i \in 0 .. pos' - 1 :
          buf'[i].frame = t[1].frame /\ buf'[i].at = i + 3 /\ buf'[i].of = len'
    <3>1. pos' = pos + n
      BY <1>9
    <3>2. \A i \in 0 .. pos' - 1 : i \in 0 .. pos + n - 1
      BY <1>5, <3>1
    <3> QED  BY <1>3, <2>3, <2>4, <3>2
  <2>6. ~AtStart'
    BY <1>9, <2>4 DEF AtStart, GapSeen
  <2>7. InStep(t)'
    BY <2>2, <2>3, <2>4, <2>5, <2>6 DEF InStep
  <2>8. \A i \in 1 .. n : s[i].at # s[i].of + 2
    <3> SUFFICES ASSUME NEW i \in 1 .. n PROVE s[i].at # s[i].of + 2
      OBVIOUS
    <3>1. pos + 2 + i # len + 2
      BY <1>5, <1>9
    <3> QED  BY <1>8, <3>1
  <2> QED  BY <1>2, <1>5, <1>6, <1>8, <2>4, <2>7, <2>8 DEF Taken
<1>10. CASE pos + n = len /\ reset /\ got' = Append(got, Content(buf', len))
  <2>1. AtStart'
    BY <1>10 DEF AtStart, reset
  <2>2. t # << >> => t[1].at = 1
    <3> SUFFICES ASSUME t # << >> PROVE t[1].at = 1
      OBVIOUS
    <3>1. /\ len + 3 - (pos + 3) < Len(s) /\ len + 4 - (pos + 3) = 1 + n
          /\ 1 \in 1 .. Len(t)
      BY <1>1, <1>5, <1>7, <1>10
    <3> QED  BY <1>4, <1>7, <3>1
  <2>3. Content(buf', len) = s[1].frame
    <3>1. \A i \in 0 .. len - 1 :
            buf'[i].frame = s[1].frame /\ buf'[i].at = i + 3 /\ buf'[i].of = len
      <4>1. \A i \in 0 .. len - 1 : i \in 0 .. pos + n - 1
        BY <1>5, <1>10
      <4> QED  BY <1>3, <4>1
    <3>2. 0 \in 0 .. len - 1
      BY <1>2, <1>5
    <3>3. buf'[0].frame = s[1].frame
      BY <3>1, <3>2
    <3> QED  BY <3>1, <3>3 DEF Content
  <2>4. s[n].at = s[n].of + 2
    <3>1. n \in 1 .. n /\ pos + 2 + n = len + 2
      BY <1>5, <1>10
    <3> QED  BY <1>8, <3>1
  <2>5. InStep(t)'
    BY <2>1, <2>2 DEF InStep
  <2>6. got' = Append(got, s[1].frame)
    BY <1>10, <2>3
  <2> QED  BY <1>2, <1>3, <1>5, <1>6, <1>8, <2>4, <2>5, <2>6 DEF Taken
<1> QED  BY <1>2, <1>9, <1>10

LEMMA TakesSkipped ==
  ASSUME BoundsInv, NEW s \in Seq(Bytes), Following(s), SkipPayload
  PROVE  \E n \in 1 .. Len(fifo) : Taken(s, n)
<1>1. s # << >> /\ WholeFrames(s) /\ InStep(s) /\ Len(s) \in Nat
  BY LenProperties DEF Following
<1>2. PICK n \in 1 .. Len(fifo) :
           /\ n <= skip /\ skip \in 1 .. len /\ len > BufSize
           /\ state = "SKIP_PAYLOAD" /\ ~GapSeen
           /\ ReadBytes(n)
           /\ \/ skip = n /\ reset
              \/ /\ skip > n /\ skip' = skip - n /\ midFrameIdle' = FALSE
                 /\ UNCHANGED <<state, len, pos>>
  BY SkipChunk
<1>3. s[1].of = len /\ s[1].at + skip = len + 3
  BY <1>1, <1>2 DEF InStep, AtStart
<1>4. len \in Nat /\ skip \in Nat /\ n \in Nat /\ n >= 1
  BY <1>2, Clocks
<1>5. s[1].at \in Nat /\ s[1].at = len + 3 - skip
  BY <1>1, <1>3, <1>4, NextFrame, SMTT(30)
<1>6. /\ skip <= Len(s)
      /\ \A k \in 0 .. skip - 1 :
           s[1 + k].frame = s[1].frame /\ s[1 + k].of = len /\ s[1 + k].at = s[1].at + k
      /\ skip < Len(s) => s[skip + 1].at = 1
  <2>1. /\ s[1].of + 3 - s[1].at = skip /\ s[1].of + 2 - s[1].at = skip - 1
        /\ s[1].of + 4 - s[1].at = skip + 1
    BY <1>3, <1>4, <1>5
  <2> QED  BY <1>1, <1>3, <2>1, NextFrame
<1>7. PICK t : t = Rest(s, n)
  OBVIOUS
<1>8. /\ Len(t) \in Nat /\ Len(t) = Len(s) - n /\ \A i \in 1 .. Len(t) : t[i] = s[i + n]
      /\ (t # << >>) <=> (n < Len(s)) /\ n <= Len(s)
  <2>1. n \in 0 .. Len(s)
    BY <1>1, <1>2, <1>4, <1>6
  <2> QED  BY <1>1, <1>7, <2>1, RestFacts
<1>9. \A i \in 1 .. n : s[i].frame = s[1].frame /\ s[i].of = len
  <2> SUFFICES ASSUME NEW i \in 1 .. n PROVE s[i].frame = s[1].frame /\ s[i].of = len
    OBVIOUS
  <2>1. i - 1 \in 0 .. skip - 1 /\ 1 + (i - 1) = i
    BY <1>2, <1>4
  <2> QED  BY <1>6, <2>1
<1>10. InStep(t)'
  <2>1. CASE skip = n /\ reset
    <3>1. AtStart'
      BY <2>1 DEF AtStart, reset
    <3>2. t # << >> => t[1].at = 1
      <4> SUFFICES ASSUME t # << >> PROVE t[1].at = 1
        OBVIOUS
      <4>1. skip < Len(s) /\ skip + 1 = 1 + n /\ 1 \in 1 .. Len(t)
        BY <1>1, <1>4, <1>8, <2>1
      <4> QED  BY <1>6, <1>8, <4>1
    <3> QED  BY <3>1, <3>2 DEF InStep
  <2>2. CASE skip > n /\ skip' = skip - n /\ midFrameIdle' = FALSE /\ UNCHANGED <<state, len, pos>>
    <3>1. n \in 0 .. skip - 1 /\ 1 \in 1 .. Len(t) /\ t # << >>
      BY <1>1, <1>4, <1>6, <1>8, <2>2
    <3>2. t[1] = s[1 + n]
      BY <1>8, <3>1
    <3>3. t[1].of = len /\ t[1].at = s[1].at + n
      BY <1>6, <3>1, <3>2
    <3>4. t[1].at + skip' = len + 3
      BY <1>4, <1>5, <2>2, <3>3
    <3>5. state' = "SKIP_PAYLOAD" /\ len' = len
      BY <1>2, <2>2
    <3>6. ~AtStart'
      BY <2>2, <3>5 DEF AtStart, GapSeen
    <3> QED  BY <3>1, <3>3, <3>4, <3>5, <3>6 DEF InStep
  <2> QED  BY <1>2, <2>1, <2>2
<1>11. \A i \in 1 .. n : s[i].of \notin 1 .. BufSize
  BY <1>2, <1>4, <1>9, Constants
<1>12. got' = got
  BY DEF SkipPayload
<1> QED  BY <1>2, <1>7, <1>8, <1>9, <1>10, <1>11, <1>12 DEF Taken

LEMMA Takes ==
  ASSUME BoundsInv, NEW s \in Seq(Bytes), Following(s), Reads
  PROVE  \E n \in 1 .. Len(fifo) : Taken(s, n)
<1>1. ReadLen0 => Taken(s, 1)
  BY TakesLen0
<1>2. ReadLen1 => Taken(s, 1)
  BY TakesLen1
<1>3. Taken(s, 1) => 1 \in 1 .. Len(fifo)
  BY DEF Taken
<1> QED  BY <1>1, <1>2, <1>3, TakesPayload, TakesSkipped DEF Reads

-----------------------------------------------------------------------------
(* What is owed stays ahead of the receiver while it reads. *)

\* Nothing but the receiver and the RX buffer changes, and n bytes leave it.
Drains(n) ==
    /\ n \in 1 .. Len(fifo) /\ ReadBytes(n)
    /\ UNCHANGED <<line, quiet, sent, noise, tainted, owed>>

LEMMA DrainFacts ==
  ASSUME BoundsInv, NEW n \in 1 .. Len(fifo), Drains(n)
  PROVE  /\ Len(fifo) \in Nat /\ Len(fifo') = Len(fifo) - n /\ Len(fifo') \in Nat
         /\ fifo' \in Seq(Bytes)
         /\ \A i \in 1 .. Len(fifo') : i + n \in 1 .. Len(fifo) /\ fifo'[i] = fifo[i + n]
<1>1. Len(fifo) \in Nat /\ n \in 0 .. Len(fifo)
  BY Clocks
<1>2. /\ fifo' \in Seq(Bytes) /\ Len(fifo') = Len(fifo) - n
      /\ \A i \in 1 .. Len(fifo) - n : fifo'[i] = fifo[i + n]
  BY <1>1, Drained DEF BoundsInv, Drains
<1> QED  BY <1>1, <1>2

\* What a call that reads does to the RX buffer, and to the handler: it gets
\* nothing, debris, or the number that a byte of the RX buffer had.
LEMMA ReadDrains ==
  ASSUME BoundsInv, Reads
  PROVE  \E n \in 1 .. Len(fifo) :
           /\ Drains(n)
           /\ \/ got' = got
              \/ \E c \in 0 .. MaxFrames :
                   /\ got' = Append(got, c)
                   /\ c = 0 \/ \E i \in 1 .. Len(fifo) : fifo[i].frame = c
<1>1. fifo # << >> /\ UNCHANGED <<line, quiet, sent, noise, tainted, owed>>
  BY DEF Reads, ReadLen0, ReadLen1, ReadPayload, SkipPayload, Reading, HavingRead
<1>2. 1 \in 1 .. Len(fifo)
  BY <1>1, Clocks, EmptySeq
<1>3. CASE ReadLen0 \/ ReadLen1
  BY <1>1, <1>2, <1>3 DEF ReadLen0, ReadLen1, Drains
<1>4. CASE SkipPayload
  <2>1. PICK n \in 1 .. Len(fifo) : ReadBytes(n)
    BY <1>4, SkipChunk
  <2>2. got' = got
    BY <1>4 DEF SkipPayload
  <2> QED  BY <1>1, <2>1, <2>2 DEF Drains
<1>5. CASE ReadPayload
  <2>1. PICK n \in 1 .. Len(fifo) :
           /\ n <= len - pos /\ pos + n <= len /\ pos < len /\ len <= BufSize
           /\ state = "READ_PAYLOAD" /\ ~GapSeen
           /\ ReadBytes(n)
           /\ buf' = [i \in DOMAIN buf |->
                        IF i \in pos .. pos + n - 1 THEN fifo[i - pos + 1] ELSE buf[i]]
           /\ \/ /\ pos + n < len /\ pos' = pos + n /\ midFrameIdle' = FALSE
                 /\ UNCHANGED <<state, len, skip, got>>
              \/ /\ pos + n = len /\ reset /\ got' = Append(got, Content(buf', len))
    BY <1>5, PayloadChunk
  <2>2. len \in Nat /\ pos \in Nat /\ Len(fifo) \in Nat /\ DOMAIN buf = 0 .. BufSize - 1
    BY Clocks DEF BoundsInv, TypeOK
  <2>3. CASE pos + n < len
    <3>1. got' = got
      BY <2>1, <2>2, <2>3
    <3> QED  BY <1>1, <2>1, <3>1 DEF Drains
  <2>4. CASE pos + n = len
    <3>1. got' = Append(got, Content(buf', len))
      BY <2>1, <2>2, <2>4
    <3>2. Content(buf', len) \in 0 .. MaxFrames
      <4>1. buf' \in [0 .. BufSize - 1 -> Bytes]
        BY <2>1, <2>2, ChunkRead DEF BoundsInv
      <4> QED  BY <2>2, <4>1, ContentType
    <3>3. buf'[len - 1] = fifo[n]
      <4>1. /\ len - 1 \in DOMAIN buf /\ len - 1 \in pos .. pos + n - 1
            /\ len - 1 - pos + 1 = n
        BY <2>1, <2>2, <2>4, Constants
      <4>2. buf'[len - 1] = fifo[len - 1 - pos + 1]
        BY <2>1, <4>1
      <4> QED  BY <4>1, <4>2
    <3>4. Content(buf', len) = 0 \/ Content(buf', len) = fifo[n].frame
      <4>1. len - 1 \in 0 .. len - 1
        BY <2>1, <2>2
      <4> QED  BY <3>3, <4>1 DEF Content
    <3> QED  BY <1>1, <2>1, <3>1, <3>2, <3>4 DEF Drains
  <2> QED  BY <2>1, <2>2, <2>3, <2>4
<1> QED  BY <1>3, <1>4, <1>5 DEF Reads

LEMMA LineDrains ==
  ASSUME BoundsInv, LineInv, NEW n \in 1 .. Len(fifo), Drains(n)
  PROVE  LineInv'
<1>1. /\ Len(fifo) \in Nat /\ Len(fifo') = Len(fifo) - n /\ Len(fifo') \in Nat
      /\ \A i \in 1 .. Len(fifo') : i + n \in 1 .. Len(fifo) /\ fifo'[i] = fifo[i + n]
  BY DrainFacts
<1>2. UNCHANGED <<line, sent, tainted, owed>>
  BY DEF Drains
<1>3. \A i \in 1 .. Len(fifo') : fifo'[i].frame <= sent
  BY <1>1 DEF LineInv
<1>4. \A i, j \in 1 .. Len(fifo') : i < j => Before(fifo'[i], fifo'[j])
  <2> SUFFICES ASSUME NEW i \in 1 .. Len(fifo'), NEW j \in 1 .. Len(fifo'), i < j
               PROVE  Before(fifo'[i], fifo'[j])
    OBVIOUS
  <2>1. i + n < j + n
    BY <1>1
  <2> QED  BY <1>1, <2>1 DEF LineInv
<1>5. \A i \in 1 .. Len(fifo'), j \in 1 .. Len(line) : Before(fifo'[i], line[j])
  BY <1>1 DEF LineInv
<1>6. ASSUME ~tainted, line # << >>, NEW i \in 1 .. Len(fifo')
      PROVE  (fifo'[i].frame = sent) <=> (i > Len(fifo') - (line[1].at - 1))
  <2>1. line[1].at \in Nat
    <3>1. 1 \in 1 .. Len(line)
      BY <1>6, Clocks, EmptySeq
    <3> QED  BY <3>1, Clocks, Fields
  <2>2. (fifo[i + n].frame = sent) <=> (i + n > Len(fifo) - (line[1].at - 1))
    BY <1>1, <1>6 DEF LineInv
  <2>3. (i + n > Len(fifo) - (line[1].at - 1)) <=> (i > Len(fifo') - (line[1].at - 1))
    BY <1>1, <2>1
  <2> QED  BY <1>1, <2>2, <2>3
<1>7. /\ owed \subseteq 1 .. sent /\ (tainted /\ line # << >> => sent \notin owed)
      /\ (line # << >> => line[1].at >= 1)
      /\ \A j \in 1 .. Len(line) : line[j].frame = sent /\ line[j].at = line[1].at + j - 1
      /\ \A i, j \in 1 .. Len(line) : i < j => Before(line[i], line[j])
  BY DEF LineInv
<1> QED  BY <1>2, <1>3, <1>4, <1>5, <1>6, <1>7 DEF LineInv

\* The handler gets nothing that is owed.
LEMMA GotDrains ==
  ASSUME BoundsInv, GotInv, LineInv, NEW n \in 1 .. Len(fifo), Drains(n),
         \/ got' = got
         \/ \E c \in 0 .. MaxFrames : got' = Append(got, c) /\ c <= sent /\ c \notin owed
  PROVE  GotInv'
<1>1. /\ Len(fifo) \in Nat /\ Len(fifo') = Len(fifo) - n /\ Len(fifo') \in Nat
      /\ \A i \in 1 .. Len(fifo') : i + n \in 1 .. Len(fifo) /\ fifo'[i] = fifo[i + n]
  BY DrainFacts
<1>2. UNCHANGED <<line, sent, tainted, owed>>
  BY DEF Drains
<1>3. \A k \in DOMAIN got : got[k] \in owed =>
        /\ \A i \in 1 .. Len(fifo') : fifo'[i].frame = 0 \/ got[k] < fifo'[i].frame
        /\ line # << >> => got[k] < sent
  BY <1>1 DEF GotInv
<1>4. CASE got' = got
  BY <1>2, <1>3, <1>4 DEF GotInv
<1>5. CASE got' # got
  <2>1. PICK c \in 0 .. MaxFrames : got' = Append(got, c) /\ c <= sent /\ c \notin owed
    BY <1>5
  <2>2. got \in Seq(0 .. MaxFrames)
    BY DEF BoundsInv, TypeOK
  <2>3. /\ DOMAIN got' = 1 .. Len(got) + 1 /\ Len(got) \in Nat /\ DOMAIN got = 1 .. Len(got)
        /\ \A k \in 1 .. Len(got) : got'[k] = got[k]
        /\ got'[Len(got) + 1] = c
    BY <2>1, <2>2, AppendProperties, LenProperties
  <2>4. \A k \in DOMAIN got' : (k \in DOMAIN got /\ got'[k] = got[k]) \/ got'[k] = c
    BY <2>3
  <2>5. \A k \in DOMAIN got' : got'[k] <= sent
    BY <2>1, <2>4 DEF GotInv
  <2>6. \A k \in DOMAIN got' : got'[k] \in owed => k \in DOMAIN got /\ got'[k] = got[k]
    BY <2>1, <2>4
  <2>7. \A i, j \in DOMAIN got' : i < j /\ {got'[i], got'[j]} \subseteq owed => got'[i] < got'[j]
    BY <2>6 DEF GotInv
  <2> QED  BY <1>2, <1>3, <2>5, <2>6, <2>7 DEF GotInv
<1> QED  BY <1>4, <1>5

\* The handler gets the frame that has its last byte read.
LEMMA GotLast ==
  ASSUME BoundsInv, GotInv, LineInv, NEW n \in 1 .. Len(fifo), Drains(n),
         NEW f \in Frames, got' = Append(got, f), fifo[n].frame = f, fifo[n].at = fifo[n].of + 2
  PROVE  GotInv'
<1>1. /\ Len(fifo) \in Nat /\ Len(fifo') = Len(fifo) - n /\ Len(fifo') \in Nat
      /\ \A i \in 1 .. Len(fifo') : i + n \in 1 .. Len(fifo) /\ fifo'[i] = fifo[i + n]
  BY DrainFacts
<1>2. UNCHANGED <<line, sent, tainted, owed>>
  BY DEF Drains
<1>3. got \in Seq(0 .. MaxFrames) /\ f \in 0 .. MaxFrames /\ f # 0 /\ f \in Nat
  BY Constants DEF BoundsInv, TypeOK, Frames
<1>4. /\ DOMAIN got' = 1 .. Len(got) + 1 /\ Len(got) \in Nat /\ DOMAIN got = 1 .. Len(got)
      /\ \A k \in 1 .. Len(got) : got'[k] = got[k]
      /\ got'[Len(got) + 1] = f
  BY <1>3, AppendProperties, LenProperties
<1>5. \A k \in DOMAIN got' : (k \in DOMAIN got /\ got'[k] = got[k]) \/ got'[k] = f
  BY <1>4
<1>6. fifo[n].at \in Nat /\ fifo[n].of \in Nat
  BY Clocks, Fields
<1>7. ASSUME NEW i \in 1 .. Len(fifo') PROVE fifo'[i].frame = 0 \/ f < fifo'[i].frame
  <2>1. n < i + n /\ i + n \in 1 .. Len(fifo) /\ fifo'[i] = fifo[i + n]
    BY <1>1
  <2>2. Before(fifo[n], fifo[i + n])
    BY <2>1 DEF LineInv
  <2>3. fifo[i + n].at \in Nat
    BY <2>1, Clocks, Fields
  <2> QED  BY <1>3, <1>6, <2>1, <2>2, <2>3 DEF Before
<1>8. ASSUME line # << >> PROVE f < sent
  <2>1. 1 \in 1 .. Len(line)
    BY <1>8, Clocks, EmptySeq
  <2>2. Before(fifo[n], line[1]) /\ line[1].frame = sent
    BY <2>1 DEF LineInv
  <2>3. line[1].at \in Nat /\ sent \in Nat
    BY <2>1, Clocks, Fields DEF BoundsInv, TypeOK
  <2>4. fifo[n].frame <= sent
    BY DEF LineInv
  <2> QED  BY <1>3, <1>6, <2>2, <2>3, <2>4 DEF Before
<1>9. f <= sent
  BY DEF LineInv
<1>10. \A k \in DOMAIN got' : got'[k] <= sent
  BY <1>5, <1>9 DEF GotInv
<1>11. \A k \in DOMAIN got' : got'[k] \in owed =>
         /\ \A i \in 1 .. Len(fifo') : fifo'[i].frame = 0 \/ got'[k] < fifo'[i].frame
         /\ line # << >> => got'[k] < sent
  <2> SUFFICES ASSUME NEW k \in DOMAIN got', got'[k] \in owed
               PROVE  /\ \A i \in 1 .. Len(fifo') : fifo'[i].frame = 0 \/ got'[k] < fifo'[i].frame
                      /\ line # << >> => got'[k] < sent
    OBVIOUS
  <2>1. CASE k \in DOMAIN got /\ got'[k] = got[k]
    BY <1>1, <2>1 DEF GotInv
  <2>2. CASE got'[k] = f
    BY <1>7, <1>8, <2>2
  <2> QED  BY <1>5, <2>1, <2>2
<1>12. \A i, j \in DOMAIN got' : i < j /\ {got'[i], got'[j]} \subseteq owed => got'[i] < got'[j]
  <2> SUFFICES ASSUME NEW i \in DOMAIN got', NEW j \in DOMAIN got', i < j,
                      got'[i] \in owed, got'[j] \in owed
               PROVE  got'[i] < got'[j]
    OBVIOUS
  <2>1. i \in DOMAIN got /\ got'[i] = got[i]
    BY <1>4, <1>5
  <2>2. CASE j \in DOMAIN got /\ got'[j] = got[j]
    BY <2>1, <2>2 DEF GotInv
  <2>3. CASE got'[j] = f
    BY <1>3, <2>1, <2>3 DEF GotInv
  <2> QED  BY <1>5, <2>2, <2>3
<1> QED  BY <1>2, <1>10, <1>11, <1>12 DEF GotInv

\* What is ahead of the receiver, when it has read n bytes of it.
LEMMA AheadDrains ==
  ASSUME BoundsInv, NEW s \in Seq(Bytes), Ahead(s), NEW n \in 1 .. Len(fifo), n <= Len(s), Drains(n)
  PROVE  Ahead(Rest(s, n))'
<1>1. PICK t : t = Rest(s, n)
  OBVIOUS
<1>2. n \in 0 .. Len(s)
  BY LenProperties
<1>3. /\ t \in Seq(Bytes) /\ Len(t) \in Nat /\ Len(t) = Len(s) - n /\ Len(s) \in Nat
      /\ \A i \in 1 .. Len(t) : t[i] = s[i + n]
  BY <1>1, <1>2, RestFacts
<1>4. ReadBytes(n) /\ line' = line /\ tainted' = tainted
  BY DEF Drains
<1>5. CASE tainted
  <2>1. /\ Len(fifo) \in Nat /\ Len(fifo') = Len(fifo) - n /\ Len(fifo') \in Nat
        /\ \A i \in 1 .. Len(fifo') : i + n \in 1 .. Len(fifo) /\ fifo'[i] = fifo[i + n]
    BY DrainFacts
  <2>2. Len(s) <= Len(fifo) /\ \A i \in 1 .. Len(s) : s[i] = fifo[i]
    BY <1>5 DEF Ahead
  <2>3. Len(t) <= Len(fifo')
    BY <1>3, <2>1, <2>2
  <2>4. ASSUME NEW i \in 1 .. Len(t) PROVE t[i] = fifo'[i]
    <3>1. i \in 1 .. Len(fifo') /\ i + n \in 1 .. Len(s)
      BY <1>3, <2>1, <2>3
    <3> QED  BY <1>3, <2>1, <2>2, <3>1
  <2> QED  BY <1>1, <1>4, <1>5, <2>3, <2>4 DEF Ahead
<1>6. CASE ~tainted
  <2>1. s = Coming
    BY <1>6 DEF Ahead
  <2>2. /\ Coming' \in Seq(Bytes) /\ Len(Coming) = Len(Coming') + n
        /\ \A i \in 1 .. Len(Coming') : Coming'[i] = Coming[i + n]
    BY <1>4, ComingRead
  <2>3. PICK u \in Seq(Bytes) : u = Coming'
    BY <2>2
  <2>4. Len(u) \in Nat /\ Len(s) = Len(u) + n /\ \A i \in 1 .. Len(u) : u[i] = s[i + n]
    BY <2>1, <2>2, <2>3, LenProperties
  <2>5. Len(t) = Len(u)
    BY <1>3, <2>4
  <2>6. t = u
    BY <1>3, <2>4, <2>5, SeqEqual
  <2> QED  BY <1>1, <1>4, <1>6, <2>3, <2>6 DEF Ahead
<1> QED  BY <1>5, <1>6

LEMMA KeptPrefix ==
  ASSUME BoundsInv, NEW s \in Seq(Bytes), Ahead(s)
  PROVE  \A i \in 1 .. Len(fifo) : i <= Len(s) => s[i] = fifo[i]
<1>1. Len(s) \in Nat /\ Len(fifo) \in Nat
  BY Clocks, LenProperties
<1>2. CASE tainted
  BY <1>1, <1>2 DEF Ahead
<1>3. CASE ~tainted
  BY <1>1, <1>3, ComingType DEF Ahead
<1> QED  BY <1>2, <1>3

\* A call that reads what is owed, or what comes before it.
LEMMA OwedTaken ==
  ASSUME BoundsInv, LineInv, GotInv, NEW s \in Seq(Bytes), Kept(s), s # << >>, Reads
  PROVE  (LineInv /\ GotInv /\ KeptInv)'
<1>1. Following(s) /\ Len(s) \in Nat
  BY KeptPrefix, LenProperties DEF Following, Kept
<1>2. PICK n \in 1 .. Len(fifo) : Taken(s, n)
  BY <1>1, Takes
<1>3. /\ n <= Len(s) /\ n \in Nat /\ n \in 1 .. n /\ n \in 0 .. Len(s) /\ s[n] = fifo[n]
  BY <1>1, <1>2, Clocks DEF Taken, Following
<1>4. Drains(n)
  <2>1. UNCHANGED <<line, quiet, sent, noise, tainted, owed>>
    BY DEF Reads, ReadLen0, ReadLen1, ReadPayload, SkipPayload, HavingRead
  <2> QED  BY <1>2, <2>1 DEF Taken, Drains
<1>5. LineInv'
  BY <1>4, LineDrains
<1>6. \/ got' = got /\ \A i \in 1 .. n : s[i].at = s[i].of + 2 => s[i].of \notin 1 .. BufSize
      \/ /\ got' = Append(got, s[1].frame)
         /\ s[1].frame \in Frames /\ s[n].at = s[n].of + 2
  BY <1>2 DEF Taken
<1>7. \A i \in 1 .. n : s[i].frame = s[1].frame
  BY <1>2 DEF Taken
<1>8. GotInv'
  <2>1. CASE got' = got
    BY <1>4, <2>1, GotDrains
  <2>2. CASE /\ got' = Append(got, s[1].frame)
             /\ s[1].frame \in Frames /\ s[n].at = s[n].of + 2
    <3>1. s[n].frame = s[1].frame
      BY <1>3, <1>7
    <3> QED  BY <1>3, <1>4, <2>2, <3>1, GotLast
  <2> QED  BY <1>6, <2>1, <2>2
<1>9. PICK t : t = Rest(s, n)
  OBVIOUS
<1>10. /\ t \in Seq(Bytes) /\ Len(t) = Len(s) - n /\ Len(t) \in Nat
       /\ \A i \in 1 .. Len(t) : t[i] = s[i + n]
  BY <1>3, <1>9, RestFacts
<1>11. Kept(t)'
  <2>1. Ahead(t)'
    BY <1>3, <1>4, <1>9, AheadDrains DEF Kept
  <2>2. WholeFrames(t)
    <3>1. Len(s) = Len(t) + n
      BY <1>1, <1>3, <1>10
    <3> QED  BY <1>3, <1>10, <3>1, WholeRest DEF Kept
  <2>3. InStep(t)'
    BY <1>2, <1>9 DEF Taken
  <2>4. PauseInv'
    BY ReadFacts DEF PauseInv
  <2>5. owed' = owed
    BY <1>4 DEF Drains
  <2>6. \A i \in Len(t) + 1 .. Len(fifo') : fifo'[i].frame \notin owed
    <3> SUFFICES ASSUME NEW i \in Len(t) + 1 .. Len(fifo') PROVE fifo'[i].frame \notin owed
      OBVIOUS
    <3>1. Len(fifo') = Len(fifo) - n /\ Len(fifo) \in Nat
      BY <1>4, DrainFacts
    <3>2. i \in 1 .. Len(fifo') /\ i + n \in Len(s) + 1 .. Len(fifo)
      BY <1>1, <1>3, <1>10, <3>1
    <3>3. fifo'[i] = fifo[i + n]
      BY <1>4, <3>2, DrainFacts
    <3> QED  BY <3>2, <3>3 DEF Kept
  <2>7. ASSUME NEW f \in owed
        PROVE  \/ \E k \in DOMAIN got' : got'[k] = f
               \/ \E i \in 1 .. Len(t) : EndOf(t[i], f)
    <3>1. ASSUME NEW c \in 0 .. MaxFrames, got' = Append(got, c)
          PROVE  /\ \A k \in DOMAIN got : k \in DOMAIN got' /\ got'[k] = got[k]
                 /\ \E k \in DOMAIN got' : got'[k] = c
      <4>1. got \in Seq(0 .. MaxFrames)
        BY DEF BoundsInv, TypeOK
      <4>2. /\ DOMAIN got' = 1 .. Len(got) + 1 /\ Len(got) \in Nat /\ DOMAIN got = 1 .. Len(got)
            /\ \A k \in 1 .. Len(got) : got'[k] = got[k]
            /\ got'[Len(got) + 1] = c
        BY <3>1, <4>1, AppendProperties, LenProperties
      <4>3. Len(got) + 1 \in DOMAIN got'
        BY <4>2
      <4> QED  BY <4>2, <4>3
    <3>2. \A g \in Frames : g \in 0 .. MaxFrames
      BY Constants DEF Frames
    <3>3. CASE \E k \in DOMAIN got : got[k] = f
      BY <1>6, <3>1, <3>2, <3>3
    <3>4. CASE \E i \in 1 .. Len(s) : EndOf(s[i], f)
      <4>1. PICK i \in 1 .. Len(s) : EndOf(s[i], f)
        BY <3>4
      <4>2. CASE i \in 1 .. n
        <5>1. s[1].frame = f
          BY <1>7, <4>1, <4>2 DEF EndOf
        <5>2. got' = Append(got, s[1].frame) /\ s[1].frame \in Frames
          BY <1>6, <4>1, <4>2 DEF EndOf
        <5> QED  BY <3>1, <3>2, <5>1, <5>2
      <4>3. CASE ~(i \in 1 .. n)
        <5>1. i - n \in 1 .. Len(t) /\ (i - n) + n = i
          BY <1>1, <1>3, <1>10, <4>3
        <5>2. EndOf(t[i - n], f)
          BY <1>10, <4>1, <5>1
        <5> QED  BY <5>1, <5>2
      <4> QED  BY <4>2, <4>3
    <3> QED  BY <3>3, <3>4 DEF Kept
  <2> QED  BY <2>1, <2>2, <2>3, <2>4, <2>5, <2>6, <2>7 DEF Kept
<1> QED  BY <1>5, <1>8, <1>10, <1>11 DEF KeptInv

\* A call that reads when nothing that is owed is on its way.
LEMMA DebrisTaken ==
  ASSUME BoundsInv, LineInv, GotInv, Kept(<< >>), Reads
  PROVE  (LineInv /\ GotInv /\ KeptInv)'
<1>1. PICK n \in 1 .. Len(fifo) :
        /\ Drains(n)
        /\ \/ got' = got
           \/ \E c \in 0 .. MaxFrames :
                /\ got' = Append(got, c)
                /\ c = 0 \/ \E i \in 1 .. Len(fifo) : fifo[i].frame = c
  BY ReadDrains
<1>2. << >> \in Seq(Bytes) /\ Len(<< >>) = 0
  BY EmptySeq
<1>3. \A i \in 1 .. Len(fifo) : fifo[i].frame \notin owed /\ fifo[i].frame <= sent
  BY <1>2 DEF Kept, LineInv
<1>4. 0 \notin owed /\ 0 <= sent
  BY DEF LineInv, BoundsInv, TypeOK
<1>5. \/ got' = got
      \/ \E c \in 0 .. MaxFrames : got' = Append(got, c) /\ c <= sent /\ c \notin owed
  BY <1>1, <1>3, <1>4
<1>6. LineInv' /\ GotInv'
  BY <1>1, <1>5, LineDrains, GotDrains
<1>7. tainted
  <2>1. fifo # << >>
    BY ReadFacts
  <2> QED  BY <2>1, ComingType DEF Kept, Ahead
<1>8. tainted' = tainted /\ owed' = owed
  BY <1>1 DEF Drains
<1>9. \A i \in 1 .. Len(fifo') : fifo'[i].frame \notin owed
  BY <1>1, <1>3, DrainFacts
<1>10. \A f \in owed : \E k \in DOMAIN got' : got'[k] = f
  <2>1. \A f \in owed : \E k \in DOMAIN got : got[k] = f
    BY <1>2 DEF Kept
  <2>2. \A k \in DOMAIN got : k \in DOMAIN got' /\ got'[k] = got[k]
    <3>1. CASE got' = got
      BY <3>1
    <3>2. CASE \E c \in 0 .. MaxFrames : got' = Append(got, c)
      <4>1. PICK c \in 0 .. MaxFrames : got' = Append(got, c)
        BY <3>2
      <4>2. got \in Seq(0 .. MaxFrames)
        BY DEF BoundsInv, TypeOK
      <4>3. /\ DOMAIN got' = 1 .. Len(got) + 1 /\ Len(got) \in Nat /\ DOMAIN got = 1 .. Len(got)
            /\ \A k \in 1 .. Len(got) : got'[k] = got[k]
        BY <4>1, <4>2, AppendProperties, LenProperties
      <4> QED  BY <4>3
    <3> QED  BY <1>5, <3>1, <3>2
  <2> QED  BY <2>1, <2>2
<1>11. Kept(<< >>)'
  <2>1. Len(fifo') \in Nat
    BY <1>1, DrainFacts
  <2>2. Ahead(<< >>)'
    BY <1>2, <1>7, <1>8, <2>1 DEF Ahead
  <2>3. WholeFrames(<< >>)
    BY <1>2 DEF WholeFrames
  <2> QED  BY <1>2, <1>7, <1>8, <1>9, <1>10, <2>2, <2>3 DEF Kept
<1> QED  BY <1>2, <1>6, <1>11 DEF KeptInv

LEMMA OwedReads ==
  ASSUME BoundsInv, LineInv, GotInv, KeptInv, Reads
  PROVE  (LineInv /\ GotInv /\ KeptInv)'
<1>1. PICK s \in Seq(Bytes) : Kept(s)
  BY DEF KeptInv
<1>2. CASE s = << >>
  <2>1. Kept(<< >>)
    BY <1>1, <1>2
  <2> QED  BY <2>1, DebrisTaken
<1> QED  BY <1>1, <1>2, OwedTaken

\* A byte moves from the front of one sequence to the end of another.
LEMMA AppendMoves ==
  ASSUME NEW s \in Seq(Bytes), NEW t \in Seq(Bytes), t # << >>
  PROVE  Append(s, Head(t)) \o Tail(t) = s \o t
<1> DEFINE a == Append(s, Head(t))
           u == a \o Tail(t)
           v == s \o t
<1>1. /\ Head(t) \in Bytes /\ Head(t) = t[1] /\ Tail(t) \in Seq(Bytes)
      /\ Len(Tail(t)) = Len(t) - 1 /\ Len(t) \in Nat /\ Len(s) \in Nat /\ Len(t) >= 1
      /\ \A i \in 1 .. Len(Tail(t)) : Tail(t)[i] = t[i + 1]
  BY HeadTailProperties, EmptySeq, LenProperties
<1>2. /\ a \in Seq(Bytes) /\ Len(a) = Len(s) + 1
      /\ \A i \in 1 .. Len(s) : a[i] = s[i]
      /\ a[Len(s) + 1] = t[1]
  BY <1>1, AppendProperties
<1> HIDE DEF a
<1>3. /\ u \in Seq(Bytes) /\ Len(u) = Len(a) + Len(Tail(t))
      /\ \A i \in 1 .. Len(a) + Len(Tail(t)) :
           u[i] = IF i <= Len(a) THEN a[i] ELSE Tail(t)[i - Len(a)]
  BY <1>1, <1>2, ConcatProperties
<1>4. /\ v \in Seq(Bytes) /\ Len(v) = Len(s) + Len(t)
      /\ \A i \in 1 .. Len(s) + Len(t) : v[i] = IF i <= Len(s) THEN s[i] ELSE t[i - Len(s)]
  BY ConcatProperties
<1> HIDE DEF u, v
<1>5. Len(u) = Len(v)
  BY <1>1, <1>2, <1>3, <1>4
<1>6. ASSUME NEW i \in 1 .. Len(u) PROVE u[i] = v[i]
  <2>1. /\ i \in 1 .. Len(a) + Len(Tail(t)) /\ i \in 1 .. Len(s) + Len(t)
    BY <1>1, <1>2, <1>3, <1>6
  <2>2. CASE i <= Len(s)
    <3>1. i <= Len(a) /\ i \in 1 .. Len(s)
      BY <1>1, <1>2, <2>1, <2>2
    <3>2. u[i] = a[i]
      BY <1>3, <2>1, <3>1
    <3>3. v[i] = s[i]
      BY <1>4, <2>1, <2>2
    <3> QED  BY <1>2, <3>1, <3>2, <3>3
  <2>3. CASE i = Len(s) + 1
    <3>1. u[i] = t[1]
      BY <1>1, <1>2, <1>3, <2>1, <2>3
    <3>2. v[i] = t[1]
      <4>1. ~(i <= Len(s)) /\ i - Len(s) = 1
        BY <1>1, <2>3
      <4> QED  BY <1>4, <2>1, <4>1
    <3> QED  BY <3>1, <3>2
  <2>4. CASE i > Len(s) + 1
    <3>1. ~(i <= Len(a)) /\ i - Len(a) \in 1 .. Len(Tail(t)) /\ (i - Len(a)) + 1 = i - Len(s)
          /\ ~(i <= Len(s))
      BY <1>1, <1>2, <2>1, <2>4
    <3>2. u[i] = Tail(t)[i - Len(a)]
      BY <1>3, <2>1, <3>1
    <3>3. Tail(t)[i - Len(a)] = t[i - Len(s)]
      BY <1>1, <3>1
    <3>4. v[i] = t[i - Len(s)]
      BY <1>4, <2>1, <3>1
    <3> QED  BY <3>2, <3>3, <3>4
  <2> QED  BY <1>1, <2>1, <2>2, <2>3, <2>4
<1> QED  BY <1>3, <1>4, <1>5, <1>6, SeqEqual DEF u, v, a

-----------------------------------------------------------------------------
(* What is owed stays ahead of the receiver while the line brings bytes. *)

LEMMA LineTypes ==
  ASSUME BoundsInv, NEW j \in 1 .. Len(line)
  PROVE  line[j].at \in Nat /\ line[j].of \in Nat /\ line[j].frame \in Int /\ line[j] \in Bytes
<1>1. line[j] \in Bytes
  BY Clocks, ElementOfSeq
<1> QED  BY <1>1 DEF Bytes

LEMMA Written ==
  ASSUME BoundsInv, HostWrites
  PROVE  /\ line = << >> /\ sent' = sent + 1 /\ sent + 1 \in Frames /\ sent \in Nat
         /\ UNCHANGED <<receiver, idleFor, fifo, stall, tainted, got>>
         /\ line' \in Seq(Bytes) /\ line' # << >> /\ WholeFrames(line')
         /\ \E n \in Nat :
              /\ Len(line') = n + 2
              /\ \A i \in 1 .. n + 2 :
                   line'[i].frame = sent + 1 /\ line'[i].at = i /\ line'[i].of = n
              /\ owed' = IF ~tainted /\ n \in 1 .. BufSize THEN owed \cup {sent + 1} ELSE owed
<1>1. /\ line = << >> /\ sent' = sent + 1 /\ sent < MaxFrames
      /\ UNCHANGED <<receiver, idleFor, fifo, stall, tainted, got>>
  BY DEF HostWrites
<1>2. sent + 1 \in Frames /\ sent \in Nat
  BY <1>1, Constants DEF BoundsInv, TypeOK, Frames
<1>3. PICK hi, lo, fill \in Values :
        /\ line' = Frame(sent + 1, hi, lo, fill)
        /\ owed' = IF ~tainted /\ hi * Base + lo \in 1 .. BufSize
                     THEN owed \cup {sent + 1} ELSE owed
  BY DEF HostWrites
<1>4. line' \in Seq(Bytes) /\ line' # << >> /\ WholeFrames(line')
  BY <1>2, <1>3, FrameType, FrameIsWhole
<1>5. PICK n \in Nat : n = hi * Base + lo
  BY <1>2, FrameType
<1>6. Len(line') = n + 2
  BY <1>2, <1>3, <1>5, FrameType
<1>7. \A i \in 1 .. n + 2 : line'[i].frame = sent + 1 /\ line'[i].at = i /\ line'[i].of = n
  BY <1>3, <1>5 DEF Frame
<1>8. owed' = IF ~tainted /\ n \in 1 .. BufSize THEN owed \cup {sent + 1} ELSE owed
  BY <1>3, <1>5
<1> QED  BY <1>1, <1>2, <1>4, <1>6, <1>7, <1>8

LEMMA LineWritten ==
  ASSUME BoundsInv, LineInv, GotInv, HostWrites
  PROVE  LineInv' /\ GotInv'
<1>1. /\ line = << >> /\ sent' = sent + 1 /\ sent \in Nat
      /\ fifo' = fifo /\ tainted' = tainted /\ got' = got
  BY Written
<1>2. PICK n \in Nat :
        /\ Len(line') = n + 2
        /\ \A i \in 1 .. n + 2 :
             line'[i].frame = sent + 1 /\ line'[i].at = i /\ line'[i].of = n
        /\ owed' = IF ~tainted /\ n \in 1 .. BufSize THEN owed \cup {sent + 1} ELSE owed
  BY Written
<1>3. owed \subseteq 1 .. sent /\ \A i \in 1 .. Len(fifo) : fifo[i].frame <= sent
  BY DEF LineInv
<1>4. \A i \in 1 .. Len(fifo) : fifo[i].frame \in Nat /\ fifo[i].frame < sent + 1
  <2> SUFFICES ASSUME NEW i \in 1 .. Len(fifo)
               PROVE  fifo[i].frame \in Nat /\ fifo[i].frame < sent + 1
    OBVIOUS
  <2>1. fifo[i] \in Bytes
    BY Clocks, ElementOfSeq
  <2>2. fifo[i].frame \in Nat
    BY <2>1, Constants DEF Bytes
  <2> QED  BY <1>1, <1>3, <2>2
<1>5. 1 \in 1 .. n + 2 /\ line'[1].at = 1
  BY <1>2
<1>6. owed' \subseteq 1 .. sent'
  <2>1. owed' \subseteq owed \cup {sent + 1}
    BY <1>2
  <2>2. 1 .. sent \subseteq 1 .. sent + 1 /\ sent + 1 \in 1 .. sent + 1
    BY <1>1
  <2> QED  BY <1>1, <1>3, <2>1, <2>2
<1>7. tainted => sent + 1 \notin owed'
  <2>1. sent + 1 \notin 1 .. sent
    BY <1>1
  <2> QED  BY <1>2, <1>3, <2>1
<1>8. \A j \in 1 .. Len(line') :
        line'[j].frame = sent + 1 /\ line'[j].at = line'[1].at + j - 1
  BY <1>2, <1>5
<1>9. \A i, j \in 1 .. Len(line') : i < j => Before(line'[i], line'[j])
  BY <1>2 DEF Before
<1>10. \A i \in 1 .. Len(fifo), j \in 1 .. Len(line') : Before(fifo[i], line'[j])
  BY <1>4, <1>8 DEF Before
<1>11. \A i \in 1 .. Len(fifo) :
         (fifo[i].frame = sent + 1) <=> (i > Len(fifo) - (line'[1].at - 1))
  <2>1. \A i \in 1 .. Len(fifo) : ~(i > Len(fifo) - (1 - 1))
    BY Clocks
  <2>2. \A i \in 1 .. Len(fifo) : fifo[i].frame # sent + 1
    BY <1>1, <1>4
  <2> QED  BY <1>5, <2>1, <2>2
<1>12. \A i \in 1 .. Len(fifo) : fifo[i].frame <= sent + 1
  BY <1>1, <1>4
<1>13. LineInv'
  <2>1. line'[1].at >= 1
    BY <1>5
  <2>2. \A i, j \in 1 .. Len(fifo) : i < j => Before(fifo[i], fifo[j])
    BY DEF LineInv
  <2> QED  BY <1>1, <1>6, <1>7, <1>8, <1>9, <1>10, <1>11, <1>12, <2>1, <2>2 DEF LineInv
<1>14. \A k \in DOMAIN got : got[k] \in Nat /\ got[k] <= sent
  <2>1. got \in Seq(0 .. MaxFrames)
    BY DEF BoundsInv, TypeOK
  <2> QED  BY <2>1, Constants DEF GotInv
<1>15. \A k \in DOMAIN got : got[k] \in owed' => got[k] \in owed
  BY <1>1, <1>2, <1>14
<1>16. GotInv'
  <2>1. \A k \in DOMAIN got : got[k] <= sent + 1 /\ got[k] < sent + 1
    BY <1>1, <1>14
  <2>2. \A k \in DOMAIN got : got[k] \in owed' =>
          \A i \in 1 .. Len(fifo) : fifo[i].frame = 0 \/ got[k] < fifo[i].frame
    BY <1>15 DEF GotInv
  <2>3. \A i, j \in DOMAIN got : i < j /\ {got[i], got[j]} \subseteq owed' => got[i] < got[j]
    BY <1>15 DEF GotInv
  <2> QED  BY <1>1, <2>1, <2>2, <2>3 DEF GotInv
<1> QED  BY <1>13, <1>16

LEMMA KeptWritten ==
  ASSUME BoundsInv, LineInv, KeptInv, HostWrites
  PROVE  KeptInv'
<1>1. /\ line = << >> /\ sent' = sent + 1 /\ sent \in Nat
      /\ UNCHANGED <<receiver, idleFor, fifo, stall, tainted, got>>
      /\ line' \in Seq(Bytes) /\ line' # << >> /\ WholeFrames(line')
  BY Written
<1>2. PICK n \in Nat :
        /\ Len(line') = n + 2
        /\ \A i \in 1 .. n + 2 :
             line'[i].frame = sent + 1 /\ line'[i].at = i /\ line'[i].of = n
        /\ owed' = IF ~tainted /\ n \in 1 .. BufSize THEN owed \cup {sent + 1} ELSE owed
  BY Written
<1>3. PICK s \in Seq(Bytes) : Kept(s)
  BY DEF KeptInv
<1>4. /\ state' = state /\ len' = len /\ pos' = pos /\ skip' = skip /\ buf' = buf
      /\ midFrameIdle' = midFrameIdle /\ idleFor' = idleFor
  BY <1>1 DEF receiver
<1>5. AtStart' = AtStart /\ PauseInv' = PauseInv
  BY <1>1, <1>4 DEF AtStart, GapSeen, PauseInv
<1>6. CASE tainted
  <2>1. owed' = owed
    BY <1>2, <1>6
  <2>2. InStep(s) => InStep(s)'
    BY <1>4, <1>5 DEF InStep
  <2>3. Kept(s)'
    BY <1>1, <1>3, <1>5, <1>6, <2>1, <2>2 DEF Kept, Ahead
  <2> QED  BY <2>3 DEF KeptInv
<1>7. CASE ~tainted
  <2>1. s = fifo /\ WholeFrames(fifo) /\ InStep(fifo) /\ PauseInv /\ fifo \in Seq(Bytes)
    BY <1>1, <1>3, <1>7, Clocks, ConcatEmptySeq DEF Kept, Ahead, Coming
  <2>2. PICK t \in Seq(Bytes) : t = Coming'
    BY <1>1, Clocks, ConcatProperties DEF Coming
  <2>3. t = fifo \o line'
    BY <1>1, <2>2 DEF Coming
  <2>4. /\ Len(t) = Len(fifo) + n + 2 /\ Len(fifo) \in Nat /\ Len(t) \in Nat
        /\ \A i \in 1 .. Len(fifo) : t[i] = fifo[i]
        /\ \A i \in 1 .. n + 2 : t[Len(fifo) + i] = line'[i]
    <3>1. /\ Len(t) = Len(fifo) + Len(line')
          /\ \A i \in 1 .. Len(fifo) + Len(line') :
               t[i] = IF i <= Len(fifo) THEN fifo[i] ELSE line'[i - Len(fifo)]
      BY <1>1, <2>1, <2>3, ConcatProperties
    <3>2. Len(t) = Len(fifo) + n + 2 /\ Len(fifo) \in Nat /\ Len(t) \in Nat
      BY <1>2, <3>1, Clocks
    <3>3. \A i \in 1 .. Len(fifo) : i \in 1 .. Len(fifo) + Len(line') /\ i <= Len(fifo)
      BY <1>2, <3>2
    <3>4. \A i \in 1 .. n + 2 : /\ Len(fifo) + i \in 1 .. Len(fifo) + Len(line')
                                /\ ~(Len(fifo) + i <= Len(fifo)) /\ (Len(fifo) + i) - Len(fifo) = i
      BY <1>2, <3>2
    <3> QED  BY <3>1, <3>2, <3>3, <3>4
  <2>5. WholeFrames(t)
    <3>1. line'[1].at = 1
      BY <1>2
    <3> QED  BY <1>1, <2>1, <2>3, <3>1, WholeConcat
  <2>6. t # << >>
    BY <2>4, EmptySeq
  <2>7. InStep(t)'
    <3>1. CASE fifo = << >>
      <4>1. AtStart
        BY <2>1, <3>1 DEF InStep
      <4>2. t[1].at = 1
        <5>1. Len(fifo) + 1 = 1 /\ 1 \in 1 .. n + 2
          BY <3>1, EmptySeq
        <5> QED  BY <1>2, <2>4, <5>1
      <4> QED  BY <1>5, <4>1, <4>2 DEF InStep
    <3>2. CASE fifo # << >>
      <4>1. t[1] = fifo[1]
        <5>1. 1 \in 1 .. Len(fifo)
          BY <2>1, <2>4, <3>2, EmptySeq
        <5> QED  BY <2>4, <5>1
      <4> QED  BY <1>4, <1>5, <2>1, <2>6, <3>2, <4>1 DEF InStep
    <3> QED  BY <3>1, <3>2
  <2>8. ASSUME NEW f \in owed'
        PROVE  \/ \E k \in DOMAIN got : got[k] = f
               \/ \E i \in 1 .. Len(t) : EndOf(t[i], f)
    <3>1. CASE f \in owed
      <4>1. (\E k \in DOMAIN got : got[k] = f) \/ (\E i \in 1 .. Len(fifo) : EndOf(fifo[i], f))
        BY <1>3, <2>1, <3>1 DEF Kept
      <4>2. \A i \in 1 .. Len(fifo) : i \in 1 .. Len(t)
        BY <2>4
      <4> QED  BY <2>4, <4>1, <4>2
    <3>2. CASE f \notin owed
      <4>1. f = sent + 1 /\ n \in 1 .. BufSize
        BY <1>2, <3>2
      <4>2. n + 2 \in 1 .. n + 2 /\ Len(fifo) + (n + 2) \in 1 .. Len(t)
        BY <2>4
      <4>3. EndOf(t[Len(fifo) + (n + 2)], f)
        BY <1>2, <2>4, <4>1, <4>2 DEF EndOf
      <4> QED  BY <4>2, <4>3
    <3> QED  BY <3>1, <3>2
  <2>9. \A i \in Len(t) + 1 .. Len(fifo) : FALSE
    BY <2>4
  <2>10. Kept(t)'
    BY <1>1, <1>5, <1>7, <2>1, <2>2, <2>5, <2>7, <2>8, <2>9 DEF Kept, Ahead
  <2> QED  BY <2>10 DEF KeptInv
<1> QED  BY <1>6, <1>7

\* The line brings byte b of the frame, or a stray one, or loses it.
Brings(b) ==
    /\ UNCHANGED <<receiver, idleFor, stall, sent, got>>
    /\ b \in Bytes
    /\ \/ fifo' = fifo
       \/ fifo' = Append(fifo, b)

LEMMA BroughtFifo ==
  ASSUME BoundsInv, NEW b \in Bytes, fifo' = Append(fifo, b)
  PROVE  /\ Len(fifo') = Len(fifo) + 1 /\ Len(fifo) \in Nat
         /\ \A i \in 1 .. Len(fifo) : fifo'[i] = fifo[i]
         /\ fifo'[Len(fifo) + 1] = b
         /\ \A i \in 1 .. Len(fifo') : i \in 1 .. Len(fifo) \/ i = Len(fifo) + 1
<1>1. /\ Len(fifo') = Len(fifo) + 1 /\ Len(fifo) \in Nat
      /\ \A i \in 1 .. Len(fifo) : fifo'[i] = fifo[i]
      /\ fifo'[Len(fifo) + 1] = b
  BY Clocks, AppendProperties
<1>2. \A i \in 1 .. Len(fifo') : i \in 1 .. Len(fifo) \/ i = Len(fifo) + 1
  BY <1>1
<1> QED  BY <1>1, <1>2

LEMMA LineTail ==
  ASSUME BoundsInv, line # << >>, line' = Tail(line)
  PROVE  /\ Len(line) \in Nat /\ Len(line) >= 1 /\ Len(line') = Len(line) - 1
         /\ Head(line) = line[1] /\ line[1] \in Bytes /\ line' \in Seq(Bytes)
         /\ \A j \in 1 .. Len(line') : j + 1 \in 1 .. Len(line) /\ line'[j] = line[j + 1]
<1>1. /\ Head(line) \in Bytes /\ Tail(line) \in Seq(Bytes) /\ Len(Tail(line)) = Len(line) - 1
      /\ \A i \in 1 .. Len(Tail(line)) : Tail(line)[i] = line[i + 1]
      /\ Len(line) \in Nat /\ Len(line) >= 1 /\ Head(line) = line[1]
  BY Clocks, HeadTailProperties, EmptySeq
<1>2. \A j \in 1 .. Len(line') : j + 1 \in 1 .. Len(line)
  BY <1>1
<1> QED  BY <1>1, <1>2

LEMMA LineArrives ==
  ASSUME BoundsInv, LineInv, GotInv, ByteArrives
  PROVE  LineInv' /\ GotInv'
<1> DEFINE b == line[1]
<1>1. /\ line # << >> /\ line' = Tail(line) /\ sent' = sent /\ got' = got
      /\ Arrives(Head(line))
      /\ IF Len(fifo) < FifoSize THEN tainted' = tainted /\ owed' = owed ELSE Taint
  BY DEF ByteArrives
<1>2. /\ Len(line) \in Nat /\ Len(line) >= 1 /\ Len(line') = Len(line) - 1
      /\ Head(line) = b /\ b \in Bytes /\ line' \in Seq(Bytes)
      /\ \A j \in 1 .. Len(line') : j + 1 \in 1 .. Len(line) /\ line'[j] = line[j + 1]
  BY <1>1, LineTail
<1>3. 1 \in 1 .. Len(line) /\ b.frame = sent /\ b.at \in Nat /\ b.at >= 1 /\ sent \in Nat
  <2>1. 1 \in 1 .. Len(line)
    BY <1>2
  <2>2. sent \in Nat
    BY DEF BoundsInv, TypeOK
  <2> QED  BY <1>1, <2>1, <2>2, LineTypes DEF LineInv
<1>4. owed' \subseteq owed /\ (tainted' => sent \notin owed')
  <2>1. CASE Len(fifo) < FifoSize
    BY <1>1, <2>1 DEF LineInv
  <2>2. CASE ~(Len(fifo) < FifoSize)
    BY <1>1, <2>2 DEF Taint
  <2> QED  BY <2>1, <2>2
<1>5. \A j \in 1 .. Len(line') :
        line'[j].frame = sent /\ line'[j].at = b.at + j /\ Before(b, line'[j])
  <2> SUFFICES ASSUME NEW j \in 1 .. Len(line')
               PROVE  line'[j].frame = sent /\ line'[j].at = b.at + j /\ Before(b, line'[j])
    OBVIOUS
  <2>1. j + 1 \in 1 .. Len(line) /\ line'[j] = line[j + 1] /\ 1 < j + 1
    BY <1>2
  <2>2. line[j + 1].at = b.at + (j + 1) - 1
    BY <2>1 DEF LineInv
  <2>3. b.at + (j + 1) - 1 = b.at + j
    BY <1>3
  <2> QED  BY <1>3, <2>1, <2>2, <2>3 DEF LineInv
<1>6. \A i, j \in 1 .. Len(line') : i < j => Before(line'[i], line'[j])
  <2> SUFFICES ASSUME NEW i \in 1 .. Len(line'), NEW j \in 1 .. Len(line'), i < j
               PROVE  Before(line'[i], line'[j])
    OBVIOUS
  <2>1. i + 1 < j + 1
    OBVIOUS
  <2> QED  BY <1>2, <2>1 DEF LineInv
<1>7. line' # << >> => 1 \in 1 .. Len(line') /\ line'[1].at = b.at + 1
  <2>1. line' # << >> => 1 \in 1 .. Len(line')
    BY <1>2, EmptySeq
  <2> QED  BY <1>5, <2>1
<1>8. \A j \in 1 .. Len(line') : line'[j].at = line'[1].at + j - 1
  <2> SUFFICES ASSUME NEW j \in 1 .. Len(line') PROVE line'[j].at = line'[1].at + j - 1
    OBVIOUS
  <2>1. 1 \in 1 .. Len(line')
    BY <1>2
  <2>2. line'[j].at = b.at + j /\ line'[1].at = b.at + 1
    BY <1>5, <2>1
  <2>3. b.at + j = b.at + 1 + j - 1
    BY <1>3
  <2> QED  BY <2>2, <2>3
<1>9. /\ \A i \in 1 .. Len(fifo) : fifo[i].frame <= sent
      /\ \A i, j \in 1 .. Len(fifo) : i < j => Before(fifo[i], fifo[j])
      /\ \A i \in 1 .. Len(fifo) : Before(fifo[i], b)
      /\ \A i \in 1 .. Len(fifo), j \in 1 .. Len(line') : Before(fifo[i], line'[j])
  BY <1>2, <1>3 DEF LineInv
<1>10. CASE fifo' = Append(fifo, b)
  <2>1. /\ Len(fifo') = Len(fifo) + 1 /\ Len(fifo) \in Nat
        /\ \A i \in 1 .. Len(fifo) : fifo'[i] = fifo[i]
        /\ fifo'[Len(fifo) + 1] = b
        /\ \A i \in 1 .. Len(fifo') : i \in 1 .. Len(fifo) \/ i = Len(fifo) + 1
    BY <1>2, <1>10, BroughtFifo
  <2>2. \A i \in 1 .. Len(fifo') : fifo'[i].frame <= sent
    BY <1>3, <1>9, <2>1
  <2>3. \A i, j \in 1 .. Len(fifo') : i < j => Before(fifo'[i], fifo'[j])
    <3> SUFFICES ASSUME NEW i \in 1 .. Len(fifo'), NEW j \in 1 .. Len(fifo'), i < j
                 PROVE  Before(fifo'[i], fifo'[j])
      OBVIOUS
    <3>1. i \in 1 .. Len(fifo)
      BY <2>1
    <3> QED  BY <1>9, <2>1, <3>1
  <2>4. \A i \in 1 .. Len(fifo'), j \in 1 .. Len(line') : Before(fifo'[i], line'[j])
    BY <1>5, <1>9, <2>1
  <2>5. ASSUME ~tainted', line' # << >>, NEW i \in 1 .. Len(fifo')
        PROVE  (fifo'[i].frame = sent) <=> (i > Len(fifo') - (line'[1].at - 1))
    <3>1. ~tainted
      BY <1>1, <2>5 DEF Taint
    <3>2. Len(fifo') - (line'[1].at - 1) = Len(fifo) - (b.at - 1)
      BY <1>3, <1>7, <2>1, <2>5
    <3>3. CASE i \in 1 .. Len(fifo)
      <4>1. (fifo[i].frame = sent) <=> (i > Len(fifo) - (b.at - 1))
        BY <1>1, <3>1, <3>3 DEF LineInv
      <4> QED  BY <2>1, <3>2, <3>3, <4>1
    <3>4. CASE i = Len(fifo) + 1
      <4>1. i > Len(fifo) - (b.at - 1)
        BY <1>3, <2>1, <3>4
      <4> QED  BY <1>3, <2>1, <3>2, <3>4, <4>1
    <3> QED  BY <2>1, <3>3, <3>4
  <2>6. LineInv'
    <3>1. owed' \subseteq 1 .. sent
      BY <1>4 DEF LineInv
    <3>2. line' # << >> => line'[1].at >= 1
      BY <1>3, <1>7
    <3> QED  BY <1>1, <1>4, <1>5, <1>6, <1>8, <2>2, <2>3, <2>4, <2>5, <3>1, <3>2 DEF LineInv
  <2>7. GotInv'
    <3>1. \A k \in DOMAIN got : got[k] \in owed' => got[k] \in owed /\ got[k] < sent
      BY <1>1, <1>4 DEF GotInv
    <3>2. \A k \in DOMAIN got : got[k] \in owed' =>
            \A i \in 1 .. Len(fifo') : fifo'[i].frame = 0 \/ got[k] < fifo'[i].frame
      BY <1>3, <2>1, <3>1 DEF GotInv
    <3> QED  BY <1>1, <3>1, <3>2 DEF GotInv
  <2> QED  BY <2>6, <2>7
<1>11. CASE fifo' = fifo /\ tainted'
  <2>1. LineInv'
    <3>1. owed' \subseteq 1 .. sent
      BY <1>4 DEF LineInv
    <3>2. line' # << >> => line'[1].at >= 1
      BY <1>3, <1>7
    <3> QED  BY <1>1, <1>4, <1>5, <1>6, <1>8, <1>9, <1>11, <3>1, <3>2 DEF LineInv
  <2>2. GotInv'
    <3>1. \A k \in DOMAIN got : got[k] \in owed' => got[k] \in owed
      BY <1>4
    <3> QED  BY <1>1, <1>11, <3>1 DEF GotInv
  <2> QED  BY <2>1, <2>2
<1>12. fifo' = Append(fifo, b) \/ (fifo' = fifo /\ tainted')
  BY <1>1, <1>2 DEF Arrives, Taint
<1> QED  BY <1>10, <1>11, <1>12

LEMMA LineNoise ==
  ASSUME BoundsInv, LineInv, GotInv, NoiseArrives
  PROVE  LineInv' /\ GotInv'
<1>1. /\ line' = line /\ sent' = sent /\ got' = got /\ tainted'
      /\ owed' = IF line = << >> THEN owed ELSE owed \ {sent}
  BY DEF NoiseArrives, Taint
<1>2. PICK v \in Values : fifo' = fifo \/ fifo' = Append(fifo, Stray(v))
  BY DEF NoiseArrives, Arrives
<1>3. PICK b \in Bytes : b = Stray(v) /\ b.frame = 0
  <2>1. Stray(v) \in Bytes /\ Stray(v).frame = 0
    BY Constants DEF Stray, Bytes
  <2> QED  BY <2>1
<1>4. owed' \subseteq owed /\ (line # << >> => sent \notin owed')
  BY <1>1
<1>5. /\ \A i \in 1 .. Len(fifo') : fifo'[i].frame <= sent
      /\ \A i, j \in 1 .. Len(fifo') : i < j => Before(fifo'[i], fifo'[j])
      /\ \A i \in 1 .. Len(fifo'), j \in 1 .. Len(line) : Before(fifo'[i], line[j])
      /\ \A i \in 1 .. Len(fifo') : fifo'[i].frame = 0 \/ \E j \in 1 .. Len(fifo) : fifo'[i] = fifo[j]
  <2>1. CASE fifo' = fifo
    BY <2>1 DEF LineInv
  <2>2. CASE fifo' = Append(fifo, b)
    <3>1. /\ Len(fifo') = Len(fifo) + 1 /\ Len(fifo) \in Nat
          /\ \A i \in 1 .. Len(fifo) : fifo'[i] = fifo[i]
          /\ fifo'[Len(fifo) + 1] = b
          /\ \A i \in 1 .. Len(fifo') : i \in 1 .. Len(fifo) \/ i = Len(fifo) + 1
      BY <2>2, BroughtFifo
    <3>2. 0 <= sent
      BY DEF BoundsInv, TypeOK
    <3>3. \A i \in 1 .. Len(fifo') : fifo'[i].frame <= sent
      BY <1>3, <3>1, <3>2 DEF LineInv
    <3>4. \A i, j \in 1 .. Len(fifo') : i < j => Before(fifo'[i], fifo'[j])
      <4> SUFFICES ASSUME NEW i \in 1 .. Len(fifo'), NEW j \in 1 .. Len(fifo'), i < j
                   PROVE  Before(fifo'[i], fifo'[j])
        OBVIOUS
      <4>1. i \in 1 .. Len(fifo)
        BY <3>1
      <4>2. CASE j \in 1 .. Len(fifo)
        BY <3>1, <4>1, <4>2 DEF LineInv
      <4>3. CASE j = Len(fifo) + 1
        BY <1>3, <3>1, <4>3 DEF Before
      <4> QED  BY <3>1, <4>2, <4>3
    <3>5. \A i \in 1 .. Len(fifo'), j \in 1 .. Len(line) : Before(fifo'[i], line[j])
      <4>1. \A c : Before(b, c)
        BY <1>3 DEF Before
      <4> QED  BY <3>1, <4>1 DEF LineInv
    <3>6. \A i \in 1 .. Len(fifo') : fifo'[i].frame = 0 \/ \E j \in 1 .. Len(fifo) : fifo'[i] = fifo[j]
      BY <1>3, <3>1
    <3> QED  BY <3>3, <3>4, <3>5, <3>6
  <2> QED  BY <1>2, <1>3, <2>1, <2>2
<1>6. LineInv'
  <2>1. /\ owed' \subseteq 1 .. sent /\ (line # << >> => line[1].at >= 1)
        /\ \A j \in 1 .. Len(line) : line[j].frame = sent /\ line[j].at = line[1].at + j - 1
        /\ \A i, j \in 1 .. Len(line) : i < j => Before(line[i], line[j])
    BY <1>4 DEF LineInv
  <2> QED  BY <1>1, <1>4, <1>5, <2>1, Zenon DEF LineInv
<1>7. GotInv'
  <2>1. \A k \in DOMAIN got : got[k] \in owed' =>
          \A i \in 1 .. Len(fifo') : fifo'[i].frame = 0 \/ got[k] < fifo'[i].frame
    BY <1>4, <1>5 DEF GotInv
  <2> QED  BY <1>1, <1>4, <2>1 DEF GotInv
<1> QED  BY <1>6, <1>7

\* The whole frames before the first byte of a frame f that ends s.
LEMMA WholeUpTo ==
  ASSUME NEW s \in Seq(Bytes), WholeFrames(s), NEW m \in 0 .. Len(s), NEW f,
         \A i \in 1 .. m : s[i].frame # f, \A i \in m + 1 .. Len(s) : s[i].frame = f,
         NEW t \in Seq(Bytes), Len(t) = m, \A i \in 1 .. m : t[i] = s[i]
  PROVE  WholeFrames(t)
<1>1. Len(s) \in Nat /\ m \in Nat /\ m <= Len(s)
  BY LenProperties
<1> SUFFICES ASSUME NEW i \in 1 .. m PROVE WholeFrom(t, i)
  BY DEF WholeFrames
<1> DEFINE left == Left(s, i)
<1>2. i \in 1 .. Len(s) /\ i \in Nat
  BY <1>1
<1>3. WholeFrom(s, i) /\ s[i].frame # f /\ t[i] = s[i]
  BY <1>2 DEF WholeFrames
<1>4. s[i].at \in Nat /\ s[i].of \in Nat /\ left \in Int /\ left = s[i].of + 2 - s[i].at
  BY <1>2, Fields DEF Left
<1>5. /\ s[i].frame \in Frames /\ s[i].at \in 1 .. s[i].of + 2 /\ i + left <= Len(s)
      /\ \A k \in 0 .. left :
           s[i + k].frame = s[i].frame /\ s[i + k].of = s[i].of /\ s[i + k].at = s[i].at + k
      /\ i + left < Len(s) => s[i + left + 1].at = 1
      /\ s[i].at = 1 => LengthOf(s[i], s[i + 1]) = s[i].of
  BY <1>3 DEF WholeFrom
<1>6. Left(t, i) = left
  BY <1>3 DEF Left
<1>7. left \in Nat /\ (s[i].at = 1 => left >= 1)
  BY <1>4, <1>5
<1> HIDE DEF left
<1>8. i + left <= m
  <2> SUFFICES ASSUME ~(i + left <= m) PROVE FALSE
    OBVIOUS
  <2>1. m + 1 - i \in 0 .. left /\ i + (m + 1 - i) = m + 1 /\ m + 1 \in m + 1 .. Len(s)
    BY <1>1, <1>2, <1>5, <1>7
  <2>2. s[m + 1].frame = s[i].frame /\ s[m + 1].frame = f
    BY <1>5, <2>1
  <2> QED  BY <1>3, <2>2
<1>9. \A k \in 0 .. left : t[i + k] = s[i + k]
  <2>1. \A k \in 0 .. left : i + k \in 1 .. m
    BY <1>1, <1>2, <1>7, <1>8
  <2> QED  BY <2>1
<1>10. i + left < m => t[i + left + 1].at = 1
  <2> SUFFICES ASSUME i + left < m PROVE t[i + left + 1].at = 1
    OBVIOUS
  <2>1. i + left + 1 \in 1 .. m /\ i + left < Len(s)
    BY <1>1, <1>2, <1>7
  <2> QED  BY <1>5, <2>1
<1>11. s[i].at = 1 => t[i + 1] = s[i + 1]
  <2>1. s[i].at = 1 => 1 \in 0 .. left
    BY <1>7
  <2> QED  BY <1>9, <2>1
<1>12. \A k \in 0 .. left :
         t[i + k].frame = t[i].frame /\ t[i + k].of = t[i].of /\ t[i + k].at = t[i].at + k
  BY <1>3, <1>5, <1>9
<1>13. t[i].at = 1 => LengthOf(t[i], t[i + 1]) = t[i].of
  BY <1>3, <1>5, <1>11
<1> QED  BY <1>3, <1>5, <1>6, <1>8, <1>10, <1>12, <1>13 DEF WholeFrom

\* What is whole and ahead of the receiver stays so when the line brings a byte
\* behind it.
LEMMA KeptBehind ==
  ASSUME BoundsInv, NEW b, Brings(b), tainted', owed' \subseteq owed,
         b.frame \notin owed' \/ fifo' = fifo,
         NEW s \in Seq(Bytes), WholeFrames(s), Len(s) <= Len(fifo),
         \A i \in 1 .. Len(s) : s[i] = fifo[i],
         s # << >> => InStep(s) /\ PauseInv,
         \A i \in Len(s) + 1 .. Len(fifo) : fifo[i].frame \notin owed',
         \A f \in owed' : \/ \E k \in DOMAIN got : got[k] = f
                          \/ \E i \in 1 .. Len(s) : EndOf(s[i], f)
  PROVE  Kept(s)'
<1>1. /\ state' = state /\ len' = len /\ pos' = pos /\ skip' = skip /\ buf' = buf
      /\ midFrameIdle' = midFrameIdle /\ idleFor' = idleFor /\ stall' = stall /\ got' = got
  BY DEF Brings, receiver
<1>2. AtStart' = AtStart
  BY <1>1 DEF AtStart, GapSeen
<1>3. InStep(s) => InStep(s)'
  BY <1>1, <1>2 DEF InStep
<1>4. /\ Len(fifo) \in Nat /\ Len(fifo') \in Nat /\ Len(fifo) <= Len(fifo')
      /\ \A i \in 1 .. Len(fifo) : fifo'[i] = fifo[i]
      /\ \A i \in Len(fifo) + 1 .. Len(fifo') : fifo'[i].frame \notin owed'
  <2>1. CASE fifo' = fifo
    BY <2>1, Clocks
  <2>2. CASE fifo' # fifo
    <3>1. b \in Bytes /\ fifo' = Append(fifo, b) /\ b.frame \notin owed'
      BY <2>2 DEF Brings
    <3>2. /\ Len(fifo') = Len(fifo) + 1 /\ Len(fifo) \in Nat
          /\ \A i \in 1 .. Len(fifo) : fifo'[i] = fifo[i]
          /\ fifo'[Len(fifo) + 1] = b
      BY <3>1, BroughtFifo
    <3> QED  BY <3>1, <3>2
  <2> QED  BY <2>1, <2>2
<1>5. Len(s) \in Nat
  BY LenProperties
<1>6. s # << >> => fifo # << >> /\ fifo' # << >>
  <2>1. s # << >> => Len(s) >= 1
    BY <1>5, EmptySeq
  <2>2. s # << >> => Len(fifo) # 0 /\ Len(fifo') # 0
    BY <1>4, <1>5, <2>1
  <2>3. Len(<< >>) = 0
    BY EmptySeq
  <2> QED  BY <2>2, <2>3
<1>7. s # << >> => PauseInv'
  BY <1>1, <1>2, <1>6 DEF PauseInv
<1>8. Ahead(s)'
  <2>1. \A i \in 1 .. Len(s) : i \in 1 .. Len(fifo)
    BY <1>4, <1>5
  <2> QED  BY <1>4, <1>5, <2>1 DEF Ahead
<1>9. \A i \in Len(s) + 1 .. Len(fifo') : fifo'[i].frame \notin owed'
  <2> SUFFICES ASSUME NEW i \in Len(s) + 1 .. Len(fifo') PROVE fifo'[i].frame \notin owed'
    OBVIOUS
  <2>1. \/ i \in 1 .. Len(fifo) /\ i \in Len(s) + 1 .. Len(fifo)
        \/ i \in Len(fifo) + 1 .. Len(fifo')
    BY <1>4, <1>5
  <2> QED  BY <1>4, <2>1
<1> QED  BY <1>1, <1>3, <1>7, <1>8, <1>9 DEF Kept

\* The part of a clean line that a stray or lost byte leaves whole.
LEMMA Cut ==
  ASSUME BoundsInv, LineInv, KeptInv, ~tainted,
         owed' = IF line = << >> THEN owed ELSE owed \ {sent}
  PROVE  \E s \in Seq(Bytes) :
           /\ WholeFrames(s) /\ Len(s) <= Len(fifo) /\ \A i \in 1 .. Len(s) : s[i] = fifo[i]
           /\ s # << >> => InStep(s) /\ PauseInv
           /\ \A i \in Len(s) + 1 .. Len(fifo) : fifo[i].frame \notin owed'
           /\ \A f \in owed' : \/ \E k \in DOMAIN got : got[k] = f
                               \/ \E i \in 1 .. Len(s) : EndOf(s[i], f)
<1>1. /\ WholeFrames(Coming) /\ InStep(Coming) /\ PauseInv
      /\ \A f \in owed : \/ \E k \in DOMAIN got : got[k] = f
                         \/ \E i \in 1 .. Len(Coming) : EndOf(Coming[i], f)
  BY DEF KeptInv, Kept, Ahead
<1>2. /\ Len(fifo) \in Nat /\ Len(line) \in Nat /\ fifo \in Seq(Bytes) /\ line \in Seq(Bytes)
  BY Clocks
<1>3. CASE line = << >>
  <2>1. Coming = fifo
    BY <1>2, <1>3, ConcatEmptySeq DEF Coming
  <2>2. \A i \in Len(fifo) + 1 .. Len(fifo) : FALSE
    BY <1>2
  <2>3. \A i \in 1 .. Len(fifo) : fifo[i] = fifo[i]
    OBVIOUS
  <2> QED  BY <1>1, <1>2, <1>3, <2>1, <2>2, <2>3
<1>4. CASE line # << >>
  <2>1. 1 \in 1 .. Len(line) /\ Len(line) >= 1
    BY <1>2, <1>4, EmptySeq
  <2>2. line[1].at \in Nat /\ line[1].at >= 1 /\ \A j \in 1 .. Len(line) : line[j].frame = sent
    BY <1>4, <2>1, LineTypes DEF LineInv
  <2>3. PICK m \in 0 .. Len(fifo) :
          m = IF Len(fifo) >= line[1].at - 1 THEN Len(fifo) - (line[1].at - 1) ELSE 0
    BY <1>2, <2>2
  <2>4. \A i \in 1 .. Len(fifo) : (fifo[i].frame = sent) <=> (i > m)
    <3>1. \A i \in 1 .. Len(fifo) : (fifo[i].frame = sent) <=> (i > Len(fifo) - (line[1].at - 1))
      BY <1>4 DEF LineInv
    <3>2. \A i \in 1 .. Len(fifo) : (i > Len(fifo) - (line[1].at - 1)) <=> (i > m)
      BY <1>2, <2>2, <2>3
    <3> QED  BY <3>1, <3>2
  <2>5. /\ Len(Coming) = Len(fifo) + Len(line) /\ Coming \in Seq(Bytes)
        /\ \A i \in 1 .. Len(fifo) + Len(line) :
             Coming[i] = IF i <= Len(fifo) THEN fifo[i] ELSE line[i - Len(fifo)]
    BY <1>2, ConcatProperties DEF Coming
  <2>6. PICK c \in Seq(Bytes) : c = Coming
    BY <2>5
  <2>7. /\ m \in 0 .. Len(c) /\ \A i \in 1 .. m : c[i] = fifo[i] /\ c[i].frame # sent
        /\ \A i \in m + 1 .. Len(c) : c[i].frame = sent
    <3>1. m \in 0 .. Len(c)
      BY <1>2, <2>5, <2>6
    <3>2. \A i \in 1 .. m : /\ i \in 1 .. Len(fifo) + Len(line) /\ i <= Len(fifo)
                            /\ i \in 1 .. Len(fifo) /\ ~(i > m)
      BY <1>2
    <3>3. ASSUME NEW i \in m + 1 .. Len(c) PROVE c[i].frame = sent
      <4>1. i \in 1 .. Len(fifo) + Len(line) /\ i > m
        BY <1>2, <2>5, <2>6
      <4>2. CASE i <= Len(fifo)
        <5>1. i \in 1 .. Len(fifo)
          BY <4>1, <4>2
        <5> QED  BY <2>4, <2>5, <2>6, <4>1, <4>2, <5>1
      <4>3. CASE ~(i <= Len(fifo))
        <5>1. i - Len(fifo) \in 1 .. Len(line)
          BY <1>2, <4>1, <4>3
        <5> QED  BY <2>2, <2>5, <2>6, <4>1, <4>3, <5>1
      <4> QED  BY <4>2, <4>3
    <3> QED  BY <2>4, <2>5, <2>6, <3>1, <3>2, <3>3
  <2>8. PICK s \in Seq(Bytes) : Len(s) = m /\ \A i \in 1 .. m : s[i] = fifo[i]
    <3>1. \A i \in 1 .. m : fifo[i] \in Bytes
      <4>1. \A i \in 1 .. m : i \in 1 .. Len(fifo)
        BY <1>2
      <4> QED  BY <1>2, <4>1, ElementOfSeq
    <3>2. SubSeq(fifo, 1, m) \in Seq(Bytes) /\ Len(SubSeq(fifo, 1, m)) = m
          /\ \A i \in 1 .. m : SubSeq(fifo, 1, m)[i] = fifo[i]
      <4>1. m \in Nat
        BY <1>2
      <4> QED  BY <3>1, <4>1
    <3> QED  BY <3>2
  <2>9. WholeFrames(s)
    <3>1. WholeFrames(c) /\ \A i \in 1 .. m : s[i] = c[i] /\ c[i].frame # sent
      BY <1>1, <2>6, <2>7, <2>8
    <3> QED  BY <2>7, <2>8, <3>1, WholeUpTo
  <2>10. s # << >> => InStep(s) /\ PauseInv
    <3> SUFFICES ASSUME s # << >> PROVE InStep(s)
      BY <1>1
    <3>1. 1 \in 1 .. m /\ Len(c) # 0
      BY <2>7, <2>8, EmptySeq, LenProperties
    <3>2. s[1] = c[1] /\ c # << >>
      BY <2>7, <2>8, <3>1, EmptySeq
    <3> QED  BY <1>1, <2>6, <3>2 DEF InStep
  <2>11. sent \notin owed' /\ owed' \subseteq owed
    BY <1>4
  <2>12. \A i \in Len(s) + 1 .. Len(fifo) : fifo[i].frame \notin owed'
    <3>1. \A i \in Len(s) + 1 .. Len(fifo) : i \in 1 .. Len(fifo) /\ i > m
      BY <1>2, <2>8
    <3> QED  BY <2>4, <2>11, <3>1
  <2>13. ASSUME NEW f \in owed'
         PROVE  \/ \E k \in DOMAIN got : got[k] = f
                \/ \E i \in 1 .. Len(s) : EndOf(s[i], f)
    <3>1. CASE \E i \in 1 .. Len(c) : EndOf(c[i], f)
      <4>1. PICK i \in 1 .. Len(c) : EndOf(c[i], f)
        BY <3>1
      <4>2. i \in 1 .. m
        <5>1. c[i].frame # sent
          BY <2>11, <4>1 DEF EndOf
        <5>2. i \in m + 1 .. Len(c) \/ i \in 1 .. m
          BY <2>7, LenProperties
        <5> QED  BY <2>7, <5>1, <5>2
      <4>3. s[i] = c[i]
        BY <2>7, <2>8, <4>2
      <4> QED  BY <2>8, <4>1, <4>2, <4>3
    <3> QED  BY <1>1, <2>6, <2>11, <3>1
  <2>14. Len(s) <= Len(fifo) /\ \A i \in 1 .. Len(s) : s[i] = fifo[i]
    BY <1>2, <2>8
  <2> QED  BY <2>9, <2>10, <2>12, <2>13, <2>14
<1> QED  BY <1>3, <1>4

LEMMA KeptTainted ==
  ASSUME BoundsInv, LineInv, KeptInv, NEW b, Brings(b), tainted', owed' \subseteq owed,
         ~tainted => owed' = IF line = << >> THEN owed ELSE owed \ {sent},
         b.frame \notin owed' \/ fifo' = fifo
  PROVE  KeptInv'
<1>1. CASE ~tainted
  <2>1. PICK s \in Seq(Bytes) :
           /\ WholeFrames(s) /\ Len(s) <= Len(fifo) /\ \A i \in 1 .. Len(s) : s[i] = fifo[i]
           /\ s # << >> => InStep(s) /\ PauseInv
           /\ \A i \in Len(s) + 1 .. Len(fifo) : fifo[i].frame \notin owed'
           /\ \A f \in owed' : \/ \E k \in DOMAIN got : got[k] = f
                               \/ \E i \in 1 .. Len(s) : EndOf(s[i], f)
    BY <1>1, Cut
  <2>2. Kept(s)'
    BY <2>1, KeptBehind
  <2> QED  BY <2>2 DEF KeptInv
<1>2. CASE tainted
  <2>1. PICK s \in Seq(Bytes) : Kept(s)
    BY DEF KeptInv
  <2>2. /\ WholeFrames(s) /\ Len(s) <= Len(fifo) /\ \A i \in 1 .. Len(s) : s[i] = fifo[i]
        /\ s # << >> => InStep(s) /\ PauseInv
        /\ \A i \in Len(s) + 1 .. Len(fifo) : fifo[i].frame \notin owed'
        /\ \A f \in owed' : \/ \E k \in DOMAIN got : got[k] = f
                            \/ \E i \in 1 .. Len(s) : EndOf(s[i], f)
    BY <1>2, <2>1 DEF Kept, Ahead
  <2>3. Kept(s)'
    BY <2>2, KeptBehind
  <2> QED  BY <2>3 DEF KeptInv
<1> QED  BY <1>1, <1>2

LEMMA KeptNoise ==
  ASSUME BoundsInv, LineInv, KeptInv, NoiseArrives
  PROVE  KeptInv'
<1>1. PICK v \in Values : Arrives(Stray(v))
  BY DEF NoiseArrives
<1>2. Stray(v) \in Bytes /\ Stray(v).frame = 0
  BY Constants DEF Stray, Bytes
<1>3. Brings(Stray(v))
  BY <1>1, <1>2 DEF NoiseArrives, Brings, Arrives
<1>4. tainted' /\ owed' = IF line = << >> THEN owed ELSE owed \ {sent}
  BY DEF NoiseArrives, Taint
<1>5. 0 \notin owed' /\ owed' \subseteq owed
  BY <1>4 DEF BoundsInv, TypeOK, Frames
<1> QED  BY <1>2, <1>3, <1>4, <1>5, KeptTainted

LEMMA KeptArrives ==
  ASSUME BoundsInv, LineInv, KeptInv, ByteArrives
  PROVE  KeptInv'
<1> DEFINE b == line[1]
<1>1. /\ line # << >> /\ line' = Tail(line) /\ Arrives(Head(line))
      /\ UNCHANGED <<receiver, idleFor, stall, sent, got>>
      /\ IF Len(fifo) < FifoSize THEN tainted' = tainted /\ owed' = owed ELSE Taint
  BY DEF ByteArrives
<1>2. 1 \in 1 .. Len(line) /\ Head(line) = b /\ b \in Bytes /\ b.frame = sent
  <2>1. Len(line) \in Nat /\ Len(line) >= 1 /\ Head(line) = b /\ b \in Bytes
    BY <1>1, LineTail
  <2>2. 1 \in 1 .. Len(line)
    BY <2>1
  <2> QED  BY <2>1, <2>2 DEF LineInv
<1>3. Brings(b)
  BY <1>1, <1>2 DEF Brings, Arrives
<1>4. CASE ~(Len(fifo) < FifoSize)
  <2>1. tainted' /\ owed' = owed \ {sent} /\ fifo' = fifo
    BY <1>1, <1>4 DEF Taint, Arrives
  <2> QED  BY <1>1, <1>3, <2>1, KeptTainted
<1>5. CASE Len(fifo) < FifoSize /\ tainted
  <2>1. tainted' /\ owed' = owed
    BY <1>1, <1>5
  <2>2. b.frame \notin owed'
    BY <1>1, <1>2, <1>5, <2>1 DEF LineInv
  <2> QED  BY <1>3, <1>5, <2>1, <2>2, KeptTainted
<1>6. CASE Len(fifo) < FifoSize /\ ~tainted
  <2>1. PICK s \in Seq(Bytes) : Kept(s)
    BY DEF KeptInv
  <2>2. /\ ~tainted' /\ owed' = owed /\ fifo' = Append(fifo, b) /\ got' = got
        /\ state' = state /\ len' = len /\ pos' = pos /\ skip' = skip /\ buf' = buf
        /\ midFrameIdle' = midFrameIdle /\ idleFor' = idleFor /\ stall' = stall
    BY <1>1, <1>2, <1>6 DEF Arrives, receiver
  <2>3. s = Coming /\ Coming' = Coming
    <3>1. Append(fifo, Head(line)) \o Tail(line) = fifo \o line
      BY <1>1, Clocks, AppendMoves
    <3> QED  BY <1>1, <1>2, <1>6, <2>1, <2>2, <3>1 DEF Kept, Ahead, Coming
  <2>4. AtStart' = AtStart
    BY <2>2 DEF AtStart, GapSeen
  <2>5. WholeFrames(s) /\ InStep(s) /\ PauseInv
    BY <1>6, <2>1 DEF Kept
  <2>6. InStep(s)'
    BY <2>2, <2>4, <2>5 DEF InStep
  <2>7. PauseInv'
    <3>1. fifo' # << >>
      BY <1>1, <1>2, NotEmptied
    <3>2. stall \in Nat /\ idleFor \in Nat /\ 0 <= stall
      BY Clocks, Constants
    <3> QED  BY <2>2, <2>4, <2>5, <3>1, <3>2, Constants DEF PauseInv
  <2>8. \A i \in Len(s) + 1 .. Len(fifo') : FALSE
    <3>1. /\ Len(s) = Len(fifo) + Len(line) /\ Len(fifo') = Len(fifo) + 1
          /\ Len(line) >= 1 /\ Len(line) \in Nat /\ Len(fifo) \in Nat
      BY <1>1, <1>2, <2>2, <2>3, ComingType, BroughtFifo, LineTail
    <3> QED  BY <3>1
  <2>9. Kept(s)'
    BY <2>1, <2>2, <2>3, <2>5, <2>6, <2>7, <2>8 DEF Kept, Ahead
  <2> QED  BY <2>9 DEF KeptInv
<1> QED  BY <1>4, <1>5, <1>6

\* The line is clean again when it has been quiet for so long that the receiver
\* gives up what it was at.
LEMMA QuietResets ==
  ASSUME BoundsInv, SilenceInv, Tick, tainted, ~tainted'
  PROVE  fifo = << >> /\ line = << >> /\ AtStart'
<1> USE Clocks, Constants
<1>1. /\ quiet' = quiet + 1 /\ stall' = stall + 1 /\ state' = state /\ fifo' = fifo
      /\ line' = line /\ midFrameIdle' = midFrameIdle /\ stall < MaxStall
  BY DEF Tick, receiver
<1>2. quiet + 1 > GapReset + MaxStall
  <2>1. ~(quiet' <= GapReset + MaxStall)
    BY Zenon DEF Tick
  <2> QED  BY <1>1, <2>1
<1>3. fifo = << >>
  BY <1>2, <1>1 DEF SilenceInv
<1>4. line = << >>
  <2>1. line # << >> => quiet < MaxPause
    BY DEF Tick
  <2> QED  BY <1>2, <2>1
<1>5. CASE state # "READ_LEN0"
  <2>1. midFrameIdle /\ quiet <= idleFor + MaxStall
    BY <1>1, <1>2, <1>5 DEF SilenceInv
  <2>2. idleFor' = idleFor + 1
    BY <2>1, IdleTicks
  <2>3. idleFor' > GapReset
    BY <1>2, <2>1, <2>2
  <2> QED  BY <1>1, <1>3, <1>4, <1>5, <2>1, <2>3 DEF AtStart, GapSeen
<1> QED  BY <1>1, <1>3, <1>4, <1>5 DEF AtStart

\* The receiver does not give up a frame whose bytes are still coming.
LEMMA NoGapInBurst ==
  ASSUME BoundsInv, SilenceInv, Tick, NEW s \in Seq(Bytes), InStep(s), PauseInv,
         fifo # << >> \/ line # << >> \/ AtStart
  PROVE  InStep(s)' /\ PauseInv'
<1>1. /\ stall' = stall + 1 /\ stall < MaxStall /\ state' = state /\ fifo' = fifo
      /\ line' = line /\ midFrameIdle' = midFrameIdle
      /\ len' = len /\ pos' = pos /\ skip' = skip /\ buf' = buf
  BY DEF Tick, receiver
<1>2. midFrameIdle => idleFor' = idleFor + 1
  BY IdleTicks
<1>3. idleFor \in Nat /\ stall \in Nat /\ quiet \in Nat /\ midFrameIdle \in BOOLEAN
  BY Clocks, Constants
<1>4. CASE AtStart
  <2>1. AtStart'
    BY <1>1, <1>2, <1>3, <1>4, Constants DEF AtStart, GapSeen
  <2> QED  BY <1>4, <2>1 DEF InStep, PauseInv
<1>5. CASE ~AtStart
  <2>1. fifo = << >> => quiet < MaxPause
    BY <1>5 DEF Tick
  <2>2. midFrameIdle => idleFor' <= MaxPause + (IF fifo = << >> THEN 0 ELSE stall + 1)
    <3>1. CASE fifo = << >>
      <4>1. midFrameIdle => idleFor <= quiet
        BY <3>1 DEF SilenceInv
      <4> QED  BY <1>2, <1>3, <2>1, <3>1, <4>1, Constants
    <3>2. CASE fifo # << >>
      BY <1>2, <1>3, <1>5, <3>2, Constants DEF PauseInv
    <3> QED  BY <3>1, <3>2
  <2>3. midFrameIdle => idleFor' <= GapReset
    BY <1>1, <1>2, <1>3, <2>2, Clocks, Constants
  <2>4. ~AtStart'
    BY <1>1, <1>2, <1>3, <1>5, <2>3, Constants DEF AtStart, GapSeen
  <2>5. PauseInv'
    BY <1>1, <2>2, <2>4 DEF PauseInv
  <2>6. InStep(s)'
    BY <1>1, <1>5, <2>4 DEF InStep
  <2> QED  BY <2>5, <2>6
<1> QED  BY <1>4, <1>5

LEMMA OwedTick ==
  ASSUME BoundsInv, SilenceInv, LineInv, GotInv, KeptInv, Tick
  PROVE  (LineInv /\ GotInv /\ KeptInv)'
<1>1. /\ fifo' = fifo /\ line' = line /\ sent' = sent /\ owed' = owed /\ got' = got
  BY DEF Tick
<1>2. tainted' => tainted
  BY DEF Tick
<1>3. CASE tainted /\ ~tainted'
  <2>1. fifo = << >> /\ line = << >> /\ AtStart'
    BY <1>3, QuietResets
  <2>2. << >> \in Seq(Bytes) /\ Len(<< >>) = 0 /\ Len(line) = 0 /\ Len(fifo) = 0
        /\ \A i \in 1 .. 0 : FALSE
    BY <2>1, EmptySeq
  <2>3. Coming' = << >>
    <3>1. << >> \o << >> = << >>
      BY EmptySeq, ConcatEmptySeq
    <3> QED  BY <1>1, <2>1, <3>1 DEF Coming
  <2>4. LineInv' /\ GotInv'
    BY <1>1, <2>1, <2>2 DEF LineInv, GotInv
  <2>5. PICK s \in Seq(Bytes) : Kept(s)
    BY DEF KeptInv
  <2>6. s = << >>
    <3>1. Len(s) <= Len(fifo) /\ Len(s) \in Nat
      BY <1>3, <2>5, LenProperties DEF Kept, Ahead
    <3>2. Len(s) = 0
      BY <2>2, <3>1
    <3> QED  BY <3>2, EmptySeq
  <2>7. Kept(s)'
    BY <1>1, <1>3, <2>1, <2>2, <2>3, <2>5, <2>6 DEF Kept, Ahead, InStep, PauseInv, WholeFrames
  <2> QED  BY <2>4, <2>7 DEF KeptInv
<1>4. CASE tainted' = tainted
  <2>1. LineInv' /\ GotInv'
    BY <1>1, <1>4 DEF LineInv, GotInv
  <2>2. PICK s \in Seq(Bytes) : Kept(s)
    BY DEF KeptInv
  <2>3. ASSUME ~tainted \/ s # << >> PROVE InStep(s)' /\ PauseInv'
    <3>1. InStep(s) /\ PauseInv
      BY <2>2, <2>3 DEF Kept
    <3>2. fifo # << >> \/ line # << >> \/ AtStart
      <4>1. CASE tainted
        <5>1. Len(s) <= Len(fifo) /\ Len(s) \in Nat /\ Len(s) # 0 /\ Len(fifo) \in Nat
          BY <2>2, <2>3, <4>1, Clocks, LenProperties, EmptySeq DEF Kept, Ahead
        <5>2. Len(fifo) # 0
          BY <5>1
        <5> QED  BY <5>2, EmptySeq
      <4>2. CASE ~tainted
        <5>1. s = Coming
          BY <2>2, <4>2 DEF Kept, Ahead
        <5> QED  BY <3>1, <5>1, ComingType DEF InStep
      <4> QED  BY <4>1, <4>2
    <3> QED  BY <3>1, <3>2, NoGapInBurst
  <2>4. Kept(s)'
    <3>1. Ahead(s)'
      BY <1>1, <1>4, <2>2 DEF Kept, Ahead, Coming
    <3> QED  BY <1>1, <1>4, <2>2, <2>3, <3>1 DEF Kept
  <2> QED  BY <2>1, <2>4 DEF KeptInv
<1> QED  BY <1>2, <1>3, <1>4, Clocks DEF Tick

LEMMA OwedFindsNothing ==
  ASSUME BoundsInv, LineInv, GotInv, KeptInv, FindsNothing
  PROVE  (LineInv /\ GotInv /\ KeptInv)'
<1>1. /\ fifo = << >> /\ fifo' = fifo /\ line' = line /\ tainted' = tainted /\ state' = state
      /\ len' = len /\ pos' = pos /\ skip' = skip /\ buf' = buf
      /\ sent' = sent /\ owed' = owed /\ got' = got
      /\ \/ state # "READ_LEN0" /\ ~midFrameIdle /\ midFrameIdle' = TRUE /\ idleFor' = 0
         \/ midFrameIdle' = midFrameIdle /\ idleFor' = idleFor
  BY DEF FindsNothing, wire
<1>2. AtStart' = AtStart
  <2>1. ~(0 > GapReset)
    BY Constants
  <2> QED  BY <1>1, <2>1 DEF AtStart, GapSeen
<1>3. PauseInv => PauseInv'
  <2>1. 0 <= MaxPause + 0
    BY Constants
  <2> QED  BY <1>1, <1>2, <2>1 DEF PauseInv
<1>4. LineInv' /\ GotInv'
  BY <1>1 DEF LineInv, GotInv
<1>5. PICK s \in Seq(Bytes) : Kept(s)
  BY DEF KeptInv
<1>6. InStep(s) => InStep(s)'
  BY <1>1, <1>2 DEF InStep
<1>7. Ahead(s)'
  BY <1>1, <1>5 DEF Kept, Ahead, Coming
<1>8. Kept(s)'
  BY <1>1, <1>3, <1>5, <1>6, <1>7 DEF Kept
<1> QED  BY <1>4, <1>8 DEF KeptInv

-----------------------------------------------------------------------------
(* The inductive invariant, and what it gives. *)

LEMMA OwedInit == Init => OwedInv
<1> SUFFICES ASSUME Init PROVE OwedInv
  OBVIOUS
<1>1. /\ fifo = << >> /\ line = << >> /\ got = << >> /\ owed = {} /\ tainted = FALSE
      /\ sent = 0 /\ state = "READ_LEN0"
  BY DEF Init
<1>2. Coming = << >> /\ << >> \in Seq(Bytes) /\ Len(<< >>) = 0 /\ DOMAIN << >> = {}
      /\ \A i \in 1 .. 0 : FALSE
  BY <1>1, EmptySeq, ConcatEmptySeq DEF Coming
<1>3. LineInv /\ GotInv
  BY <1>1, <1>2 DEF LineInv, GotInv
<1>4. Kept(<< >>)
  BY <1>1, <1>2 DEF Kept, Ahead, WholeFrames, InStep, AtStart, PauseInv
<1> QED  BY <1>2, <1>3, <1>4, BoundsInit, SilenceInit DEF OwedInv, KeptInv

LEMMA OwedStep == OwedInv /\ [Next]_vars => OwedInv'
<1> SUFFICES ASSUME OwedInv, [Next]_vars PROVE OwedInv'
  OBVIOUS
<1>1. BoundsInv /\ SilenceInv /\ LineInv /\ GotInv /\ KeptInv
  BY DEF OwedInv
<1>2. BoundsInv' /\ SilenceInv'
  BY <1>1, BoundsStep, SilenceStep
<1>3. (LineInv /\ GotInv /\ KeptInv)'
  <2>1. CASE HostWrites
    BY <1>1, <2>1, LineWritten, KeptWritten
  <2>2. CASE ByteArrives
    BY <1>1, <2>2, LineArrives, KeptArrives
  <2>3. CASE NoiseArrives
    BY <1>1, <2>3, LineNoise, KeptNoise
  <2>4. CASE Tick
    BY <1>1, <2>4, OwedTick
  <2>5. CASE FindsNothing
    BY <1>1, <2>5, OwedFindsNothing
  <2>6. CASE Reads
    BY <1>1, <2>6, OwedReads
  <2>7. CASE UNCHANGED vars
    <3>1. /\ UNCHANGED <<fifo, line, tainted, owed, got, sent, state, len, pos, skip, buf,
                         midFrameIdle, idleFor, stall>>
      BY <2>7 DEF vars, receiver, wire
    <3>2. LineInv' /\ GotInv'
      BY <1>1, <3>1 DEF LineInv, GotInv
    <3>3. PICK s \in Seq(Bytes) : Kept(s)
      BY <1>1 DEF KeptInv
    <3>4. AtStart' = AtStart
      BY <3>1 DEF AtStart, GapSeen
    <3>5. (InStep(s) => InStep(s)') /\ (PauseInv => PauseInv')
      BY <3>1, <3>4 DEF InStep, PauseInv
    <3>6. Kept(s)'
      BY <3>1, <3>3, <3>5 DEF Kept, Ahead, Coming
    <3> QED  BY <3>2, <3>6 DEF KeptInv
  <2> QED
    BY <2>1, <2>2, <2>3, <2>4, <2>5, <2>6, <2>7 DEF Next, processStep, Reads
<1> QED  BY <1>2, <1>3 DEF OwedInv

\* On a clean line the handler is called with frames of the host, all of each and
\* nothing else, for all sizes, chunkings and pauses within the assumptions.
THEOREM DispatchesAreWhole == Spec => DispatchIsWhole
<1>1. OwedInv /\ [Next]_vars => [got' # got => tainted \/ Last(got') # 0]_vars
  <2> SUFFICES ASSUME OwedInv, Next, got' # got, ~tainted PROVE Last(got') # 0
    OBVIOUS
  <2>1. Reads
    BY DEF Next, HostWrites, ByteArrives, NoiseArrives, Tick, processStep, FindsNothing, Reads
  <2>2. PICK s \in Seq(Bytes) : Kept(s)
    BY DEF OwedInv, KeptInv
  <2>3. Following(s)
    <3>1. s = Coming /\ fifo # << >>
      BY <2>1, <2>2, ReadFacts DEF OwedInv, Kept, Ahead
    <3>2. s # << >>
      BY <3>1, ComingType DEF OwedInv
    <3> QED  BY <2>2, <3>2, KeptPrefix DEF OwedInv, Kept, Following
  <2>4. PICK n \in 1 .. Len(fifo) : Taken(s, n)
    BY <2>1, <2>3, Takes DEF OwedInv
  <2>5. got' = Append(got, s[1].frame) /\ s[1].frame \in Frames
    BY <2>4 DEF Taken
  <2>6. got \in Seq(0 .. MaxFrames) /\ s[1].frame \in 0 .. MaxFrames /\ s[1].frame # 0
    BY <2>5, Constants DEF OwedInv, BoundsInv, TypeOK, Frames
  <2> QED  BY <2>5, <2>6, AppendProperties DEF Last
<1> QED  BY <1>1, OwedInit, OwedStep, PTL DEF Spec, DispatchIsWhole

\* Every frame that is owed reaches the handler, once and in order: when the
\* receiver has read it to the end, the handler has had it.
LEMMA OwedIsDelivered == OwedInv => OwedFramesDelivered
<1> SUFFICES ASSUME OwedInv PROVE OwedFramesDelivered
  OBVIOUS
<1>1. PICK s \in Seq(Bytes) : Kept(s)
  BY DEF OwedInv, KeptInv
<1>2. ASSUME NEW f \in owed, ReadToTheEnd(f)
      PROVE  \E i \in DOMAIN got : got[i] = f
  <2> SUFFICES ASSUME NEW i \in 1 .. Len(s), EndOf(s[i], f) PROVE FALSE
    BY <1>1 DEF Kept
  <2>1. \A j \in 1 .. Len(fifo) : fifo[j].frame # f
    <3>1. DOMAIN fifo = 1 .. Len(fifo)
      BY Clocks, LenProperties DEF OwedInv
    <3> QED  BY <1>2, <3>1 DEF ReadToTheEnd
  <2>2. CASE tainted
    BY <1>1, <2>1, <2>2, Clocks, LenProperties DEF Kept, Ahead, EndOf, OwedInv
  <2>3. CASE ~tainted
    <3>1. s = Coming
      BY <1>1, <2>3 DEF Kept, Ahead
    <3>2. Len(fifo) \in Nat /\ Len(line) \in Nat /\ fifo \in Seq(Bytes) /\ line \in Seq(Bytes)
      BY Clocks DEF OwedInv
    <3>3. /\ Len(s) = Len(fifo) + Len(line)
          /\ \A j \in 1 .. Len(fifo) + Len(line) :
               s[j] = IF j <= Len(fifo) THEN fifo[j] ELSE line[j - Len(fifo)]
      BY <3>1, <3>2, ConcatProperties DEF Coming
    <3>4. CASE i <= Len(fifo)
      <4>1. i \in 1 .. Len(fifo) /\ s[i] = fifo[i]
        BY <3>2, <3>3, <3>4
      <4> QED  BY <2>1, <4>1 DEF EndOf
    <3>5. CASE ~(i <= Len(fifo))
      <4>1. i - Len(fifo) \in 1 .. Len(line) /\ s[i] = line[i - Len(fifo)]
        BY <3>2, <3>3, <3>5
      <4>2. f = sent
        BY <4>1 DEF EndOf, OwedInv, LineInv
      <4>3. line # << >>
        <5>1. Len(line) # 0
          BY <3>2, <4>1
        <5> QED  BY <5>1, EmptySeq
      <4>4. ~(sent < sent)
        BY DEF OwedInv, BoundsInv, TypeOK
      <4> QED  BY <1>2, <4>2, <4>3, <4>4 DEF ReadToTheEnd
    <3> QED  BY <3>4, <3>5
  <2> QED  BY <2>2, <2>3
<1> QED  BY <1>2 DEF OwedFramesDelivered, OwedInv, GotInv

\* A frame sent on a line without stray or lost bytes is delivered, once and in
\* order, whatever comes after it: stray bytes and an overrun RX buffer included.
THEOREM OwedFramesAreDelivered == Spec => []OwedFramesDelivered
BY OwedInit, OwedStep, OwedIsDelivered, PTL DEF Spec

=============================================================================

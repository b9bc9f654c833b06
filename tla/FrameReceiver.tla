--------------------------- MODULE FrameReceiver ---------------------------
(***************************************************************************)
(* FramedMsgPackReceiver (include/framed-msgpack-receiver.h) as the task   *)
(* uartHandler polls it, and the line it reads: the host writes a frame as *)
(* two bytes of length and a payload, in one burst; stray bytes may come   *)
(* at any time, and a full RX buffer loses bytes.                          *)
(*                                                                         *)
(* A byte has the value that the receiver would take it for as a length,   *)
(* and says which byte of which frame it is, which only the properties     *)
(* read.  An action of the receiver is one call of processStep.            *)
(***************************************************************************)
EXTENDS Integers, Sequences, SequencesExt

CONSTANTS
    Base,        \* values of a byte (256)
    BufSize,     \* _bufSize (CMD_RX_BUF_SIZE)
    ScratchSize, \* kSkipScratchSize
    FifoSize,    \* the RX buffer of the serial driver (HOST_SERIAL_RX_BUF_SIZE)
    GapReset,    \* kFrameGapResetMs
    ClockRange,  \* millis() counts modulo this (2^32)
    MaxPause,    \* longest silence inside a burst of the host
    MaxStall,    \* longest time the task leaves the RX buffer unread
    MaxQuiet,    \* bound: longest silence of the line
    MaxFrames,   \* bound: frames the host sends
    Sizes,       \* payload sizes of these frames
    MaxNoise     \* bound: stray bytes

Values == 0 .. Base - 1
Bytes == [frame : 0 .. MaxFrames, at : Nat, of : Nat, value : Values]
States == {"READ_LEN0", "READ_LEN1", "READ_PAYLOAD", "SKIP_PAYLOAD"}
Frames == 1 .. MaxFrames

(* The task reads the line often enough to tell a pause of a burst from the
   silence after it, and no silence is as long as the clock's period.       *)
ASSUME LineAssumption ==
    /\ {Base, BufSize, ScratchSize, FifoSize, GapReset, ClockRange} \subseteq Nat \ {0}
    /\ {MaxPause, MaxStall, MaxQuiet, MaxFrames, MaxNoise} \subseteq Nat
    /\ Sizes \subseteq Nat
    /\ MaxPause + MaxStall <= GapReset /\ MaxPause <= MaxQuiet
    /\ MaxQuiet + MaxStall < ClockRange

VARIABLES
    state, len, pos, skip, midFrameIdle, buf, \* the receiver
    idleFor,  \* millis() - _midFrameIdleSinceMs as the clock tells it, or 0
              \* when _midFrameIdle is not set and nobody asks
    fifo,     \* RX buffer
    line,     \* bytes of the host's burst that are still to arrive
    quiet,    \* time since a byte arrived
    stall,    \* time since the task found the RX buffer empty
    sent,     \* frames the host has started
    noise,    \* stray bytes so far
    tainted,  \* a byte was stray or lost, and the line was not quiet since
    owed,     \* frames sent on an untainted line that fit the buffer
    got       \* what the handler was called with: a frame, or 0 for debris

receiver == <<state, len, pos, skip, midFrameIdle, buf>>
wire == <<fifo, line, quiet, sent, noise, tainted, owed>>
vars == <<receiver, idleFor, wire, stall, got>>

Stray(v) == [frame |-> 0, at |-> 0, of |-> 0, value |-> v]

Init ==
    /\ state = "READ_LEN0" /\ len = 0 /\ pos = 0 /\ skip = 0
    /\ midFrameIdle = FALSE /\ idleFor = 0
    /\ buf = [i \in 0 .. BufSize - 1 |-> Stray(0)]
    /\ fifo = << >> /\ line = << >>
    /\ quiet = 0 /\ stall = 0 /\ sent = 0 /\ noise = 0
    /\ tainted = FALSE /\ owed = {} /\ got = << >>

-----------------------------------------------------------------------------
(* The line. *)

(* The host starts a frame: its length in two bytes, then a payload whose bytes
   may each look like any length byte (one value stands for all of them).   *)
Frame(f, hi, lo, fill) ==
    LET n == hi * Base + lo
    IN [i \in 1 .. n + 2 |->
          [frame |-> f, at |-> i, of |-> n,
           value |-> IF i = 1 THEN hi ELSE IF i = 2 THEN lo ELSE fill]]

HostWrites ==
    /\ line = << >>
    /\ sent < MaxFrames
    /\ sent' = sent + 1
    /\ \E hi, lo, fill \in Values :
         /\ hi * Base + lo \in Sizes
         /\ line' = Frame(sent + 1, hi, lo, fill)
         /\ owed' = IF ~tainted /\ hi * Base + lo \in 1 .. BufSize
                      THEN owed \cup {sent + 1} ELSE owed
    /\ UNCHANGED <<receiver, idleFor, fifo, quiet, stall, noise, tainted, got>>

(* The frame that is being written is damaged. *)
Taint ==
    /\ tainted' = TRUE
    /\ owed' = IF line = << >> THEN owed ELSE owed \ {sent}

Arrives(b) == fifo' = IF Len(fifo) < FifoSize THEN Append(fifo, b) ELSE fifo

ByteArrives ==
    /\ line # << >>
    /\ Arrives(Head(line))
    /\ line' = Tail(line)
    /\ quiet' = 0
    /\ IF Len(fifo) < FifoSize THEN UNCHANGED <<tainted, owed>> ELSE Taint
    /\ UNCHANGED <<receiver, idleFor, stall, sent, noise, got>>

NoiseArrives ==
    /\ noise < MaxNoise
    /\ noise' = noise + 1
    /\ \E v \in Values : Arrives(Stray(v))
    /\ quiet' = 0
    /\ Taint
    /\ UNCHANGED <<receiver, idleFor, line, stall, sent, got>>

Tick ==
    /\ quiet < (IF line = << >> THEN MaxQuiet ELSE MaxPause)
    /\ stall < MaxStall
    /\ idleFor' = IF midFrameIdle THEN (idleFor + 1) % ClockRange ELSE 0
    /\ quiet' = quiet + 1
    /\ stall' = stall + 1
    /\ tainted' = (tainted /\ quiet' <= GapReset + MaxStall)
    /\ UNCHANGED <<receiver, fifo, line, sent, noise, owed, got>>

-----------------------------------------------------------------------------
(* The receiver. *)

\* MUTANT: a frame cut short is never given up.
GapNeverSeen == FALSE

GapSeen == state # "READ_LEN0" /\ midFrameIdle /\ idleFor > GapReset

(* The state the switch of processStep sees. *)
Stage == IF GapSeen THEN "READ_LEN0" ELSE state

reset ==
    /\ state' = "READ_LEN0"
    /\ len' = 0 /\ pos' = 0 /\ skip' = 0
    /\ midFrameIdle' = FALSE

Least(a, b) == IF a < b THEN a ELSE b

(* readBytes: the first n bytes of the RX buffer. *)
ReadBytes(n) == fifo' = SubSeq(fifo, n + 1, Len(fifo))

(* processStep with an empty RX buffer. *)
FindsNothing ==
    /\ fifo = << >>
    /\ stall' = 0
    /\ IF state # "READ_LEN0" /\ ~midFrameIdle
         THEN midFrameIdle' = TRUE /\ idleFor' = 0
         ELSE UNCHANGED <<midFrameIdle, idleFor>>
    /\ UNCHANGED <<state, len, pos, skip, buf, wire, got>>

Reading(stage) ==
    /\ fifo # << >>
    /\ Stage = stage

HavingRead ==
    /\ idleFor' = IF midFrameIdle' THEN idleFor ELSE 0
    /\ UNCHANGED <<line, quiet, sent, noise, tainted, owed, stall>>

ReadLen0 ==
    /\ Reading("READ_LEN0")
    /\ ReadBytes(1)
    /\ len' = Head(fifo).value * Base
    /\ state' = "READ_LEN1"
    /\ midFrameIdle' = FALSE
    /\ pos' = 0 /\ skip' = 0
    /\ HavingRead
    /\ UNCHANGED <<buf, got>>

\* MUTANT: a payload one byte longer than the buffer is accepted.
ReadLen1TooLong ==
    /\ Reading("READ_LEN1")
    /\ ReadBytes(1)
    /\ LET n == len + Head(fifo).value
       IN \/ n = 0 /\ reset
          \/ /\ n > BufSize + 1
             /\ state' = "SKIP_PAYLOAD" /\ len' = n /\ skip' = n
             /\ midFrameIdle' = FALSE
             /\ UNCHANGED pos
          \/ /\ n \in 1 .. BufSize + 1
             /\ state' = "READ_PAYLOAD" /\ len' = n /\ pos' = 0
             /\ midFrameIdle' = FALSE
             /\ UNCHANGED skip
    /\ HavingRead
    /\ UNCHANGED <<buf, got>>

ReadLen1 ==
    /\ Reading("READ_LEN1")
    /\ ReadBytes(1)
    /\ LET n == len + Head(fifo).value
       IN \/ n = 0 /\ reset
          \/ /\ n > BufSize
             /\ state' = "SKIP_PAYLOAD" /\ len' = n /\ skip' = n
             /\ midFrameIdle' = FALSE
             /\ UNCHANGED pos
          \/ /\ n \in 1 .. BufSize
             /\ state' = "READ_PAYLOAD" /\ len' = n /\ pos' = 0
             /\ midFrameIdle' = FALSE
             /\ UNCHANGED skip
    /\ HavingRead
    /\ UNCHANGED <<buf, got>>

(* What the first n bytes of buffer b are: the payload of a frame, or debris,
   which the handler gets only if it happens to be valid MessagePack.       *)
Content(b, n) ==
    IF \A i \in 0 .. n - 1 :
         b[i].frame = b[0].frame /\ b[i].at = i + 3 /\ b[i].of = n
      THEN b[0].frame ELSE 0

\* MUTANT: every chunk is copied to the start of the buffer.
ReadPayloadOverwrites ==
    /\ Reading("READ_PAYLOAD")
    /\ LET n == Least(Len(fifo), len - pos)
       IN /\ ReadBytes(n)
          /\ buf' = [i \in DOMAIN buf |-> IF i < n THEN fifo[i + 1] ELSE buf[i]]
          /\ \/ /\ pos + n < len
                /\ pos' = pos + n
                /\ midFrameIdle' = FALSE
                /\ UNCHANGED <<state, len, skip, got>>
             \/ /\ pos + n >= len
                /\ reset
                /\ got' = Append(got, Content(buf', len))
    /\ HavingRead

ReadPayload ==
    /\ Reading("READ_PAYLOAD")
    /\ LET n == Least(Len(fifo), len - pos)
       IN /\ ReadBytes(n)
          /\ buf' = [i \in DOMAIN buf |->
                       IF i \in pos .. pos + n - 1 THEN fifo[i - pos + 1] ELSE buf[i]]
          /\ \/ /\ pos + n < len
                /\ pos' = pos + n
                /\ midFrameIdle' = FALSE
                /\ UNCHANGED <<state, len, skip, got>>
             \/ /\ pos + n >= len
                /\ reset
                /\ got' = Append(got, Content(buf', len))
    /\ HavingRead

\* MUTANT: the chunk to skip is not limited by what is left of the frame.
SkipPayloadPastEnd ==
    /\ Reading("SKIP_PAYLOAD")
    /\ LET n == Least(Len(fifo), ScratchSize)
       IN /\ ReadBytes(n)
          /\ \/ /\ skip = n
                /\ reset
             \/ /\ skip # n
                /\ skip' = skip - n
                /\ midFrameIdle' = FALSE
                /\ UNCHANGED <<state, len, pos>>
    /\ HavingRead
    /\ UNCHANGED <<buf, got>>

SkipPayload ==
    /\ Reading("SKIP_PAYLOAD")
    /\ LET n == Least(Least(Len(fifo), skip), ScratchSize)
       IN /\ ReadBytes(n)
          /\ \/ /\ skip = n
                /\ reset
             \/ /\ skip > n
                /\ skip' = skip - n
                /\ midFrameIdle' = FALSE
                /\ UNCHANGED <<state, len, pos>>
    /\ HavingRead
    /\ UNCHANGED <<buf, got>>

processStep == FindsNothing \/ ReadLen0 \/ ReadLen1 \/ ReadPayload \/ SkipPayload

Next == HostWrites \/ ByteArrives \/ NoiseArrives \/ Tick \/ processStep

Spec == Init /\ [][Next]_vars

-----------------------------------------------------------------------------
(* Types of the variables of the receiver and of the line. *)
TypeOK ==
    /\ state \in States
    /\ len \in Nat /\ pos \in Nat /\ skip \in Nat
    /\ midFrameIdle \in BOOLEAN
    /\ idleFor \in 0 .. ClockRange - 1
    /\ buf \in [0 .. BufSize - 1 -> Bytes]
    /\ fifo \in Seq(Bytes) /\ Len(fifo) <= FifoSize
    /\ line \in Seq(Bytes)
    /\ quiet \in 0 .. MaxQuiet /\ stall \in 0 .. MaxStall
    /\ sent \in 0 .. MaxFrames /\ noise \in 0 .. MaxNoise
    /\ tainted \in BOOLEAN
    /\ owed \subseteq Frames
    /\ got \in Seq(0 .. MaxFrames)

(* readBytes in READ_PAYLOAD writes inside the buffer, and in SKIP_PAYLOAD there
   is a byte left to skip: whatever bytes arrive, and wherever the length was
   taken from, the receiver asks for no more than the frame and the buffer
   have (framed-msgpack-receiver.h:131-152).                                *)
NeverOverrun ==
    /\ state = "READ_PAYLOAD" => pos < len /\ len <= BufSize
    /\ state = "SKIP_PAYLOAD" => skip \in 1 .. len /\ len > BufSize

(* All of frame f has arrived and the receiver has read it. *)
ReadToTheEnd(f) ==
    /\ f < sent \/ line = << >>
    /\ \A i \in DOMAIN fifo : fifo[i].frame # f

(* A frame written in one burst, on a line that had no stray or lost byte or was
   quiet since, reaches the handler, once and in order, although the task stalls, the
   burst pauses, frames before it were empty or too long, or a bogus length is being
   skipped when it comes (framed-msgpack-receiver.h:84-112).                *)
OwedFramesDelivered ==
    /\ \A f \in owed : ReadToTheEnd(f) => \E i \in DOMAIN got : got[i] = f
    /\ \A i, j \in DOMAIN got : i < j /\ {got[i], got[j]} \subseteq owed => got[i] < got[j]

(* While the line is untainted the handler is called with a frame the host wrote,
   all of it and nothing else: no left-over of the buffer, no payload taken for a
   length (framed-msgpack-receiver.h:143-172).                              *)
DispatchIsWhole ==
    [][got' # got => tainted \/ Last(got') # 0]_vars
=============================================================================

---------------------------- MODULE SerialParser ----------------------------
(***************************************************************************)
(* The receiving side of AgxEpTelemetrySender: tick_send of                *)
(* telemetry_handler_wp_manager.cpp reads what has arrived on the UART,    *)
(* carries out the raw commands at the front of read_buffer_, then the     *)
(* frames behind them, then writes the state.  Each turn of the two loops  *)
(* of readSerialCommands is a step.                                        *)
(*                                                                         *)
(* What a command does is the subject of TelemetryLink; here it is only    *)
(* recorded, with its data.  The length test frame_len > 1024 and the      *)
(* second test of the start bytes never hold in the code and are left out. *)
(*                                                                         *)
(* The ground station sends one of Scripts, a sequence of chunks: the      *)
(* bytes of a frame or a raw command and the commands they stand for.  A   *)
(* chunk that was damaged on the way, or is noise, is not intact.          *)
(***************************************************************************)
EXTENDS Integers, Sequences, SequencesExt, Functions

CONSTANTS
  Crc(_),        \* crc16_ccitt of a sequence of bytes
  Scripts,       \* what the ground station may send
  BufferSize,    \* READ_BUFFER_SIZE
  ReopenEvery,   \* ticks from one attempt to open the port to the next
  MaxFailures    \* bound: how often the port fails

Bytes == 0..255

\* The bytes of a script on the line.
Line(s) == FlattenSeq([i \in DOMAIN s |-> s[i].bytes])

ASSUME ParserAssumption ==
  /\ \A s \in Scripts : Line(s) \in Seq(Bytes)
  /\ BufferSize \in Nat /\ BufferSize > 263
  /\ ReopenEvery \in Nat /\ ReopenEvery > 0
  /\ MaxFailures \in Nat

EP_SOF1 == 170
EP_SOF2 == 85
EP_VER  == 1

VARIABLES
  script,     \* what the ground station sends
  wire,       \* bytes of it that have not been read
  buf,        \* read_buffer_ up to read_buffer_pos_
  phase,      \* where tick_send is; "idle": between two ticks
  handled,    \* the commands carried out, each with its data
  opened,     \* fd_ >= 0
  retry,      \* ticks with the port closed, modulo ReopenEvery
  failures

portVars == <<opened, retry, failures>>
vars == <<script, wire, buf, phase, handled, portVars>>

Init ==
  /\ script \in Scripts
  /\ wire = Line(script)
  /\ buf = <<>>
  /\ phase = "idle"
  /\ handled = <<>>
  /\ failures \in 0..1 /\ failures <= MaxFailures
  /\ opened = (failures = 0)     \* the constructor may fail to open the port
  /\ retry = 0

Consumed(n) == SubSeq(buf, n + 1, Len(buf))

-----------------------------------------------------------------------------
\* One call of read(); a buffer that is full is dropped first.
Kept == IF Len(buf) >= BufferSize THEN <<>> ELSE buf

ReadSome ==
  /\ phase = "idle" /\ opened
  /\ \E n \in 1..Len(wire) :
       /\ n <= BufferSize - Len(Kept)
       /\ buf' = Kept \o SubSeq(wire, 1, n)
       /\ wire' = SubSeq(wire, n + 1, Len(wire))
  /\ phase' = "raw"
  /\ UNCHANGED <<script, handled, portVars>>

\* Nothing has arrived: the parsers are not run.
ReadNothing ==
  /\ phase = "idle" /\ opened
  /\ buf' = Kept
  /\ phase' = "write"
  /\ UNCHANGED <<script, wire, handled, portVars>>

-----------------------------------------------------------------------------
\* The raw parser: single bytes, some with data behind them, no checksum.
RawCommand ==
  [b \in {10, 11, 32, 37, 38} |->
     CASE b = 10 -> "RAW_ARM"
       [] b = 11 -> "RAW_DISARM"
       [] b = 32 -> "SET_MODE"
       [] b = 37 -> "RAW_WAYPOINT"
       [] b = 38 -> "RAW_SET_BASE"]

RawData == [b \in DOMAIN RawCommand |->
              CASE b = 32 -> 1 [] b = 37 -> 8 [] OTHER -> 0]

AtRawCommand ==
  /\ buf # <<>>
  /\ buf[1] \in DOMAIN RawCommand
  /\ Len(buf) > RawData[buf[1]]

HandleRaw ==
  /\ phase = "raw"
  /\ AtRawCommand
  /\ LET size == 1 + RawData[buf[1]]
     IN /\ handled' = Append(handled,
                             <<RawCommand[buf[1]], SubSeq(buf, 2, size)>>)
        /\ buf' = Consumed(size)
  /\ UNCHANGED <<script, wire, phase, portVars>>

LeaveRaw ==
  /\ phase = "raw"
  /\ ~AtRawCommand
  /\ phase' = "framed"
  /\ UNCHANGED <<script, wire, buf, handled, portVars>>

-----------------------------------------------------------------------------
\* The framed parser: SOF1 SOF2 VER TYPE SEQ LEN payload CRC CRC.
FramedCommand(type, len) ==
  CASE type = 10 /\ len = 0 -> "ARM"
    [] type = 11 /\ len = 0 -> "DISARM"
    [] type = 48 /\ len = 0 -> "HOTAS"
    [] type = 49 /\ len = 0 -> "SHADOW"
    [] type = 50 /\ len = 0 -> "PURSUIT"
    [] type = 51 /\ len = 0 -> "BASE"
    [] type = 34 /\ len = 1 -> "SET_MODE"
    [] type = 35 /\ len = 8 -> "WAYPOINT"
    [] type = 36 /\ len = 0 -> "SET_BASE"
    [] type = 33 /\ len = 8 -> "GOAL"
    [] type = 105 /\ len = 0 -> "FLUSH"
    [] OTHER -> "UNKNOWN"

SofAt(i) == buf[i] = EP_SOF1 /\ buf[i + 1] = EP_SOF2

\* Bytes in front of the first pair of start bytes; all, if there is none.
FindSof ==
  LET at == {i \in 1..(Len(buf) - 1) : SofAt(i)}
  IN IF at = {} THEN Len(buf)
     ELSE (CHOOSE i \in at : \A j \in at : i <= j) - 1

FrameLen == 6 + buf[6] + 2

\* The checksum is over VER to the end of the payload.
CrcOK ==
  Crc(SubSeq(buf, 3, FrameLen - 2)) = buf[FrameLen - 1] + 256 * buf[FrameLen]

\* The loop goes on with a buffer that begins with a header.
AtHeader == phase = "framed" /\ Len(buf) >= 8 /\ FindSof = 0
AtFrame  == AtHeader /\ Len(buf) >= FrameLen

SkipToSof ==
  /\ phase = "framed"
  /\ Len(buf) >= 8
  /\ FindSof > 0
  /\ buf' = Consumed(FindSof)
  /\ UNCHANGED <<script, wire, phase, handled, portVars>>

WaitForMore ==
  /\ \/ phase = "framed" /\ Len(buf) < 8
     \/ AtHeader /\ Len(buf) < FrameLen
  /\ phase' = "write"
  /\ UNCHANGED <<script, wire, buf, handled, portVars>>

\* Variant with a mistake: the loop goes on without having consumed anything.
BadVersionLoops == AtFrame /\ buf[3] # EP_VER /\ UNCHANGED vars
BadVersion ==
  /\ AtFrame
  /\ buf[3] # EP_VER
  /\ buf' = Consumed(2)
  /\ UNCHANGED <<script, wire, phase, handled, portVars>>

BadCrc ==
  /\ AtFrame
  /\ buf[3] = EP_VER
  /\ ~CrcOK
  /\ buf' = Consumed(1)
  /\ UNCHANGED <<script, wire, phase, handled, portVars>>

\* What a frame with a good checksum makes the node do.
CarriedOut ==
  LET name == FramedCommand(buf[4], buf[6])
  IN IF name = "UNKNOWN" THEN handled
     ELSE Append(handled, <<name, SubSeq(buf, 7, FrameLen - 2)>>)

\* Variants with a mistake: no checksum, a frame per tick, a byte too few.
HandleUnchecked ==
  /\ AtFrame /\ buf[3] = EP_VER
  /\ handled' = CarriedOut
  /\ buf' = Consumed(FrameLen)
  /\ UNCHANGED <<script, wire, phase, portVars>>
HandleOnePerTick ==
  /\ AtFrame /\ buf[3] = EP_VER /\ CrcOK
  /\ handled' = CarriedOut
  /\ buf' = Consumed(FrameLen)
  /\ phase' = "write"
  /\ UNCHANGED <<script, wire, portVars>>
HandleShort ==
  /\ AtFrame /\ buf[3] = EP_VER /\ CrcOK
  /\ handled' = CarriedOut
  /\ buf' = Consumed(8)
  /\ UNCHANGED <<script, wire, phase, portVars>>
HandleFrame ==
  /\ AtFrame
  /\ buf[3] = EP_VER
  /\ CrcOK
  /\ handled' = CarriedOut
  /\ buf' = Consumed(FrameLen)
  /\ UNCHANGED <<script, wire, phase, portVars>>

-----------------------------------------------------------------------------
\* The intact chunks the ground station may send: raw commands of at most two
\* bytes, and any frame with a good checksum.  Raw commands come first: the
\* raw parser looks for them at the front of the buffer only, and does not
\* wait for the rest of one that is longer.
IsRaw(c) ==
  /\ c.bytes # <<>>
  /\ c.bytes[1] \in DOMAIN RawCommand
  /\ RawData[c.bytes[1]] < 2
  /\ Len(c.bytes) = 1 + RawData[c.bytes[1]]
  /\ c.says = << <<RawCommand[c.bytes[1]], Tail(c.bytes)>> >>

WellFormed(b) ==
  LET end == Len(b)
  IN /\ end >= 8 /\ end = 8 + b[6]
     /\ b[1] = EP_SOF1 /\ b[2] = EP_SOF2 /\ b[3] = EP_VER
     /\ Crc(SubSeq(b, 3, end - 2)) = b[end - 1] + 256 * b[end]

\* What the command in a frame is, with its data; nothing in an unknown one.
SaidBy(b) ==
  LET name == FramedCommand(b[4], b[6])
  IN IF name = "UNKNOWN" THEN <<>> ELSE << <<name, SubSeq(b, 7, Len(b) - 2)>> >>

IsFrame(c) == WellFormed(c.bytes) /\ c.says = SaidBy(c.bytes)

Chunks == [bytes : Seq(Bytes), says : Seq(STRING \X Seq(Bytes)),
           intact : BOOLEAN]

ASSUME ScriptAssumption ==
  \A s \in Scripts :
    /\ s \in Seq(Chunks)
    /\ \A i \in DOMAIN s : s[i].intact => IsRaw(s[i]) \/ IsFrame(s[i])
    /\ \A i, j \in DOMAIN s : i < j /\ IsRaw(s[j]) => IsRaw(s[i])

-----------------------------------------------------------------------------
\* The state frame is written; write_all closes the port when that fails.
WriteState ==
  /\ phase = "write"
  /\ phase' = "idle"
  /\ UNCHANGED <<script, wire, buf, handled, portVars>>

WriteFails ==
  /\ phase = "write"
  /\ failures < MaxFailures
  /\ failures' = failures + 1
  /\ opened' = FALSE
  /\ phase' = "idle"
  /\ UNCHANGED <<script, wire, buf, handled, retry>>

\* A tick with the port closed; every ReopenEvery-th tries to open it.  An
\* opened port is flushed: what arrived before is lost, the buffer is kept.
Reopen ==
  /\ phase = "idle" /\ ~opened
  /\ retry = 0
  /\ opened' = TRUE
  /\ \E n \in 0..Len(wire) : wire' = SubSeq(wire, n + 1, Len(wire))
  /\ retry' = (retry + 1) % ReopenEvery
  /\ UNCHANGED <<script, buf, phase, handled, failures>>

StayClosed ==
  /\ phase = "idle" /\ ~opened
  /\ retry' = (retry + 1) % ReopenEvery
  /\ UNCHANGED <<script, wire, buf, phase, handled, opened, failures>>

Parse ==
  \/ HandleRaw \/ LeaveRaw
  \/ SkipToSof \/ WaitForMore \/ BadVersion \/ BadCrc \/ HandleFrame

Next ==
  \/ ReadSome \/ ReadNothing
  \/ Parse
  \/ WriteState \/ WriteFails
  \/ Reopen \/ StayClosed

Spec == Init /\ [][Next]_vars

\* The timer goes on, a loop that can go on does, and what was sent arrives.
FairSpec ==
  /\ Spec
  /\ WF_vars(Parse)
  /\ WF_vars(WriteState \/ WriteFails)
  /\ SF_vars(ReadSome)

-----------------------------------------------------------------------------
TypeOK ==
  /\ wire \in Seq(Bytes)
  /\ buf \in Seq(Bytes)
  /\ phase \in {"idle", "raw", "framed", "write"}
  /\ opened \in BOOLEAN
  /\ retry \in 0..(ReopenEvery - 1)
  /\ failures \in 0..MaxFailures

\* The commands the ground station sent, in order.
Sent == FlattenSeq([i \in DOMAIN script |-> script[i].says])

\* No byte has been lost or damaged.
Undisturbed == failures = 0 /\ \A i \in DOMAIN script : script[i].intact

\* No byte of the script is, by itself, a raw command.
RawFree(s) ==
  \A i \in DOMAIN s : Range(s[i].bytes) \cap DOMAIN RawCommand = {}

\* However read() cuts the stream, whenever the port fails and whatever
\* damaged frames are on the line: what is carried out was sent, as a whole,
\* with its data, and in that order.  On a disturbed line this can only be
\* asked where no byte is a raw command, for those have no checksum.
NothingInvented ==
  RawFree(script) \/ Undisturbed =>
  \E f \in [DOMAIN handled -> DOMAIN Sent] :
    /\ \A i, j \in DOMAIN handled : i < j => f[i] < f[j]
    /\ \A i \in DOMAIN handled : handled[i] = Sent[f[i]]

\* Which of n bytes may arrive, as their positions, when the port has lost a
\* part of them up to k times.
WithGap(p) ==
  UNION {{SubSeq(p, 1, a) \o SubSeq(p, a + m + 1, Len(p)) : m \in 0..Len(p)} :
         a \in 0..Len(p)}

Arriving(n) ==
  LET after[k \in 0..MaxFailures] ==
        IF k = 0 THEN {[i \in 1..n |-> i]}
        ELSE UNION {WithGap(p) : p \in after[k - 1]}
  IN after

\* How many bytes of the script come before its j-th chunk.
Before(s, j) == Len(Line(SubSeq(s, 1, j - 1)))

\* The checksum does what it is for, on these scripts: whatever arrives, and
\* passes for a frame with a command, is a frame of the script, at least one
\* byte of which is in its place.
NoForgery ==
  \A s \in Scripts : RawFree(s) =>
    \A k \in 0..MaxFailures : \A p \in Arriving(Len(Line(s)))[k] :
      LET b == [m \in DOMAIN p |-> Line(s)[p[m]]]
      IN \A i \in 0..(Len(b) - 8) :
           LET end   == i + 8 + b[i + 6]
               frame == SubSeq(b, i + 1, end)
           IN end <= Len(b) /\ WellFormed(frame) /\ SaidBy(frame) # <<>> =>
                \E j \in DOMAIN s :
                  /\ IsFrame(s[j]) /\ s[j].bytes = frame
                  /\ \E m \in DOMAIN frame : p[i + m] = Before(s, j) + m

\* On an undisturbed line no frame is skipped either.
HandledInOrder == Undisturbed => IsPrefix(handled, Sent)

\* "READ_BUFFER_SIZE = 512; // bigger buffer to avoid desync": between two
\* ticks the buffer holds less than one frame; so it never fills up and what
\* it holds is never dropped.
LeftoverIsShort ==
  phase \in {"idle", "write"} => Len(buf) < 8 \/ Len(buf) < FrameLen

NeverDropped == phase = "idle" => Kept = buf

\* The two loops of readSerialCommands come to an end on any input: the tick
\* that parses goes on to write the state.
ParserReturns == phase \in {"raw", "framed"} ~> phase = "write"

\* Why they do: a turn of a loop leaves it or consumes something.
ParserAdvances ==
  [][Parse => phase' # phase \/ Len(buf') < Len(buf)]_vars

\* On an undisturbed line every frame is carried out in the end.
AllHandled == <>(handled = Sent \/ ~Undisturbed)
=============================================================================

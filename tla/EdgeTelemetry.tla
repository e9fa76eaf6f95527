--------------------------- MODULE EdgeTelemetry ---------------------------
(***************************************************************************)
(* The node of edge_pilot_telemetry_handler.cpp and the state frames it    *)
(* sends to the edge pilot over the UART, byte by byte.  The node is       *)
(* single-threaded: callbacks and ticks do not overlap.  A tick obeys the  *)
(* commands that were read, then sends one frame, of which write_all may   *)
(* leave a part out.  Frames go out while earlier ones are still under way *)
(* (the rates of ticks and of the line are parameters).                    *)
(*                                                                         *)
(* The edge pilot is not part of the repository; it is taken to read       *)
(* frames the way the node's own framed parser does.  How bytes become     *)
(* commands is the subject of SerialParser, whose parser this node has.    *)
(* Left out: have_fix_ and what else only log lines read (waypoint, base,  *)
(* goal, flush).  Angles are in thousandths of a degree.                   *)
(***************************************************************************)
EXTENDS Integers, Sequences, FiniteSets

CONSTANTS
  Crc(_),       \* crc16_ccitt of a sequence of bytes
  Fixes,        \* <<lat_e7, lon_e7>> the receiver may report
  Yaws,         \* yaw angles of the odometry, -180000..180000
  Velocities,   \* <<mm/s, mrad/s>>, rounded, of /cmd_vel
  Commands,     \* commands the edge pilot may send
  SetModes,     \* the bytes it puts into SET_MODE
  SeqSize,      \* 256, the values of seq_
  ReopenEvery,  \* 50, the ticks between two attempts to open the port
  Parts,        \* bound: how many bytes there may be left of what is cut short
  MaxTicks, MaxEvents, MaxCuts, MaxReads   \* bounds

Within(lo, hi) == {n \in Int : lo <= n /\ n <= hi}

ASSUME EdgeAssumption ==
  /\ Fixes \subseteq Int \X Int
  /\ Yaws \subseteq Within(-180000, 180000)
  /\ Velocities \subseteq Int \X Int
  /\ Commands \subseteq {"ARM", "DISARM", "HOTAS", "SHADOW", "PURSUIT", "BASE",
                         "SET_MODE"}
  /\ SetModes \subseteq 0..255
  /\ SeqSize \in 1..256
  /\ ReopenEvery \in Nat \ {0}
  /\ Parts \subseteq Nat
  /\ {MaxTicks, MaxEvents, MaxCuts, MaxReads} \subseteq Nat

VARIABLES
  mode, arm, fix, heading, linear, angular, seq,   \* members
  opened, retry,       \* fd_ >= 0; retry modulo ReopenEvery
  phase,               \* "reading" from the start of a tick to its frame
  wire,                \* written bytes that have not arrived
  rx,                  \* arrived bytes the edge pilot has not consumed
  sent,                \* the frames that were written as a whole: where in
                       \* rx \o wire each starts and what it says
  odd,                 \* something else was taken for a frame
  skipped,             \* one of sent was not, and its start was consumed
  split,               \* a read has ended between two start bytes
  ticks, events, cuts, reads  \* so far

stateVars  == <<mode, arm, fix, heading, linear, angular>>
portVars   == <<opened, retry>>
pilotVars  == <<rx, odd, skipped, split, reads>>
vars == <<stateVars, seq, portVars, phase, wire, pilotVars, sent,
          ticks, events, cuts>>

Init ==
  /\ mode = 0 /\ arm = 0 /\ fix = <<0, 0>>
  /\ heading = 0 /\ linear = 0 /\ angular = 0 /\ seq = 0
  /\ opened \in BOOLEAN /\ retry = 0 /\ phase = "idle"
  /\ wire = <<>> /\ rx = <<>> /\ sent = {} /\ odd = FALSE /\ skipped = FALSE
  /\ split = FALSE /\ reads = 0
  /\ ticks = 0 /\ events = 0 /\ cuts = 0

Clamp(n, lo, hi) == IF n < lo THEN lo ELSE IF n > hi THEN hi ELSE n

-----------------------------------------------------------------------------
\* The topics.  A fix that is no fix leaves the old position.
Event == phase = "idle" /\ events < MaxEvents /\ events' = events + 1
Elsewhere == UNCHANGED <<seq, portVars, phase, wire, pilotVars, sent,
                         ticks, cuts>>

ClampI32(n) == Clamp(n, -2147483647 - 1, 2147483647)

OnNavsat ==
  /\ Event
  /\ \E f \in Fixes : fix' = <<ClampI32(f[1]), ClampI32(f[2])>>
  /\ UNCHANGED <<mode, arm, heading, linear, angular>> /\ Elsewhere

\* Degrees from 0 to 360, rounded to hundredths.
HeadingOf(yaw) ==
  LET turned == IF yaw < 0 THEN yaw + 360000 ELSE yaw
  IN Clamp((turned + 5) \div 10, 0, 65535)

OnOdom ==
  /\ Event
  /\ \E yaw \in Yaws : heading' = HeadingOf(yaw)
  /\ UNCHANGED <<mode, arm, fix, linear, angular>> /\ Elsewhere

NoClamp(n)  == n       \* variant with a mistake: what does not fit is sent
ClampI16(n) == Clamp(n, -32768, 32767)

OnCmdvel ==
  /\ Event
  /\ \E v \in Velocities :
       linear' = ClampI16(v[1]) /\ angular' = ClampI16(v[2])
  /\ UNCHANGED <<mode, arm, fix, heading>> /\ Elsewhere

-----------------------------------------------------------------------------
BeginTick ==
  /\ phase = "idle" /\ opened
  /\ ticks < MaxTicks
  /\ phase' = "reading" /\ ticks' = ticks + 1
  /\ UNCHANGED <<stateVars, seq, portVars, wire, pilotVars, sent, events, cuts>>

\* The effect of the commands, raw or framed, on the node.
Obeyed(c) ==
  CASE c = "ARM"     -> arm' = 1 /\ UNCHANGED mode
    [] c = "DISARM"  -> arm' = 0 /\ UNCHANGED mode
    [] c = "HOTAS"   -> mode' = 0 /\ UNCHANGED arm
    [] c = "SHADOW"  -> mode' = 1 /\ UNCHANGED arm
    [] c = "PURSUIT" -> mode' = 2 /\ UNCHANGED arm
    [] c = "BASE"    -> mode' = 3 /\ UNCHANGED arm
    [] c = "SET_MODE" -> mode' \in SetModes /\ UNCHANGED arm

Obey ==
  /\ phase = "reading" /\ events < MaxEvents
  /\ \E c \in Commands : Obeyed(c)
  /\ events' = events + 1
  /\ UNCHANGED <<fix, heading, linear, angular, seq, portVars, phase, wire,
                 pilotVars, sent, ticks, cuts>>

-----------------------------------------------------------------------------
\* EP_STAT_MOVING is 0, and so is the status of a vehicle that stands, disarmed.
Faster(n) == n > 10 \/ n < -10
Status == IF Faster(linear) \/ Faster(angular) THEN 0 ELSE arm

\* What the frame of this tick is to say.
State ==
  [seq |-> seq, mode |-> mode, status |-> Status, fix |-> fix, pitch |-> 900,
   heading |-> heading, linear |-> linear, angular |-> angular]

\* The bytes of a number in two's complement, the lowest first.
Bytes2(v) == <<v % 256, (v \div 256) % 256>>
Bytes4(v) == Bytes2(v) \o Bytes2(v \div 65536)

EP_SOF1 == 170
EP_SOF2 == 85
EP_VER  == 1
EP_MSG_STATE == 16

Body(s) ==
  <<EP_VER, EP_MSG_STATE, s.seq, 18, s.mode, s.status>>
    \o Bytes4(s.fix[1]) \o Bytes4(s.fix[2])
    \o Bytes2(s.pitch) \o Bytes2(s.heading)
    \o Bytes2(s.linear) \o Bytes2(s.angular)

Frame(s) == <<EP_SOF1, EP_SOF2>> \o Body(s) \o Bytes2(Crc(Body(s)))

\* write_all writes the whole frame, or a part: it gives up after six tries,
\* or closes the port.
WriteAll(bytes) ==
  \/ /\ wire' = wire \o bytes
     /\ sent' = sent \cup {[at |-> Len(rx) + Len(wire) + 1, says |-> State]}
     /\ UNCHANGED <<cuts, opened>>
  \/ /\ cuts < MaxCuts /\ cuts' = cuts + 1
     /\ \E k \in Parts \cap 0..(Len(bytes) - 1) :
          wire' = wire \o SubSeq(bytes, 1, k)
     /\ opened' \in {opened, FALSE}
     /\ UNCHANGED sent

SendState ==
  /\ phase = "reading"
  /\ WriteAll(Frame(State))
  /\ seq' = (seq + 1) % SeqSize
  /\ phase' = "idle"
  /\ UNCHANGED <<stateVars, retry, pilotVars, ticks, events>>

\* open_serial ends with a tcflush: of the bytes written before the port was
\* closed only some may still arrive.
Flush ==
  \/ UNCHANGED <<wire, sent, cuts>>
  \/ /\ cuts < MaxCuts /\ cuts' = cuts + 1
     /\ \E k \in Parts \cap 0..(Len(wire) - 1) :
          /\ wire' = SubSeq(wire, 1, k)
          /\ sent' = {s \in sent : s.at + 25 <= Len(rx) + k}

\* A tick while the port is closed.
ClosedTick ==
  /\ phase = "idle" /\ ~opened /\ ticks < MaxTicks
  /\ retry' = (retry + 1) % ReopenEvery
  /\ ticks' = ticks + 1
  /\ \/ opened' = FALSE /\ UNCHANGED <<wire, sent, cuts>>
     \/ retry = 0 /\ opened' = TRUE /\ Flush
  /\ UNCHANGED <<stateVars, seq, phase, pilotVars, events>>

-----------------------------------------------------------------------------
\* The edge pilot.  A frame that starts at position i of b.
FrameLen(b, i) == 8 + b[i + 5]

SofAt(b, i) == b[i] = EP_SOF1 /\ b[i + 1] = EP_SOF2

\* Variant with a mistake: any frame will do.
CrcUnchecked(b, i) == SofAt(b, i)
CrcOK(b, i) ==
  LET end == i + FrameLen(b, i) - 1
  IN Crc(SubSeq(b, i + 2, end - 2)) = b[end - 1] + 256 * b[end]

\* The first start of a frame at i or behind it; the end, if there is none.
FindSof(b, i) ==
  LET at == {k \in i..(Len(b) - 1) : SofAt(b, k)}
  IN IF at = {} THEN Len(b) + 1 ELSE CHOOSE k \in at : \A m \in at : k <= m

\* The numbers in two or four bytes from position i on, without and with sign.
UShort(b, i) == b[i] + 256 * b[i + 1]
Short(b, i)  == IF b[i + 1] > 127 THEN UShort(b, i) - 65536 ELSE UShort(b, i)
Long(b, i)   == UShort(b, i) + 65536 * Short(b, i + 2)

\* What a frame with a state that starts at i says.
IsState(b, i) == b[i + 3] = EP_MSG_STATE /\ b[i + 5] = 18

Said(b, i) ==
  [seq |-> b[i + 4], mode |-> b[i + 6], status |-> b[i + 7],
   fix |-> <<Long(b, i + 8), Long(b, i + 12)>>,
   pitch |-> Short(b, i + 16), heading |-> UShort(b, i + 18),
   linear |-> Short(b, i + 20), angular |-> Short(b, i + 22)]

\* Variant with a mistake: what failed the check is dropped as a whole.
DropFrame(b, sof) == sof + FrameLen(b, sof)
Resync(b, sof) == sof + 1

\* One turn of the framed loop, from position r.at on; r.taken are the places
\* of the frames taken so far.  A turn that has to wait for more bytes leaves
\* r.at where it is, or at the start of a frame.
Turn(b, r) ==
  LET sof  == FindSof(b, r.at)
      left == Len(b) + 1 - sof
  IN IF Len(b) + 1 - r.at < 8 THEN r
     ELSE IF left < 8 \/ left < FrameLen(b, sof) THEN [r EXCEPT !.at = sof]
     ELSE IF b[sof + 2] # EP_VER THEN [r EXCEPT !.at = sof + 2]
     ELSE IF ~CrcOK(b, sof) THEN [r EXCEPT !.at = Resync(b, sof)]
     ELSE [at |-> sof + FrameLen(b, sof), taken |-> r.taken \cup {sof}]

\* All turns: each but the last passes a start of a frame.
ReadFrames(b) ==
  LET starts == {k \in 1..(Len(b) - 1) : SofAt(b, k)}
      after[n \in 0..(Cardinality(starts) + 1)] ==
        IF n = 0 THEN [at |-> 1, taken |-> {}] ELSE Turn(b, after[n - 1])
  IN after[Cardinality(starts) + 1]

\* What is taken for a frame at position i of b is one that was written there.
WasSent(b, i) == IsState(b, i) /\ [at |-> i, says |-> Said(b, i)] \in sent

\* The edge pilot reads what has arrived, or a part of it.  (Singleton sets
\* bind what TLC should evaluate only once.)
Arrive ==
  /\ \E n \in 1..Len(wire) :
       /\ n < Len(wire) => reads < MaxReads
       /\ reads' = IF n < Len(wire) THEN reads + 1 ELSE reads
       /\ wire' = SubSeq(wire, n + 1, Len(wire))
       /\ split' = (split \/ (n < Len(wire) /\ SofAt(wire, n)))
       /\ \E b \in {rx \o SubSeq(wire, 1, n)} : \E r \in {ReadFrames(b)} :
            /\ rx' = SubSeq(b, r.at, Len(b))
            /\ odd' = (odd \/ \E i \in r.taken : ~WasSent(b, i))
            /\ skipped' =
                 (skipped \/ \E s \in sent : s.at < r.at /\ s.at \notin r.taken)
            /\ sent' = {[s EXCEPT !.at = s.at + 1 - r.at] :
                          s \in {s \in sent : s.at >= r.at}}
  /\ UNCHANGED <<stateVars, seq, portVars, phase, ticks, events, cuts>>

-----------------------------------------------------------------------------
Next ==
  \/ OnNavsat \/ OnOdom \/ OnCmdvel
  \/ BeginTick \/ Obey \/ SendState \/ ClosedTick
  \/ Arrive

Spec == Init /\ [][Next]_vars

-----------------------------------------------------------------------------
Byte     == 0..255
Int16    == Within(-32768, 32767)
Int32    == Within(-2147483647 - 1, 2147483647)
Headings == Within(0, 36000)     \* a heading may be a full turn

\* The types of all state.
TypeOK ==
  /\ mode \in Byte /\ arm \in {0, 1}
  /\ fix \in Int32 \X Int32 /\ heading \in Headings
  /\ linear \in Int16 /\ angular \in Int16
  /\ seq \in 0..(SeqSize - 1)
  /\ opened \in BOOLEAN /\ retry \in 0..(ReopenEvery - 1)
  /\ phase \in {"idle", "reading"}
  /\ wire \in Seq(Byte) /\ rx \in Seq(Byte)

\* Whatever the edge pilot takes for a frame was written there as a whole and
\* says what the node meant, whatever write_all cut short and tcflush dropped
\* before it: no frame is put together from the parts of two.
OnlyStatesArrive == ~odd

\* A frame that was written as a whole is not passed over, though the header
\* of a frame that was cut short before it announces some of its bytes as its
\* own.  Only a read that ends between two start bytes can make find_sof drop
\* the first.
NothingLost == ~split => ~skipped
=============================================================================

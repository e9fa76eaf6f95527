------------------------------ MODULE MCSerial ------------------------------
(* Small scripts for SerialParser, framed the way the ground station does. *)
EXTENDS SerialParser, Crc16

Frame(type, seq, payload) ==
  LET body == <<EP_VER, type, seq, Len(payload)>> \o payload
      crc  == Crc16Ccitt(body)
  IN <<EP_SOF1, EP_SOF2>> \o body \o <<crc % 256, crc \div 256>>

Chunk(bytes, says) == [bytes |-> bytes, says |-> says, intact |-> TRUE]
DamagedChunk(bytes) == [bytes |-> bytes, says |-> <<>>, intact |-> FALSE]

Arm      == Chunk(Frame(10, 1, <<>>), << <<"ARM", <<>> >> >>)
Disarm   == Chunk(Frame(11, 2, <<>>), << <<"DISARM", <<>> >> >>)
Pursuit  == Chunk(Frame(50, 6, <<>>), << <<"PURSUIT", <<>> >> >>)
Base     == Chunk(Frame(51, 7, <<>>), << <<"BASE", <<>> >> >>)
Mode     == Chunk(Frame(34, 3, <<2>>), << <<"SET_MODE", <<2>> >> >>)
\* A waypoint whose data looks like the start of an ARM frame.
Tricky   == <<170, 85, 1, 10, 1, 0, 10, 11>>
Waypoint == Chunk(Frame(35, 4, Tricky), << <<"WAYPOINT", Tricky>> >>)
Unknown  == Chunk(Frame(99, 5, <<7>>), <<>>)

\* Raw commands.  They are recognised at the front of the buffer only, so the
\* scripts have them in front of the frames.
RawArm   == Chunk(<<10>>, << <<"RAW_ARM", <<>> >> >>)
RawMode  == Chunk(<<32, 2>>, << <<"SET_MODE", <<2>> >> >>)

\* A frame with byte i changed to b, and one that lost byte i.
Damaged(chunk, i, b) == DamagedChunk([chunk.bytes EXCEPT ![i] = b])
Cut(chunk, i) ==
  DamagedChunk(SubSeq(chunk.bytes, 1, i - 1)
                 \o SubSeq(chunk.bytes, i + 1, Len(chunk.bytes)))

MC_CleanLine ==
  { <<Arm, Mode, Waypoint, Disarm>>,
    <<Unknown, Waypoint, Mode, Arm>>,
    <<RawArm, RawMode, Waypoint, Disarm>> }

MC_NoisyLine ==
  { <<Damaged(Pursuit, 4, 49), Mode, Base>>,     \* another type
    <<Damaged(Mode, 7, 3), Pursuit, Mode>>,      \* another payload
    <<Damaged(Mode, 6, 0), Pursuit>>,            \* a length too short
    <<Damaged(Pursuit, 6, 8), Base, Mode>>,      \* a length too long
    <<Damaged(Mode, 3, 2), Base, Mode>>,         \* another version
    <<Cut(Mode, 4), Pursuit, Base>>,             \* a lost byte
    <<Pursuit, Cut(Mode, 7), Base>> }

MC_Lines == MC_CleanLine \cup MC_NoisyLine

\* Of all the streams that can arrive of these scripts.
ASSUME MC_NoForgery == NoForgery
=============================================================================

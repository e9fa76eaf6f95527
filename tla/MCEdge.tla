------------------------------- MODULE MCEdge -------------------------------
(***************************************************************************)
(* A small world for EdgeTelemetry: a position whose bytes look like the   *)
(* start of a frame, extreme velocities, a heading that rounds to a turn.  *)
(* MC_Crc is the CRC of Crc16 by table, which TLC evaluates faster.        *)
(***************************************************************************)
EXTENDS EdgeTelemetry, Crc16

\* The exclusive or of two bytes, from that of their halves.
Nibbles == 0..15
XorNibble ==
  [x \in Nibbles \X Nibbles |->
     LET bit(k) == IF BitOf(x[1], k) = BitOf(x[2], k) THEN 0 ELSE 2^k
     IN bit(0) + bit(1) + bit(2) + bit(3)]
XorByte ==
  [a \in Byte |-> [b \in Byte |->
     16 * XorNibble[<<a \div 16, b \div 16>>] + XorNibble[<<a % 16, b % 16>>]]]

\* The high and the low byte of the CRC of one byte.
High == [a \in Byte |-> Crc16Ccitt(<<a>>) \div 256]
Low  == [a \in Byte |-> Crc16Ccitt(<<a>>) % 256]

MC_Crc(data) ==
  LET next(crc, byte) ==
        LET index == XorByte[crc \div 256][byte]
        IN 256 * XorByte[crc % 256][High[index]] + Low[index]
      crc[k \in 0..Len(data)] == IF k = 0 THEN 0 ELSE next(crc[k - 1], data[k])
  IN crc[Len(data)]

MC_Fixes == {<<268522922, -1798572777>>}
MC_Yaws  == {-1}
MC_Velocities == {<<40000, -40000>>}
MC_Commands == {"ARM", "SET_MODE"}

ASSUME TableIsCrc ==
  \A a, b \in {0, 1, 85, 127, 170, 255} :
    \A data \in {<<>>, <<a>>, <<a, b>>, <<b, 7, a, 85, b, 200, 3>>} :
      MC_Crc(data) = Crc16Ccitt(data)
=============================================================================

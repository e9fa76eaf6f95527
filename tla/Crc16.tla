------------------------------- MODULE Crc16 -------------------------------
(***************************************************************************)
(* crc16_ccitt of telemetry_handler_wp_manager.cpp: polynomial 0x1021,     *)
(* start value 0, the bits of a byte from the highest to the lowest.  The  *)
(* code adds a byte to the high half of the register and then shifts eight *)
(* times; here each bit is added when it is its turn to be shifted out.    *)
(***************************************************************************)
EXTENDS Integers, Sequences

Word == 0..(2^16 - 1)

BitOf(n, k) == (n \div 2^k) % 2
Flip(n, k)  == IF BitOf(n, k) = 1 THEN n - 2^k ELSE n + 2^k

\* crc ^ CRC_POLY: the polynomial has the bits 12, 5 and 0.
AddPoly(crc) == Flip(Flip(Flip(crc, 12), 5), 0)

\* The k-th bit of the data, from 1 on.
InBit(data, k) == BitOf(data[((k - 1) \div 8) + 1], 7 - ((k - 1) % 8))

Crc16Ccitt(data) ==
  LET shift[in \in Word \X {0, 1}] ==
        LET shifted == (2 * in[1]) % 65536
        IN IF BitOf(in[1], 15) = in[2] THEN shifted ELSE AddPoly(shifted)
      crc[k \in 0..(8 * Len(data))] ==
        IF k = 0 THEN 0 ELSE shift[<<crc[k - 1], InBit(data, k)>>]
  IN crc[8 * Len(data)]
=============================================================================

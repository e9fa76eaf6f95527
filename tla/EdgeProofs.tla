----------------------------- MODULE EdgeProofs -----------------------------
(***************************************************************************)
(* Theorems about EdgeTelemetry: types, that frames which write_all has    *)
(* written as a whole are all recognised, as they were sent, and that none *)
(* is lost behind a frame that was cut short, as long as nothing is taken  *)
(* for a frame that is none.                                               *)
(*                                                                         *)
(* The first part is about numbers and their bytes, the second about the   *)
(* frame as it is written and about crc16_ccitt, the third about a turn of *)
(* the framed loop on any bytes.  The loop is a recursive function over    *)
(* 0..n: Recursion says that such a function exists, UpTo is induction     *)
(* over the interval.  The fourth part follows the places of the frames    *)
(* through the turns (InTurn, InTile) and through what the steps do to the *)
(* bytes; the last one has the inductive invariant EdgeInv.                *)
(***************************************************************************)
EXTENDS EdgeTelemetry, Crc16, FiniteSetTheorems,
        SequenceTheorems, WellFoundedInduction, TLAPS

UInt16 == Within(0, 65535)

LEMMA ByteIsInt == \A n \in Byte : n \in Int /\ 0 <= n
BY DEF Byte

-----------------------------------------------------------------------------
\* A number v is its high part q and its low part r.
DivMod(v, n, q, r) ==
  v = n * q + r /\ 0 <= r /\ r < n /\ q = v \div n /\ r = v % n

LEMMA BytePart ==
  ASSUME NEW v \in Int  PROVE \E q, r \in Int : DivMod(v, 256, q, r)
<1>1. PICK q \in Int : q = v \div 256 BY SMT
<1>2. PICK r \in Int : r = v % 256 BY SMT
<1>3. v = 256 * q + r /\ 0 <= r /\ r < 256 BY SMT, <1>1, <1>2
<1>. QED BY <1>1, <1>2, <1>3 DEF DivMod

LEMMA WordPart ==
  ASSUME NEW v \in Int  PROVE \E q, r \in Int : DivMod(v, 65536, q, r)
<1>1. PICK q \in Int : q = v \div 65536 BY SMT
<1>2. PICK r \in Int : r = v % 65536 BY SMT
<1>3. v = 65536 * q + r /\ 0 <= r /\ r < 65536 BY SMT, <1>1, <1>2
<1>. QED BY SMT, <1>1, <1>2, <1>3 DEF DivMod

\* What two bytes x and y stand for.
LEMMA UShortValue ==
  ASSUME NEW v \in Int, 0 <= v, v <= 65535, NEW x \in Int, NEW y \in Int,
         x = v % 256, y = (v \div 256) % 256
  PROVE  x + 256 * y = v
<1>1. PICK q, r \in Int : DivMod(v, 256, q, r) BY SMT, BytePart
<1>2. v = 256 * q + r /\ 0 <= r /\ r < 256 /\ q = v \div 256 /\ r = v % 256
  BY SMT, <1>1 DEF DivMod
<1>3. q >= 0 BY SMT, <1>2
<1>4. q <= 255 BY SMT, <1>2
<1>5. y = q BY SMT, <1>2, <1>3, <1>4
<1>. QED BY SMT, <1>2, <1>5

LEMMA ShortValue ==
  ASSUME NEW v \in Int, v >= -32768, v <= 32767, NEW x \in Int, NEW y \in Int,
         x = v % 256, y = (v \div 256) % 256
  PROVE  (IF y > 127 THEN (x + 256 * y) - 65536 ELSE x + 256 * y) = v
<1>1. PICK q, r \in Int : DivMod(v, 256, q, r) BY SMT, BytePart
<1>2. v = 256 * q + r /\ 0 <= r /\ r < 256 /\ q = v \div 256 /\ r = v % 256
  BY SMT, <1>1 DEF DivMod
<1>3. q >= -128 BY SMT, <1>2
<1>4. q <= 127 BY SMT, <1>2
<1>5. y = IF q >= 0 THEN q ELSE q + 256 BY SMT, <1>2, <1>3, <1>4
<1>. QED BY SMT, <1>2, <1>3, <1>4, <1>5

\* The bytes of the low half are the lower bytes.
LEMMA LowHalf ==
  ASSUME NEW v \in Int
  PROVE  \E h, w \in Int : /\ v = 65536 * h + w /\ 0 <= w /\ w <= 65535
                          /\ h = v \div 65536
                          /\ w % 256 = v % 256
                          /\ (w \div 256) % 256 = (v \div 256) % 256
<1>1. PICK h, w \in Int : DivMod(v, 65536, h, w) BY SMT, WordPart
<1>2. v = 65536 * h + w /\ 0 <= w /\ w <= 65535 /\ h = v \div 65536
  BY SMT, <1>1 DEF DivMod
<1>3. PICK q, r \in Int : DivMod(w, 256, q, r) BY SMT, BytePart
<1>4. PICK p, s \in Int : DivMod(v, 256, p, s) BY SMT, BytePart
<1>5. /\ w = 256 * q + r /\ 0 <= r /\ r < 256 /\ q = w \div 256 /\ r = w % 256
      /\ v = 256 * p + s /\ 0 <= s /\ s < 256 /\ p = v \div 256 /\ s = v % 256
  BY SMT, <1>3, <1>4 DEF DivMod
<1>6. p = 256 * h + q /\ r = s BY SMT, <1>2, <1>5
<1>7. p % 256 = q % 256 BY SMT, <1>6
<1>. QED BY SMT, <1>2, <1>5, <1>6, <1>7

LEMMA HighHalf ==
  ASSUME NEW v \in Int, v >= -2147483647 - 1, v <= 2147483647
  PROVE  -32768 <= v \div 65536 /\ v \div 65536 <= 32767
<1>1. PICK h, w \in Int : DivMod(v, 65536, h, w) BY SMT, WordPart
<1>2. v = 65536 * h + w /\ 0 <= w /\ w <= 65535 /\ h = v \div 65536
  BY SMT, <1>1 DEF DivMod
<1>3. h >= -32768 BY SMT, <1>2
<1>4. h <= 32767 BY SMT, <1>2
<1>. QED BY SMT, <1>2, <1>3, <1>4

-----------------------------------------------------------------------------
\* The bytes of a number are at a position of a sequence.
Holds2(b, i, v) == b[i] = v % 256 /\ b[i + 1] = (v \div 256) % 256
Holds4(b, i, v) == Holds2(b, i, v) /\ Holds2(b, i + 2, v \div 65536)

LEMMA UShortRead ==
  ASSUME NEW v \in Int, 0 <= v, v <= 65535, NEW b, NEW i \in Nat,
         b[i] \in Int, b[i + 1] \in Int, Holds2(b, i, v)
  PROVE  UShort(b, i) = v
<1>1. b[i] = v % 256 /\ b[i + 1] = (v \div 256) % 256 BY DEF Holds2
<1>2. b[i] + 256 * b[i + 1] = v BY <1>1, UShortValue
<1>. QED BY <1>2 DEF UShort

LEMMA ShortRead ==
  ASSUME NEW v \in Int, v >= -32768, v <= 32767, NEW b, NEW i \in Nat,
         b[i] \in Int, b[i + 1] \in Int, Holds2(b, i, v)
  PROVE  Short(b, i) = v
<1>1. b[i] = v % 256 /\ b[i + 1] = (v \div 256) % 256 BY DEF Holds2
<1>2. (IF b[i + 1] > 127 THEN (b[i] + 256 * b[i + 1]) - 65536
       ELSE b[i] + 256 * b[i + 1]) = v
  BY <1>1, ShortValue
<1>. QED BY <1>2 DEF Short, UShort

LEMMA LongRead ==
  ASSUME NEW v \in Int32, NEW b, NEW i \in Nat,
         \A k \in i..(i + 3) : b[k] \in Int, Holds4(b, i, v)
  PROVE  Long(b, i) = v
<1>1. v \in Int BY SMT DEF Int32, Within
<1>2. PICK h, w \in Int :
        /\ v = 65536 * h + w /\ 0 <= w /\ w <= 65535 /\ h = v \div 65536
        /\ w % 256 = v % 256
        /\ (w \div 256) % 256 = (v \div 256) % 256
  BY SMT, <1>1, LowHalf
<1>3. Holds2(b, i, w) BY <1>2 DEF Holds4, Holds2
<1>4. Holds2(b, i + 2, h) BY <1>2 DEF Holds4
<1>5. /\ b[i] \in Int /\ b[i + 1] \in Int /\ b[i + 2] \in Int
      /\ b[(i + 2) + 1] \in Int /\ i + 2 \in Nat
  OBVIOUS
<1>6. UShort(b, i) = w BY <1>2, <1>3, <1>5, UShortRead
<1>7. h >= -32768 /\ h <= 32767
  <2>1. v >= -2147483647 - 1 /\ v <= 2147483647 BY SMT DEF Int32, Within
  <2>2. -32768 <= v \div 65536 /\ v \div 65536 <= 32767
    BY SMT, <1>1, <2>1, HighHalf
  <2>. QED BY SMT, <1>2, <2>2
<1>8. Short(b, i + 2) = h BY <1>4, <1>5, <1>7, ShortRead
<1>9. v = w + 65536 * h BY <1>2
<1>. QED BY <1>6, <1>8, <1>9 DEF Long

-----------------------------------------------------------------------------
\* b is a with something behind it.
Continues(b, a) ==
  b \in Seq(Byte) /\ Len(b) >= Len(a) /\ \A k \in 1..Len(a) : b[k] = a[k]

LEMMA ConcatBytes ==
  ASSUME NEW a \in Seq(Byte), NEW c \in Seq(Byte)
  PROVE  /\ a \o c \in Seq(Byte) /\ Len(a \o c) = Len(a) + Len(c)
         /\ Continues(a \o c, a)
         /\ \A k \in 1..Len(c) : (a \o c)[Len(a) + k] = c[k]
BY DEF Continues

LEMMA ContinuesOn ==
  ASSUME NEW a \in Seq(Byte), NEW b, NEW c, Continues(b, a), Continues(c, b)
  PROVE  Continues(c, a)
<1>1. b \in Seq(Byte) /\ c \in Seq(Byte) BY DEF Continues
<1>. QED BY <1>1 DEF Continues

LEMMA HoldsOn2 ==
  ASSUME NEW a \in Seq(Byte), NEW b, Continues(b, a), NEW v, NEW i \in Nat,
         1 <= i, i + 1 <= Len(a), Holds2(a, i, v)
  PROVE  Holds2(b, i, v)
<1>1. b[i] = a[i] /\ b[i + 1] = a[i + 1] BY DEF Continues
<1>. QED BY <1>1 DEF Holds2

LEMMA HoldsOn4 ==
  ASSUME NEW a \in Seq(Byte), NEW b, Continues(b, a), NEW v, NEW i \in Nat,
         1 <= i, i + 3 <= Len(a), Holds4(a, i, v)
  PROVE  Holds4(b, i, v)
<1>1. i + 2 \in Nat /\ 1 <= i + 2 /\ (i + 2) + 1 <= Len(a) /\ i + 1 <= Len(a)
  OBVIOUS
<1>2. Holds2(a, i, v) /\ Holds2(a, i + 2, v \div 65536) BY DEF Holds4
<1>3. Holds2(b, i, v) BY <1>1, <1>2, HoldsOn2
<1>4. Holds2(b, i + 2, v \div 65536) BY <1>1, <1>2, HoldsOn2
<1>. QED BY <1>3, <1>4 DEF Holds4

LEMMA TwoBytes ==
  ASSUME NEW v \in Int
  PROVE  /\ Bytes2(v) \in Seq(Byte) /\ Len(Bytes2(v)) = 2
         /\ Bytes2(v)[1] = v % 256 /\ Bytes2(v)[2] = (v \div 256) % 256
<1>1. v % 256 \in Byte /\ (v \div 256) % 256 \in Byte BY SMT DEF Byte
<1>. QED BY <1>1 DEF Bytes2

LEMMA HighIsInt == \A v \in Int : v \div 65536 \in Int
BY SMT

LEMMA Write2 ==
  ASSUME NEW a \in Seq(Byte), NEW v \in Int
  PROVE  /\ Continues(a \o Bytes2(v), a) /\ Len(a \o Bytes2(v)) = Len(a) + 2
         /\ Holds2(a \o Bytes2(v), Len(a) + 1, v)
<1> DEFINE c == Bytes2(v)
           b == a \o c
<1>1. /\ c \in Seq(Byte) /\ Len(c) = 2
      /\ c[1] = v % 256 /\ c[2] = (v \div 256) % 256
  BY TwoBytes
<1> HIDE DEF c
<1>2. /\ Len(b) = Len(a) + 2 /\ Continues(b, a)
      /\ \A k \in 1..2 : b[Len(a) + k] = c[k]
  <2>1. /\ Len(b) = Len(a) + Len(c) /\ Continues(b, a)
        /\ \A k \in 1..Len(c) : b[Len(a) + k] = c[k]
    BY <1>1, ConcatBytes
  <2>. HIDE DEF b
  <2>. QED BY <1>1, <2>1
<1>3. b[Len(a) + 1] = c[1] /\ b[(Len(a) + 1) + 1] = c[2]
  <2>1. Len(a) \in Nat /\ (Len(a) + 1) + 1 = Len(a) + 2 OBVIOUS
  <2>. HIDE DEF b
  <2>. QED BY <1>2, <2>1
<1> HIDE DEF b
<1>4. Holds2(b, Len(a) + 1, v) BY <1>1, <1>3 DEF Holds2
<1>. QED BY <1>2, <1>4 DEF b, c

LEMMA Write4 ==
  ASSUME NEW a \in Seq(Byte), NEW v \in Int
  PROVE  /\ Continues(a \o Bytes4(v), a) /\ Len(a \o Bytes4(v)) = Len(a) + 4
         /\ Holds4(a \o Bytes4(v), Len(a) + 1, v)
<1>0. PICK h \in Int : h = v \div 65536 BY HighIsInt
<1> DEFINE b == a \o Bytes2(v)
           c == b \o Bytes2(h)
<1>1. Continues(b, a) /\ Len(b) = Len(a) + 2 /\ Holds2(b, Len(a) + 1, v)
  BY Write2
<1>2. b \in Seq(Byte) BY <1>1 DEF Continues
<1>3. a \o Bytes4(v) = c
  <2>1. Bytes2(v) \in Seq(Byte) /\ Bytes2(h) \in Seq(Byte) BY TwoBytes
  <2>2. Bytes4(v) = Bytes2(v) \o Bytes2(h) BY <1>0 DEF Bytes4
  <2>. QED BY <2>1, <2>2
<1> HIDE DEF b
<1>4. Continues(c, b) /\ Len(c) = Len(b) + 2 /\ Holds2(c, Len(b) + 1, h)
  BY <1>2, Write2
<1> HIDE DEF c
<1>5. Continues(c, a) BY <1>1, <1>4, ContinuesOn
<1>6. Holds2(c, Len(a) + 1, v) BY <1>1, <1>2, <1>4, HoldsOn2
<1>7. Len(c) = Len(a) + 4 /\ Len(b) + 1 = (Len(a) + 1) + 2
  BY <1>1, <1>4
<1>8. Holds4(c, Len(a) + 1, v) BY <1>0, <1>4, <1>6, <1>7 DEF Holds4
<1>. QED BY <1>3, <1>5, <1>7, <1>8

-----------------------------------------------------------------------------
\* The states a frame may be about.
States ==
  [seq : Byte, mode : Byte, status : {0, 1}, fix : Int32 \X Int32,
   pitch : {900}, heading : UInt16, linear : Int16, angular : Int16]

\* A state is written to b from its version byte, at o + 1, on.
Written(b, o, s) ==
  /\ b[o + 1] = EP_VER /\ b[o + 2] = EP_MSG_STATE
  /\ b[o + 3] = s.seq /\ b[o + 4] = 18
  /\ b[o + 5] = s.mode /\ b[o + 6] = s.status
  /\ Holds4(b, o + 7, s.fix[1]) /\ Holds4(b, o + 11, s.fix[2])
  /\ Holds2(b, o + 15, s.pitch) /\ Holds2(b, o + 17, s.heading)
  /\ Holds2(b, o + 19, s.linear) /\ Holds2(b, o + 21, s.angular)

LEMMA StateTypes ==
  ASSUME NEW s \in States
  PROVE  /\ s.seq \in Byte /\ s.mode \in Byte /\ s.status \in Byte
         /\ s.fix[1] \in Int /\ s.fix[2] \in Int
         /\ s.pitch \in Int /\ s.heading \in Int
         /\ s.linear \in Int /\ s.angular \in Int
<1>1. s.seq \in Byte /\ s.mode \in Byte /\ s.status \in {0, 1} /\ s.pitch = 900
      /\ s.fix \in Int32 \X Int32 /\ s.heading \in UInt16
      /\ s.linear \in Int16 /\ s.angular \in Int16
  BY DEF States
<1>2. s.fix[1] \in Int32 /\ s.fix[2] \in Int32 BY <1>1
<1>3. \A n \in Int32 : n \in Int BY SMT DEF Int32, Within
<1>4. s.status \in Byte BY <1>1 DEF Byte
<1>5. s.heading \in Int /\ s.linear \in Int /\ s.angular \in Int
  <2>1. \A n \in UInt16 : n \in Int BY DEF UInt16, Within
  <2>2. \A n \in Int16 : n \in Int BY DEF Int16, Within
  <2>. QED BY <1>1, <2>1, <2>2
<1>. QED BY <1>1, <1>2, <1>3, <1>4, <1>5

LEMMA BodyWritten ==
  ASSUME NEW s \in States
  PROVE  Body(s) \in Seq(Byte) /\ Len(Body(s)) = 22 /\ Written(Body(s), 0, s)
<1> DEFINE b0 == <<EP_VER, EP_MSG_STATE, s.seq, 18, s.mode, s.status>>
           b1 == b0 \o Bytes4(s.fix[1])
           b2 == b1 \o Bytes4(s.fix[2])
           b3 == b2 \o Bytes2(s.pitch)
           b4 == b3 \o Bytes2(s.heading)
           b5 == b4 \o Bytes2(s.linear)
           b6 == b5 \o Bytes2(s.angular)
<1>0. Body(s) = b6 BY DEF Body
<1>t. /\ s.seq \in Byte /\ s.mode \in Byte /\ s.status \in Byte
      /\ s.fix[1] \in Int /\ s.fix[2] \in Int
      /\ s.pitch \in Int /\ s.heading \in Int
      /\ s.linear \in Int /\ s.angular \in Int
  BY StateTypes
<1>1. /\ b0 \in Seq(Byte) /\ Len(b0) = 6
      /\ b0[1] = EP_VER /\ b0[2] = EP_MSG_STATE /\ b0[3] = s.seq /\ b0[4] = 18
      /\ b0[5] = s.mode /\ b0[6] = s.status
  <2>1. EP_VER \in Byte /\ EP_MSG_STATE \in Byte /\ 18 \in Byte
    BY DEF EP_VER, EP_MSG_STATE, Byte
  <2>. QED BY <2>1, StateTypes
<1> HIDE DEF b0
<1>2. /\ b1 \in Seq(Byte) /\ Continues(b1, b0)
      /\ Len(b1) = 10 /\ Holds4(b1, 7, s.fix[1])
  <2>1. /\ Continues(b1, b0) /\ Len(b1) = Len(b0) + 4
        /\ Holds4(b1, Len(b0) + 1, s.fix[1])
    BY <1>t, <1>1, Write4
  <2>. HIDE DEF b1
  <2>2. Len(b0) + 1 = 7 /\ Len(b0) + 4 = 10 BY <1>1
  <2>. QED BY <2>1, <2>2 DEF Continues
<1> HIDE DEF b1
<1>3. /\ b2 \in Seq(Byte) /\ Continues(b2, b1)
      /\ Len(b2) = 14 /\ Holds4(b2, 11, s.fix[2])
  <2>1. /\ Continues(b2, b1) /\ Len(b2) = Len(b1) + 4
        /\ Holds4(b2, Len(b1) + 1, s.fix[2])
    BY <1>t, <1>2, Write4
  <2>. HIDE DEF b2
  <2>2. Len(b1) + 1 = 11 /\ Len(b1) + 4 = 14 BY <1>2
  <2>. QED BY <2>1, <2>2 DEF Continues
<1> HIDE DEF b2
<1>4. /\ b3 \in Seq(Byte) /\ Continues(b3, b2)
      /\ Len(b3) = 16 /\ Holds2(b3, 15, s.pitch)
  <2>1. /\ Continues(b3, b2) /\ Len(b3) = Len(b2) + 2
        /\ Holds2(b3, Len(b2) + 1, s.pitch)
    BY <1>t, <1>3, Write2
  <2>. HIDE DEF b3
  <2>2. Len(b2) + 1 = 15 /\ Len(b2) + 2 = 16 BY <1>3
  <2>. QED BY <2>1, <2>2 DEF Continues
<1> HIDE DEF b3
<1>5. /\ b4 \in Seq(Byte) /\ Continues(b4, b3)
      /\ Len(b4) = 18 /\ Holds2(b4, 17, s.heading)
  <2>1. /\ Continues(b4, b3) /\ Len(b4) = Len(b3) + 2
        /\ Holds2(b4, Len(b3) + 1, s.heading)
    BY <1>t, <1>4, Write2
  <2>. HIDE DEF b4
  <2>2. Len(b3) + 1 = 17 /\ Len(b3) + 2 = 18 BY <1>4
  <2>. QED BY <2>1, <2>2 DEF Continues
<1> HIDE DEF b4
<1>6. /\ b5 \in Seq(Byte) /\ Continues(b5, b4)
      /\ Len(b5) = 20 /\ Holds2(b5, 19, s.linear)
  <2>1. /\ Continues(b5, b4) /\ Len(b5) = Len(b4) + 2
        /\ Holds2(b5, Len(b4) + 1, s.linear)
    BY <1>t, <1>5, Write2
  <2>. HIDE DEF b5
  <2>2. Len(b4) + 1 = 19 /\ Len(b4) + 2 = 20 BY <1>5
  <2>. QED BY <2>1, <2>2 DEF Continues
<1> HIDE DEF b5
<1>7. /\ b6 \in Seq(Byte) /\ Continues(b6, b5)
      /\ Len(b6) = 22 /\ Holds2(b6, 21, s.angular)
  <2>1. /\ Continues(b6, b5) /\ Len(b6) = Len(b5) + 2
        /\ Holds2(b6, Len(b5) + 1, s.angular)
    BY <1>t, <1>6, Write2
  <2>. HIDE DEF b6
  <2>2. Len(b5) + 1 = 21 /\ Len(b5) + 2 = 22 BY <1>6
  <2>. QED BY <2>1, <2>2 DEF Continues
<1> HIDE DEF b6
<1>8. /\ Continues(b6, b4) /\ Continues(b6, b3) /\ Continues(b6, b2)
      /\ Continues(b6, b1) /\ Continues(b6, b0)
  <2>1. Continues(b6, b4) BY <1>5, <1>6, <1>7, ContinuesOn
  <2>2. Continues(b6, b3) BY <1>4, <1>5, <2>1, ContinuesOn
  <2>3. Continues(b6, b2) BY <1>3, <1>4, <2>2, ContinuesOn
  <2>4. Continues(b6, b1) BY <1>2, <1>3, <2>3, ContinuesOn
  <2>5. Continues(b6, b0) BY <1>1, <1>2, <2>4, ContinuesOn
  <2>. QED BY <2>1, <2>2, <2>3, <2>4, <2>5
<1>9. Holds4(b6, 7, s.fix[1])
  <2>1. 7 \in Nat /\ 1 <= 7 /\ 7 + 3 <= Len(b1) BY <1>2
  <2>. QED BY <1>2, <1>8, <2>1, HoldsOn4
<1>10. Holds4(b6, 11, s.fix[2])
  <2>1. 11 \in Nat /\ 1 <= 11 /\ 11 + 3 <= Len(b2) BY <1>3
  <2>. QED BY <1>3, <1>8, <2>1, HoldsOn4
<1>11. Holds2(b6, 15, s.pitch)
  <2>1. 15 \in Nat /\ 1 <= 15 /\ 15 + 1 <= Len(b3) BY <1>4
  <2>. QED BY <1>4, <1>8, <2>1, HoldsOn2
<1>12. Holds2(b6, 17, s.heading)
  <2>1. 17 \in Nat /\ 1 <= 17 /\ 17 + 1 <= Len(b4) BY <1>5
  <2>. QED BY <1>5, <1>8, <2>1, HoldsOn2
<1>13. Holds2(b6, 19, s.linear)
  <2>1. 19 \in Nat /\ 1 <= 19 /\ 19 + 1 <= Len(b5) BY <1>6
  <2>. QED BY <1>6, <1>7, <2>1, HoldsOn2
<1>14. \A k \in 1..6 : b6[k] = b0[k] BY <1>1, <1>8 DEF Continues
<1>15. Written(b6, 0, s)
  <2>1. /\ b6[1] = EP_VER /\ b6[2] = EP_MSG_STATE /\ b6[3] = s.seq
        /\ b6[4] = 18 /\ b6[5] = s.mode /\ b6[6] = s.status
    BY <1>1, <1>14
  <2>2. /\ 0 + 1 = 1 /\ 0 + 2 = 2 /\ 0 + 3 = 3 /\ 0 + 4 = 4 /\ 0 + 5 = 5
        /\ 0 + 6 = 6 /\ 0 + 7 = 7 /\ 0 + 11 = 11 /\ 0 + 15 = 15
        /\ 0 + 17 = 17 /\ 0 + 19 = 19 /\ 0 + 21 = 21
    OBVIOUS
  <2>. QED BY <1>7, <1>9, <1>10, <1>11, <1>12, <1>13, <2>1, <2>2 DEF Written
<1>. QED BY <1>0, <1>7, <1>15

-----------------------------------------------------------------------------
\* A checksum is a number of 16 bits, as crc16_ccitt returns.
Crc16Bit == \A b \in Seq(Byte) : Crc(b) \in UInt16

LEMMA Element ==
  ASSUME NEW c \in Seq(Byte), NEW k \in Nat, 1 <= k, k <= Len(c)
  PROVE  c[k] \in Byte
OBVIOUS

LEMMA Part ==
  ASSUME NEW c \in Seq(Byte), NEW m \in Nat, NEW n \in Nat,
         1 <= m, m <= n, n <= Len(c)
  PROVE  /\ SubSeq(c, m, n) \in Seq(Byte)
         /\ Len(SubSeq(c, m, n)) = (n - m) + 1
         /\ \A k \in 1..((n - m) + 1) : SubSeq(c, m, n)[k] = c[(m + k) - 1]
OBVIOUS

LEMMA SameBytes ==
  ASSUME NEW y \in Seq(Byte), NEW z \in Seq(Byte), Len(y) = Len(z),
         \A k \in 1..Len(z) : y[k] = z[k]
  PROVE  y = z
OBVIOUS

\* The whole frame: start, body, checksum.
LEMMA FrameWritten ==
  ASSUME Crc16Bit, NEW s \in States
  PROVE  /\ Frame(s) \in Seq(Byte) /\ Len(Frame(s)) = 26
         /\ Frame(s)[1] = EP_SOF1 /\ Frame(s)[2] = EP_SOF2
         /\ Written(Frame(s), 2, s)
         /\ SubSeq(Frame(s), 3, 24) = Body(s)
         /\ UShort(Frame(s), 25) = Crc(Body(s))
<1> DEFINE body == Body(s)
           sum == Crc(body)
           sof == <<EP_SOF1, EP_SOF2>>
           b == sof \o body
           c == b \o Bytes2(sum)
<1>0. Frame(s) = c BY DEF Frame
<1>1. body \in Seq(Byte) /\ Len(body) = 22 /\ Written(body, 0, s)
  BY BodyWritten
<1> HIDE DEF body
<1>2. sum \in UInt16 BY <1>1 DEF Crc16Bit
<1> HIDE DEF sum
<1>s. sum \in Int BY <1>2 DEF UInt16, Within
<1>3. 0 <= sum /\ sum <= 65535 BY <1>2 DEF UInt16, Within
<1>4. sof \in Seq(Byte) /\ Len(sof) = 2 /\ sof[1] = EP_SOF1 /\ sof[2] = EP_SOF2
  BY DEF EP_SOF1, EP_SOF2, Byte
<1> HIDE DEF sof
<1>5. /\ b \in Seq(Byte) /\ Len(b) = 24 /\ Continues(b, sof)
      /\ \A k \in 1..22 : b[2 + k] = body[k]
  <2>1. /\ b \in Seq(Byte) /\ Len(b) = Len(sof) + Len(body)
        /\ Continues(b, sof)
        /\ \A k \in 1..Len(body) : b[Len(sof) + k] = body[k]
    BY <1>1, <1>4, ConcatBytes
  <2>. HIDE DEF b
  <2>. QED BY <1>1, <1>4, <2>1
<1> HIDE DEF b
<1>6. c \in Seq(Byte) /\ Len(c) = 26 /\ Continues(c, b) /\ Holds2(c, 25, sum)
  <2>1. /\ Continues(c, b) /\ Len(c) = Len(b) + 2
        /\ Holds2(c, Len(b) + 1, sum)
    BY <1>s, <1>5, Write2
  <2>. HIDE DEF c
  <2>2. Len(b) + 1 = 25 /\ Len(b) + 2 = 26 BY <1>5
  <2>. QED BY <2>1, <2>2 DEF Continues
<1> HIDE DEF c
<1>c. c \in Seq(Byte) /\ Len(c) = 26 BY <1>6
<1>7. \A k \in 1..22 : c[2 + k] = body[k]
  <2>1. \A k \in 1..24 : c[k] = b[k] BY <1>5, <1>6 DEF Continues
  <2>. QED BY <1>5, <2>1
<1>8. c[1] = EP_SOF1 /\ c[2] = EP_SOF2
  BY <1>4, <1>5, <1>6 DEF Continues
<1>9. Written(c, 2, s)
  <2>1. /\ body[0 + 1] = c[2 + 1] /\ body[0 + 2] = c[2 + 2]
        /\ body[0 + 3] = c[2 + 3] /\ body[0 + 4] = c[2 + 4]
        /\ body[0 + 5] = c[2 + 5] /\ body[0 + 6] = c[2 + 6]
    BY <1>7
  <2>2. ASSUME NEW k \in {7, 9, 11, 13, 15, 17, 19, 21}, NEW v,
               Holds2(body, 0 + k, v)
        PROVE  Holds2(c, 2 + k, v)
    <3>1. c[2 + k] = body[0 + k] /\ c[(2 + k) + 1] = body[(0 + k) + 1]
      BY <1>7
    <3>. QED BY <2>2, <3>1 DEF Holds2
  <2>3. ASSUME NEW k \in {7, 11}, NEW v, Holds4(body, 0 + k, v)
        PROVE  Holds4(c, 2 + k, v)
    <3>1. /\ (0 + k) + 2 = 0 + (k + 2) /\ (2 + k) + 2 = 2 + (k + 2)
          /\ k + 2 \in {9, 13}
      OBVIOUS
    <3>. QED BY <2>2, <2>3, <3>1 DEF Holds4
  <2>. QED BY <1>1, <2>1, <2>2, <2>3 DEF Written
<1>10. SubSeq(c, 3, 24) = body
  <2>1. SubSeq(c, 3, 24) \in Seq(Byte) /\ Len(SubSeq(c, 3, 24)) = 22
        /\ \A k \in 1..22 : SubSeq(c, 3, 24)[k] = c[2 + k]
    <3>1. /\ 3 \in Nat /\ 24 \in Nat /\ 1 <= 3 /\ 3 <= 24 /\ 24 <= Len(c)
          /\ (24 - 3) + 1 = 22 /\ \A k \in 1..22 : (3 + k) - 1 = 2 + k
      BY <1>c
    <3>2. /\ SubSeq(c, 3, 24) \in Seq(Byte)
          /\ Len(SubSeq(c, 3, 24)) = (24 - 3) + 1
          /\ \A k \in 1..((24 - 3) + 1) : SubSeq(c, 3, 24)[k] = c[(3 + k) - 1]
      BY <1>c, <3>1, Part
    <3>. QED BY <3>1, <3>2
  <2>2. PICK sub \in Seq(Byte) : sub = SubSeq(c, 3, 24) BY <2>1
  <2>3. Len(sub) = Len(body) /\ \A k \in 1..Len(body) : sub[k] = body[k]
    BY <1>1, <1>7, <2>1, <2>2
  <2>4. sub = body BY <1>1, <2>3, SameBytes
  <2>. QED BY <2>2, <2>4
<1>11. UShort(c, 25) = sum
  <2>1. c[25] \in Byte /\ c[25 + 1] \in Byte
    <3>1. /\ 25 \in Nat /\ 25 + 1 \in Nat /\ 1 <= 25 /\ 1 <= 25 + 1
          /\ 25 <= Len(c) /\ 25 + 1 <= Len(c)
      BY <1>c
    <3>. QED BY <1>c, <3>1, Element
  <2>2. c[25] \in Int /\ c[25 + 1] \in Int /\ 25 \in Nat BY <2>1 DEF Byte
  <2>. QED BY <1>s, <1>3, <1>6, <2>2, UShortRead
<1>. QED BY <1>0, <1>6, <1>8, <1>9, <1>10, <1>11 DEF body, sum

-----------------------------------------------------------------------------
LEMMA LeastNumber ==
  ASSUME NEW T, T \subseteq Nat, T # {}
  PROVE  \E x \in T : \A y \in T : x <= y
<1>1. PICK x \in T : \A y \in T : ~ (<<y, x>> \in OpToRel(<, Nat))
  BY WFMin, NatLessThanWellFounded
<1>2. \A y \in T : ~ (y < x) BY <1>1 DEF OpToRel
<1>. QED BY <1>2

\* Induction up to n; the set G holds the numbers something is shown of.
LEMMA UpTo ==
  ASSUME NEW n \in Nat, NEW G,
         0 \in G, \A j \in 1..n : j - 1 \in G => j \in G
  PROVE  \A j \in 0..n : j \in G
<1> DEFINE bad == {j \in 0..n : j \notin G}
<1>1. SUFFICES ASSUME bad # {} PROVE FALSE OBVIOUS
<1>2. PICK j \in bad : \A k \in bad : j <= k
  <2>1. bad \subseteq Nat OBVIOUS
  <2>. HIDE DEF bad
  <2>. QED BY <1>1, <2>1, LeastNumber
<1>3. j \in 1..n /\ j - 1 \in 0..n /\ ~(j <= j - 1)
  <2>1. j \in 0..n /\ j \notin G OBVIOUS
  <2>2. j # 0 BY <2>1
  <2>. QED BY <2>1, <2>2
<1>4. j - 1 \in G BY <1>2, <1>3
<1>. QED BY <1>3, <1>4

\* A function that is defined from 0 to n by steps exists.
Steps(Step, n, X) == Step \in [1..n -> [X -> X]]

Follows(f, first, Step, n, X) ==
  /\ f \in [0..n -> X]
  /\ f[0] = first
  /\ \A j \in 1..n : f[j] = Step[j][f[j - 1]]

LEMMA Recursion ==
  ASSUME NEW n \in Nat, NEW X, NEW first \in X, NEW Step, Steps(Step, n, X)
  PROVE  \E f : Follows(f, first, Step, n, X)
<1>0. Step \in [1..n -> [X -> X]] BY DEF Steps
<1> DEFINE Upto(m, f) == /\ f \in [0..m -> X] /\ f[0] = first
                         /\ \A j \in 1..m : f[j] = Step[j][f[j - 1]]
           G == {m \in 0..n : \E f : Upto(m, f)}
<1>1. 0 \in G
  <2>1. Upto(0, [j \in 0..0 |-> first]) OBVIOUS
  <2>. HIDE DEF Upto
  <2>. QED BY <2>1
<1>2. ASSUME NEW m \in 1..n, m - 1 \in G  PROVE m \in G
  <2>1. PICK f : Upto(m - 1, f) BY <1>2
  <2> DEFINE g == [j \in 0..m |-> IF j = m THEN Step[m][f[m - 1]] ELSE f[j]]
  <2>2. m - 1 \in 0..(m - 1) /\ f[m - 1] \in X BY <2>1
  <2>3. Step[m][f[m - 1]] \in X BY <1>0, <2>2
  <2>4. \A j \in 0..m : j # m => j \in 0..(m - 1) OBVIOUS
  <2>5. g \in [0..m -> X] BY <2>1, <2>3, <2>4
  <2>6. g[0] = first BY <2>1
  <2>7. ASSUME NEW j \in 1..m  PROVE g[j] = Step[j][g[j - 1]]
    <3>1. j - 1 \in 0..m /\ j - 1 # m /\ g[j - 1] = f[j - 1] OBVIOUS
    <3>2. CASE j = m BY <3>1, <3>2
    <3>3. CASE j # m
      <4>1. j \in 1..(m - 1) BY <3>3
      <4>2. g[j] = f[j] BY <3>3
      <4>. QED BY <2>1, <3>1, <4>1, <4>2
    <3>. QED BY <3>2, <3>3
  <2>8. Upto(m, g) BY <2>5, <2>6, <2>7
  <2>. HIDE DEF Upto, g
  <2>. QED BY <2>8
<1>3. \A j \in 0..n : j \in G
  <2>. HIDE DEF G
  <2>. QED BY <1>1, <1>2, UpTo
<1>4. n \in G BY <1>3
<1>5. PICK f : Upto(n, f) BY <1>4
<1>6. Follows(f, first, Step, n, X) BY <1>5 DEF Follows
<1>. QED BY <1>6

-----------------------------------------------------------------------------
\* c is a number of 16 bits.
IsWord(c) == c \in Int /\ 0 <= c /\ c <= 65535

LEMMA WordIsWord == \A c : c \in Word <=> IsWord(c)
<1>1. 2^16 = 65536 OBVIOUS
<1>2. PICK m \in Int : m = 2^16 - 1 /\ m = 65535 BY <1>1
<1>3. \A c : c \in 0..m <=> c \in Int /\ 0 <= c /\ c <= m OBVIOUS
<1>4. Word = 0..m BY <1>2 DEF Word
<1>5. \A c : IsWord(c) <=> c \in Int /\ 0 <= c /\ c <= m BY <1>2 DEF IsWord
<1>. QED BY <1>3, <1>4, <1>5

\* To flip a bit of a word gives a word.
LEMMA FlipIsWord ==
  ASSUME NEW n, IsWord(n), NEW k \in {12, 5, 0}  PROVE IsWord(Flip(n, k))
<1>0. n \in Int /\ 0 <= n /\ n <= 65535 BY DEF IsWord
<1>1. CASE k = 12
  <2>1. 2^12 = 4096 OBVIOUS
  <2>2. PICK q \in Int : q = n \div 4096 BY SMT, <1>0
  <2>3. q >= 0 /\ q <= 15 /\ 4096 * q <= n /\ n <= 4096 * q + 4095
    BY SMT, <1>0, <2>2
  <2>4. Flip(n, k) = IF q % 2 = 1 THEN n - 4096 ELSE n + 4096
    BY SMT, <1>1, <2>1, <2>2 DEF Flip, BitOf
  <2>. QED BY SMT, <1>0, <2>3, <2>4 DEF IsWord
<1>2. CASE k = 5
  <2>1. 2^5 = 32 OBVIOUS
  <2>2. PICK q \in Int : q = n \div 32 BY SMT, <1>0
  <2>3. q >= 0 /\ q <= 2047 /\ 32 * q <= n /\ n <= 32 * q + 31
    BY SMT, <1>0, <2>2
  <2>4. Flip(n, k) = IF q % 2 = 1 THEN n - 32 ELSE n + 32
    BY SMT, <1>2, <2>1, <2>2 DEF Flip, BitOf
  <2>. QED BY SMT, <1>0, <2>3, <2>4 DEF IsWord
<1>3. CASE k = 0
  <2>1. 2^0 = 1 OBVIOUS
  <2>2. n \div 1 = n BY SMT, <1>0
  <2>3. Flip(n, k) = IF n % 2 = 1 THEN n - 1 ELSE n + 1
    BY SMT, <1>0, <1>3, <2>1, <2>2 DEF Flip, BitOf
  <2>. QED BY SMT, <1>0, <2>3 DEF IsWord
<1>. QED BY <1>1, <1>2, <1>3

LEMMA PolyIsWord ==
  ASSUME NEW c, IsWord(c)  PROVE IsWord(AddPoly(c))
<1>1. IsWord(Flip(c, 12)) BY FlipIsWord
<1>2. IsWord(Flip(Flip(c, 12), 5)) BY <1>1, FlipIsWord
<1>3. IsWord(Flip(Flip(Flip(c, 12), 5), 0)) BY <1>2, FlipIsWord
<1>. QED BY <1>3 DEF AddPoly

LEMMA BitIsBit ==
  ASSUME NEW n \in Int, NEW k \in 0..8  PROVE BitOf(n, k) \in 0..1
<1>1. PICK p \in Nat \ {0} : p = 2^k
  <2> DEFINE pow == [j \in 0..8 |-> 2^j]
  <2>1. /\ 2^0 = 1 /\ 2^1 = 2 /\ 2^2 = 4 /\ 2^3 = 8 /\ 2^4 = 16 /\ 2^5 = 32
        /\ 2^6 = 64 /\ 2^7 = 128 /\ 2^8 = 256
    OBVIOUS
  <2>2. /\ pow[0] = 1 /\ pow[1] = 2 /\ pow[2] = 4 /\ pow[3] = 8
        /\ pow[4] = 16 /\ pow[5] = 32 /\ pow[6] = 64 /\ pow[7] = 128
        /\ pow[8] = 256
    BY <2>1
  <2>3. pow[k] = 2^k OBVIOUS
  <2>. HIDE DEF pow
  <2>4. pow[k] \in Nat \ {0} BY <2>2
  <2>. QED BY <2>3, <2>4
<1>2. PICK q \in Int : q = n \div p BY SMT
<1>3. q % 2 \in 0..1 BY SMT
<1>. QED BY <1>1, <1>2, <1>3 DEF BitOf

LEMMA ShiftIsWord ==
  ASSUME NEW c \in Word, NEW bit
  PROVE  (IF BitOf(c, 15) = bit THEN (2 * c) % 65536
          ELSE AddPoly((2 * c) % 65536)) \in Word
<1>1. c \in Int BY WordIsWord DEF IsWord
<1>2. PICK d \in Int : d = (2 * c) % 65536 BY SMT, <1>1
<1>3. 0 <= d /\ d <= 65535 BY SMT, <1>1, <1>2
<1>4. IsWord(d) BY <1>3 DEF IsWord
<1>5. IsWord(AddPoly(d)) BY <1>4, PolyIsWord
<1>. QED BY <1>2, <1>4, <1>5, WordIsWord

LEMMA InBitIsBit ==
  ASSUME NEW data \in Seq(0..255), NEW k \in 1..(8 * Len(data))
  PROVE  InBit(data, k) \in {0, 1}
<1>1. PICK n \in Nat : n = Len(data) OBVIOUS
<1>2. k \in Int /\ 1 <= k /\ k <= 8 * n BY <1>1
<1>3. PICK q \in Int : q = (k - 1) \div 8 BY SMT, <1>2
<1>4. PICK r \in Int : r = (k - 1) % 8 BY SMT, <1>2
<1>5. k - 1 = 8 * q + r /\ 0 <= r /\ r <= 7 BY SMT, <1>2, <1>3, <1>4
<1>6. q + 1 >= 1 /\ q + 1 <= n BY SMT, <1>2, <1>5
<1>7. q + 1 \in 1..Len(data) BY <1>1, <1>6
<1>8. data[q + 1] \in Int
  <2>1. data[q + 1] \in 0..255
    <3>1. PICK S : S = 0..255 OBVIOUS
    <3>2. data \in Seq(S) BY <3>1
    <3>3. data[q + 1] \in S BY <1>7, <3>2
    <3>. QED BY <3>1, <3>3
  <2>2. \A n1 \in 0..255 : n1 \in Int OBVIOUS
  <2>. QED BY <2>1, <2>2
<1>9. 7 - r \in 0..8 BY <1>5
<1>10. BitOf(data[q + 1], 7 - r) \in 0..1 BY <1>8, <1>9, BitIsBit
<1>. QED BY <1>3, <1>4, <1>10 DEF InBit

\* The checksum of any bytes is a number of 16 bits.
THEOREM CrcIs16Bit ==
  ASSUME NEW data \in Seq(0..255)  PROVE Crc16Ccitt(data) \in Word
<1> DEFINE N == 8 * Len(data)
           shift == [in \in Word \X {0, 1} |->
             LET shifted == (2 * in[1]) % 65536
             IN IF BitOf(in[1], 15) = in[2] THEN shifted ELSE AddPoly(shifted)]
           Crcs(f) == f = [k \in 0..N |->
             IF k = 0 THEN 0 ELSE shift[<<f[k - 1], InBit(data, k)>>]]
           crc == CHOOSE f : Crcs(f)
<1>1. Crc16Ccitt(data) = crc[N] BY DEF Crc16Ccitt
<1>2. \A c \in Word, bit \in {0, 1} : shift[<<c, bit>>] \in Word
  <2>1. ASSUME NEW c \in Word, NEW bit \in {0, 1}
        PROVE  shift[<<c, bit>>] \in Word
    <3>1. <<c, bit>> \in Word \X {0, 1} /\ <<c, bit>>[1] = c
          /\ <<c, bit>>[2] = bit
      OBVIOUS
    <3>2. shift[<<c, bit>>] = IF BitOf(c, 15) = bit THEN (2 * c) % 65536
                              ELSE AddPoly((2 * c) % 65536)
      BY <3>1
    <3>. HIDE DEF shift
    <3>. QED BY <3>2, ShiftIsWord
  <2>. HIDE DEF shift
  <2>. QED BY <2>1
<1> HIDE DEF shift
<1>n. N \in Nat OBVIOUS
<1>b. \A k \in 1..N : InBit(data, k) \in {0, 1} BY InBitIsBit
<1> HIDE DEF N
<1>z. 0 \in Word BY WordIsWord DEF IsWord
<1>3. \E f : Crcs(f)
  <2> DEFINE Step == [k \in 1..N |-> [w \in Word |->
               shift[<<w, InBit(data, k)>>]]]
  <2>1. Step \in [1..N -> [Word -> Word]] BY <1>2, <1>b
  <2>2. Steps(Step, N, Word) BY <2>1 DEF Steps
  <2>. HIDE DEF Step
  <2>3. PICK f : Follows(f, 0, Step, N, Word)
    BY <1>n, <1>z, <2>2, Recursion
  <2>4. f \in [0..N -> Word] /\ f[0] = 0
        /\ \A k \in 1..N : f[k] = Step[k][f[k - 1]]
    BY <2>3 DEF Follows
  <2>5. ASSUME NEW k \in 1..N
        PROVE  f[k] = shift[<<f[k - 1], InBit(data, k)>>]
    <3>1. k - 1 \in 0..N BY <1>n
    <3>2. f[k - 1] \in Word BY <2>4, <3>1
    <3>3. Step[k][f[k - 1]] = shift[<<f[k - 1], InBit(data, k)>>]
      BY <3>2 DEF Step
    <3>. QED BY <2>4, <3>3
  <2>6. \A k \in 0..N : k = 0 \/ k \in 1..N BY <1>n
  <2>7. f = [k \in 0..N |->
               IF k = 0 THEN 0 ELSE shift[<<f[k - 1], InBit(data, k)>>]]
    BY <2>4, <2>5, <2>6
  <2>8. Crcs(f) BY <2>7
  <2>. HIDE DEF Crcs
  <2>. QED BY <2>8
<1>4. Crcs(crc)
  <2>. HIDE DEF Crcs
  <2>. QED BY <1>3
<1>5. crc = [k \in 0..N |->
               IF k = 0 THEN 0 ELSE shift[<<crc[k - 1], InBit(data, k)>>]]
  BY <1>4
<1> HIDE DEF crc
<1> DEFINE G == {k \in 0..N : crc[k] \in Word}
<1>6. 0 \in G
  <2>1. 0 \in 0..N BY <1>n
  <2>. QED BY <1>5, <1>z, <2>1
<1>7. ASSUME NEW k \in 1..N, k - 1 \in G  PROVE k \in G
  <2>1. k \in 0..N /\ k # 0 BY <1>n
  <2>2. crc[k] = shift[<<crc[k - 1], InBit(data, k)>>] BY <1>5, <2>1
  <2>. QED BY <1>2, <1>b, <1>7, <2>1, <2>2
<1>8. \A k \in 0..N : k \in G
  <2>. HIDE DEF G
  <2>. QED BY <1>6, <1>7, <1>n, UpTo
<1>9. N \in G BY <1>8, <1>n
<1>. QED BY <1>1, <1>9

LEMMA CcittIs16Bit ==
  ASSUME \A b \in Seq(Byte) : Crc(b) = Crc16Ccitt(b)
  PROVE  Crc16Bit
<1>1. ASSUME NEW b \in Seq(Byte)  PROVE Crc(b) \in UInt16
  <2>1. Crc16Ccitt(b) \in Word BY CrcIs16Bit DEF Byte
  <2>2. IsWord(Crc16Ccitt(b)) BY <2>1, WordIsWord
  <2>. QED BY <2>2 DEF IsWord, UInt16, Within
<1>. QED BY <1>1 DEF Crc16Bit

-----------------------------------------------------------------------------
\* What the framed loop can have made of the bytes b.
Reading(b) == [at : 1..(Len(b) + 1), taken : SUBSET Nat]

LEMMA FindSofType ==
  ASSUME NEW b \in Seq(Byte), NEW i \in 1..(Len(b) + 1)
  PROVE  FindSof(b, i) \in i..(Len(b) + 1)
<1> DEFINE at == {k \in i..(Len(b) - 1) : SofAt(b, k)}
<1>1. CASE at = {} BY <1>1 DEF FindSof
<1>2. CASE at # {}
  <2>1. at \subseteq Nat /\ at \subseteq i..(Len(b) + 1) OBVIOUS
  <2>2. FindSof(b, i) = CHOOSE k \in at : \A m \in at : k <= m
    BY <1>2 DEF FindSof
  <2>. HIDE DEF at
  <2>3. \E k \in at : \A m \in at : k <= m BY <1>2, <2>1, LeastNumber
  <2>4. FindSof(b, i) \in at BY <2>2, <2>3
  <2>. QED BY <2>1, <2>4
<1>. QED BY <1>1, <1>2

LEMMA TurnType ==
  ASSUME NEW b \in Seq(Byte), NEW r \in Reading(b)
  PROVE  Turn(b, r) \in Reading(b)
<1> DEFINE sof  == FindSof(b, r.at)
           left == Len(b) + 1 - sof
<1>1. r.at \in 1..(Len(b) + 1) /\ r.taken \subseteq Nat /\ Len(b) \in Nat
  BY DEF Reading
<1>2. sof \in r.at..(Len(b) + 1) BY <1>1, FindSofType
<1>t. ASSUME NEW k \in 1..(Len(b) + 1)
      PROVE  [r EXCEPT !.at = k] \in Reading(b)
  BY DEF Reading
<1>3. CASE Len(b) + 1 - r.at < 8 BY <1>3 DEF Turn
<1>4. CASE ~(Len(b) + 1 - r.at < 8) /\ (left < 8 \/ left < FrameLen(b, sof))
  <2>1. Turn(b, r) = [r EXCEPT !.at = sof] BY <1>4 DEF Turn
  <2>2. sof \in 1..(Len(b) + 1) BY <1>1, <1>2
  <2>. QED BY <1>t, <2>1, <2>2
<1>5. CASE /\ ~(Len(b) + 1 - r.at < 8) /\ ~(left < 8 \/ left < FrameLen(b, sof))
  <2> HIDE DEF sof
  <2>0. sof \in Nat /\ 1 <= sof /\ sof + 7 <= Len(b) BY <1>1, <1>2, <1>5
  <2>1. CASE b[sof + 2] # EP_VER
    <3>1. Turn(b, r) = [r EXCEPT !.at = sof + 2]
      BY <1>5, <2>1 DEF Turn, sof
    <3>2. sof + 2 \in 1..(Len(b) + 1) BY <1>1, <2>0
    <3>. QED BY <1>t, <3>1, <3>2
  <2>2. CASE b[sof + 2] = EP_VER /\ ~CrcOK(b, sof)
    <3>1. Turn(b, r) = [r EXCEPT !.at = sof + 1]
      BY <1>5, <2>2 DEF Turn, sof, Resync
    <3>2. sof + 1 \in 1..(Len(b) + 1) BY <1>1, <2>0
    <3>. QED BY <1>t, <3>1, <3>2
  <2>3. CASE b[sof + 2] = EP_VER /\ CrcOK(b, sof)
    <3> DEFINE end == sof + FrameLen(b, sof)
               taken == r.taken \cup {sof}
    <3>1. Turn(b, r) = [at |-> end, taken |-> taken]
      BY <1>5, <2>3 DEF Turn, sof
    <3>2. b[sof + 5] \in Int /\ b[sof + 5] >= 0
      <4>1. sof + 5 \in Nat /\ 1 <= sof + 5 /\ sof + 5 <= Len(b)
        BY <1>1, <2>0
      <4>2. b[sof + 5] \in Byte BY <4>1, Element
      <4>. QED BY <4>2, ByteIsInt
    <3>3. end \in 1..(Len(b) + 1)
      BY <1>1, <1>5, <2>0, <3>2 DEF FrameLen
    <3>4. taken \subseteq Nat BY <1>1, <2>0
    <3>. HIDE DEF end, taken
    <3>. QED BY <3>1, <3>3, <3>4 DEF Reading
  <2>. QED BY <2>1, <2>2, <2>3
<1>. QED BY <1>3, <1>4, <1>5

-----------------------------------------------------------------------------
Unread == [at |-> 1, taken |-> {}]

LEMMA UnreadType == ASSUME NEW b \in Seq(Byte)  PROVE Unread \in Reading(b)
<1>1. 1 \in 1..(Len(b) + 1) /\ {} \subseteq Nat OBVIOUS
<1>. QED BY <1>1 DEF Unread, Reading

\* f holds what is read of b after each of n turns.
Turns(b, f, n) ==
  /\ f[0] = Unread
  /\ \A j \in 1..n : f[j] = Turn(b, f[j - 1])
  /\ \A j \in 0..n : f[j] \in Reading(b)

LEMMA ReadInTurns ==
  ASSUME NEW b \in Seq(Byte)
  PROVE  \E n \in Nat \ {0} : \E f : Turns(b, f, n) /\ ReadFrames(b) = f[n]
<1> DEFINE starts == {k \in 1..(Len(b) - 1) : SofAt(b, k)}
           N == Cardinality(starts) + 1
           After(f) == f = [n \in 0..N |-> IF n = 0 THEN Unread
                                           ELSE Turn(b, f[n - 1])]
           after == CHOOSE f : After(f)
<1>1. N \in Nat \ {0}
  <2>1. 1 \in Int /\ Len(b) - 1 \in Int /\ starts \subseteq 1..(Len(b) - 1)
    OBVIOUS
  <2>2. IsFiniteSet(starts) BY <2>1, FS_Interval, FS_Subset
  <2>3. Cardinality(starts) \in Nat BY <2>2, FS_CardinalityType
  <2>. QED BY <2>3
<1>2. ReadFrames(b) = after[N] BY DEF ReadFrames, Unread
<1> HIDE DEF N
<1>3. \E f : After(f)
  <2> DEFINE X == Reading(b)
             Step == [j \in 1..N |-> [r \in X |-> Turn(b, r)]]
  <2>1. Unread \in X BY UnreadType
  <2>2. Step \in [1..N -> [X -> X]] BY TurnType
  <2>3. Steps(Step, N, X) BY <2>2 DEF Steps
  <2>. HIDE DEF X, Step
  <2>4. PICK f : Follows(f, Unread, Step, N, X)
    BY <1>1, <2>1, <2>3, Recursion
  <2>5. f \in [0..N -> X] /\ f[0] = Unread
        /\ \A j \in 1..N : f[j] = Step[j][f[j - 1]]
    BY <2>4 DEF Follows
  <2>6. \A j \in 1..N : f[j] = Turn(b, f[j - 1])
    <3>1. ASSUME NEW j \in 1..N  PROVE f[j] = Turn(b, f[j - 1])
      <4>1. j - 1 \in 0..N BY <1>1
      <4>2. f[j - 1] \in X BY <2>5, <4>1
      <4>3. Step[j][f[j - 1]] = Turn(b, f[j - 1]) BY <4>2 DEF Step
      <4>. QED BY <2>5, <4>3
    <3>. QED BY <3>1
  <2>7. \A j \in 0..N : j = 0 \/ j \in 1..N BY <1>1
  <2>8. f = [j \in 0..N |-> IF j = 0 THEN Unread ELSE Turn(b, f[j - 1])]
    BY <2>5, <2>6, <2>7
  <2>9. After(f) BY <2>8
  <2>. HIDE DEF After
  <2>. QED BY <2>9
<1>4. After(after)
  <2>. HIDE DEF After
  <2>. QED BY <1>3
<1>5. after[0] = Unread /\ \A j \in 1..N : after[j] = Turn(b, after[j - 1])
  <2>1. after = [j \in 0..N |-> IF j = 0 THEN Unread ELSE Turn(b, after[j - 1])]
    BY <1>4
  <2>. HIDE DEF after
  <2>2. 0 \in 0..N BY <1>1
  <2>3. \A j \in 1..N : j \in 0..N /\ j # 0 BY <1>1
  <2>. QED BY <2>1, <2>2, <2>3
<1> HIDE DEF after, After
<1> DEFINE G == {j \in 0..N : after[j] \in Reading(b)}
<1>6. 0 \in G BY <1>1, <1>5, UnreadType
<1>7. ASSUME NEW j \in 1..N, j - 1 \in G  PROVE j \in G
  <2>1. j \in 0..N BY <1>1
  <2>. QED BY <1>5, <1>7, <2>1, TurnType
<1>8. \A j \in 0..N : j \in G
  <2>. HIDE DEF G
  <2>1. N \in Nat BY <1>1
  <2>. QED BY <1>6, <1>7, <2>1, UpTo
<1>9. Turns(b, after, N) BY <1>5, <1>8 DEF Turns
<1>. QED BY <1>1, <1>2, <1>9

LEMMA ReadingType ==
  ASSUME NEW b \in Seq(Byte)  PROVE ReadFrames(b) \in Reading(b)
<1>1. PICK n \in Nat \ {0} : \E f : Turns(b, f, n) /\ ReadFrames(b) = f[n]
  BY ReadInTurns
<1>2. PICK f : Turns(b, f, n) /\ ReadFrames(b) = f[n] BY <1>1
<1>3. n \in 0..n OBVIOUS
<1>. QED BY <1>2, <1>3 DEF Turns

-----------------------------------------------------------------------------
\* The bytes of a frame are read as the state they were written of.
LEMMA FrameBytes ==
  ASSUME Crc16Bit, NEW s \in States, NEW k \in 1..26
  PROVE  Frame(s)[k] \in Int
<1>1. Frame(s) \in Seq(Byte) /\ Len(Frame(s)) = 26 BY FrameWritten
<1>2. k \in Nat /\ 1 <= k /\ k <= Len(Frame(s)) BY <1>1
<1>. QED BY <1>1, <1>2, Element, ByteIsInt

LEMMA FrameSaid ==
  ASSUME Crc16Bit, NEW s \in States
  PROVE  Said(Frame(s), 1) = s
<1> DEFINE b == Frame(s)
<1>1. Written(b, 2, s) BY FrameWritten
<1>2. \A k \in 1..26 : b[k] \in Int BY FrameBytes
<1> HIDE DEF b
<1>3. /\ s.seq \in Byte /\ s.mode \in Byte /\ s.status \in Byte
      /\ s.fix[1] \in Int32 /\ s.fix[2] \in Int32 /\ s.pitch = 900
      /\ s.heading \in UInt16 /\ s.linear \in Int16 /\ s.angular \in Int16
      /\ s.fix = <<s.fix[1], s.fix[2]>>
  <2>1. s.fix \in Int32 \X Int32 BY DEF States
  <2>2. s.fix[1] \in Int32 /\ s.fix[2] \in Int32
        /\ s.fix = <<s.fix[1], s.fix[2]>>
    BY <2>1
  <2>. QED BY <2>2, StateTypes DEF States
<1>4. b[5] = s.seq /\ b[7] = s.mode /\ b[8] = s.status BY <1>1 DEF Written
<1>5. /\ Holds4(b, 9, s.fix[1]) /\ Holds4(b, 13, s.fix[2])
      /\ Holds2(b, 17, s.pitch) /\ Holds2(b, 19, s.heading)
      /\ Holds2(b, 21, s.linear) /\ Holds2(b, 23, s.angular)
  <2>1. /\ 2 + 7 = 9 /\ 2 + 11 = 13 /\ 2 + 15 = 17 /\ 2 + 17 = 19
        /\ 2 + 19 = 21 /\ 2 + 21 = 23
    OBVIOUS
  <2>. QED BY <1>1, <2>1 DEF Written
<1>6. Long(b, 9) = s.fix[1]
  <2>1. 9 \in Nat /\ \A k \in 9..(9 + 3) : b[k] \in Int BY <1>2
  <2>. QED BY <1>3, <1>5, <2>1, LongRead
<1>7. Long(b, 13) = s.fix[2]
  <2>1. 13 \in Nat /\ \A k \in 13..(13 + 3) : b[k] \in Int BY <1>2
  <2>. QED BY <1>3, <1>5, <2>1, LongRead
<1>8. /\ 17 \in Nat /\ b[17] \in Int /\ b[17 + 1] \in Int
      /\ 19 \in Nat /\ b[19] \in Int /\ b[19 + 1] \in Int
      /\ 21 \in Nat /\ b[21] \in Int /\ b[21 + 1] \in Int
      /\ 23 \in Nat /\ b[23] \in Int /\ b[23 + 1] \in Int
  BY <1>2
<1>9. /\ \A n \in UInt16 : n \in Int /\ 0 <= n /\ n <= 65535
      /\ \A n \in Int16 : n \in Int /\ n >= -32768 /\ n <= 32767
      /\ 900 \in Int /\ 900 >= -32768 /\ 900 <= 32767
  BY DEF UInt16, Int16, Within
<1>10. UShort(b, 19) = s.heading BY <1>3, <1>5, <1>8, <1>9, UShortRead
<1>11. Short(b, 17) = s.pitch BY <1>3, <1>5, <1>8, <1>9, ShortRead
<1>12. Short(b, 21) = s.linear BY <1>3, <1>5, <1>8, <1>9, ShortRead
<1>13. Short(b, 23) = s.angular BY <1>3, <1>5, <1>8, <1>9, ShortRead
<1>14. Said(b, 1) = [seq |-> s.seq, mode |-> s.mode, status |-> s.status,
                     fix |-> s.fix, pitch |-> s.pitch, heading |-> s.heading,
                     linear |-> s.linear, angular |-> s.angular]
  <2>1. /\ 1 + 4 = 5 /\ 1 + 6 = 7 /\ 1 + 7 = 8 /\ 1 + 8 = 9 /\ 1 + 12 = 13
        /\ 1 + 16 = 17 /\ 1 + 18 = 19 /\ 1 + 20 = 21 /\ 1 + 22 = 23
    OBVIOUS
  <2>. QED BY <1>3, <1>4, <1>6, <1>7, <1>10, <1>11, <1>12, <1>13, <2>1
           DEF Said
<1>15. s = [seq |-> s.seq, mode |-> s.mode, status |-> s.status,
            fix |-> s.fix, pitch |-> s.pitch, heading |-> s.heading,
            linear |-> s.linear, angular |-> s.angular]
  BY DEF States
<1>. QED BY <1>14, <1>15 DEF b

-----------------------------------------------------------------------------
\* What the framed loop takes for a frame at i.
Passes(b, i) ==
  /\ i + 7 <= Len(b) /\ SofAt(b, i) /\ b[i + 2] = EP_VER
  /\ i + FrameLen(b, i) <= Len(b) + 1 /\ CrcOK(b, i)

\* The n bytes of b from i on are those of c from o on.
Alike(b, i, c, o, n) == \A m \in 0..(n - 1) : b[i + m] = c[o + m]

\* The same bytes say the same.
LEMMA SameSaid ==
  ASSUME NEW b, NEW c, NEW i \in Int, NEW o \in Int, Alike(b, i, c, o, 24)
  PROVE  Said(b, i) = Said(c, o) /\ (IsState(b, i) <=> IsState(c, o))
<1>0. \A m \in 0..23 : b[i + m] = c[o + m]
  <2>1. 24 - 1 = 23 OBVIOUS
  <2>. QED BY <2>1 DEF Alike
<1>1. ASSUME NEW m \in 0..22
      PROVE  /\ UShort(b, i + m) = UShort(c, o + m)
             /\ Short(b, i + m) = Short(c, o + m)
  <2>1. m + 1 \in 0..23 /\ m \in 0..23 OBVIOUS
  <2>2. b[i + m] = c[o + m] /\ b[i + (m + 1)] = c[o + (m + 1)] BY <1>0, <2>1
  <2>3. (i + m) + 1 = i + (m + 1) /\ (o + m) + 1 = o + (m + 1) OBVIOUS
  <2>. QED BY <2>2, <2>3 DEF UShort, Short
<1>2. ASSUME NEW m \in 0..20
      PROVE  Long(b, i + m) = Long(c, o + m)
  <2>1. m \in 0..22 /\ m + 2 \in 0..22 OBVIOUS
  <2>2. /\ UShort(b, i + m) = UShort(c, o + m)
        /\ Short(b, i + (m + 2)) = Short(c, o + (m + 2))
    BY <1>1, <2>1
  <2>3. (i + m) + 2 = i + (m + 2) /\ (o + m) + 2 = o + (m + 2) OBVIOUS
  <2>. QED BY <2>2, <2>3 DEF Long
<1>3. /\ b[i + 3] = c[o + 3] /\ b[i + 4] = c[o + 4] /\ b[i + 5] = c[o + 5]
      /\ b[i + 6] = c[o + 6] /\ b[i + 7] = c[o + 7]
  BY <1>0
<1>4. /\ Long(b, i + 8) = Long(c, o + 8) /\ Long(b, i + 12) = Long(c, o + 12)
      /\ Short(b, i + 16) = Short(c, o + 16)
      /\ UShort(b, i + 18) = UShort(c, o + 18)
      /\ Short(b, i + 20) = Short(c, o + 20)
      /\ Short(b, i + 22) = Short(c, o + 22)
  BY <1>1, <1>2
<1>5. Said(b, i) = Said(c, o) BY <1>3, <1>4 DEF Said
<1>. QED BY <1>3, <1>5 DEF IsState

LEMMA CheckAt ==
  ASSUME NEW b, NEW i \in Int, NEW len \in Nat, FrameLen(b, i) = len
  PROVE  CrcOK(b, i) <=> Crc(SubSeq(b, i + 2, i + len - 3))
                           = b[i + (len - 2)] + 256 * b[i + (len - 1)]
<1>1. /\ i + len - 1 = i + (len - 1) /\ (i + len - 1) - 1 = i + (len - 2)
      /\ (i + len - 1) - 2 = i + len - 3
  OBVIOUS
<1>2. CrcOK(b, i) <=> Crc(SubSeq(b, i + 2, (i + len - 1) - 2))
                        = b[(i + len - 1) - 1] + 256 * b[i + len - 1]
  BY DEF CrcOK
<1>. QED BY <1>1, <1>2

\* Checks that look at the same bytes agree.
LEMMA SameCheck ==
  ASSUME NEW b \in Seq(Byte), NEW c \in Seq(Byte), NEW i \in Nat, NEW o \in Nat,
         1 <= i, 1 <= o, NEW len \in Nat, len >= 8,
         i + len <= Len(b) + 1, o + len <= Len(c) + 1,
         FrameLen(b, i) = len, FrameLen(c, o) = len,
         Alike(b, i, c, o, len)
  PROVE  CrcOK(b, i) <=> CrcOK(c, o)
<1>0. \A m \in 0..(len - 1) : b[i + m] = c[o + m] BY DEF Alike
<1> DEFINE u == SubSeq(b, i + 2, i + len - 3)
           v == SubSeq(c, o + 2, o + len - 3)
<1>1. /\ i + 2 \in Nat /\ i + len - 3 \in Nat /\ 1 <= i + 2
      /\ i + 2 <= i + len - 3 /\ i + len - 3 <= Len(b)
      /\ (i + len - 3 - (i + 2)) + 1 = len - 4
      /\ o + 2 \in Nat /\ o + len - 3 \in Nat /\ 1 <= o + 2
      /\ o + 2 <= o + len - 3 /\ o + len - 3 <= Len(c)
      /\ (o + len - 3 - (o + 2)) + 1 = len - 4
  OBVIOUS
<1>2. u \in Seq(Byte) /\ Len(u) = len - 4
      /\ \A k \in 1..(len - 4) : u[k] = b[(i + 2 + k) - 1]
  BY <1>1, Part
<1>3. v \in Seq(Byte) /\ Len(v) = len - 4
      /\ \A k \in 1..(len - 4) : v[k] = c[(o + 2 + k) - 1]
  BY <1>1, Part
<1> HIDE DEF u, v
<1>4. ASSUME NEW k \in 1..Len(v)  PROVE u[k] = v[k]
  <2>0. k \in 1..(len - 4) BY <1>3
  <2>1. /\ k \in 1..(len - 4) /\ k + 1 \in 0..(len - 1)
        /\ (i + 2 + k) - 1 = i + (k + 1) /\ (o + 2 + k) - 1 = o + (k + 1)
    BY <2>0
  <2>2. u[k] = b[i + (k + 1)] /\ v[k] = c[o + (k + 1)] BY <1>2, <1>3, <2>1
  <2>. QED BY <1>0, <2>1, <2>2
<1>5. u = v BY <1>2, <1>3, <1>4, SameBytes
<1>6. /\ CrcOK(b, i) <=> Crc(u) = b[i + (len - 2)] + 256 * b[i + (len - 1)]
      /\ CrcOK(c, o) <=> Crc(v) = c[o + (len - 2)] + 256 * c[o + (len - 1)]
  <2>1. i \in Int /\ o \in Int OBVIOUS
  <2>. QED BY <2>1, CheckAt DEF u, v
<1>7. b[i + (len - 1)] = c[o + (len - 1)] /\ b[i + (len - 2)] = c[o + (len - 2)]
  <2>1. len - 1 \in 0..(len - 1) /\ len - 2 \in 0..(len - 1) OBVIOUS
  <2>. QED BY <1>0, <2>1
<1>. QED BY <1>5, <1>6, <1>7

\* The frame of s is in b from position i on.
Holds(b, i, s) == i + 25 <= Len(b) /\ Alike(b, i, Frame(s), 1, 26)

LEMMA HeldByte ==
  ASSUME NEW b, NEW i \in Int, NEW c, Alike(b, i, c, 1, 26), NEW k \in 1..26
  PROVE  b[(i + k) - 1] = c[k]
<1>1. \A m \in 0..25 : b[i + m] = c[1 + m]
  <2>1. 26 - 1 = 25 OBVIOUS
  <2>. QED BY <2>1 DEF Alike
<1>2. k - 1 \in 0..25 /\ i + (k - 1) = (i + k) - 1 /\ 1 + (k - 1) = k
  OBVIOUS
<1>. QED BY <1>1, <1>2

LEMMA HeldBytes ==
  ASSUME NEW b, NEW i \in Int, NEW c, Alike(b, i, c, 1, 26)
  PROVE  /\ b[i] = c[1] /\ b[i + 1] = c[2] /\ b[i + 2] = c[3]
         /\ b[i + 3] = c[4] /\ b[i + 5] = c[6]
         /\ Alike(b, i, c, 1, 24)
<1>1. \A m \in 0..25 : b[i + m] = c[1 + m]
  <2>1. 26 - 1 = 25 OBVIOUS
  <2>. QED BY <2>1 DEF Alike
<1>2. \A k \in 1..26 : b[(i + k) - 1] = c[k] BY HeldByte
<1>3. /\ (i + 1) - 1 = i /\ (i + 2) - 1 = i + 1 /\ (i + 3) - 1 = i + 2
      /\ (i + 4) - 1 = i + 3 /\ (i + 6) - 1 = i + 5
      /\ 1 \in 1..26 /\ 2 \in 1..26 /\ 3 \in 1..26 /\ 4 \in 1..26 /\ 6 \in 1..26
  OBVIOUS
<1>4. b[i] = c[1] BY <1>2, <1>3
<1>5. b[i + 1] = c[2] BY <1>2, <1>3
<1>6. b[i + 2] = c[3] BY <1>2, <1>3
<1>7. b[i + 3] = c[4] /\ b[i + 5] = c[6] BY <1>2, <1>3
<1>8. Alike(b, i, c, 1, 24)
  <2>1. \A m \in 0..(24 - 1) : m \in 0..25 OBVIOUS
  <2>. QED BY <1>1, <2>1 DEF Alike
<1>. QED BY <1>4, <1>5, <1>6, <1>7, <1>8

LEMMA HeldPasses ==
  ASSUME Crc16Bit, NEW s \in States, NEW b \in Seq(Byte), NEW i \in Nat, 1 <= i,
         Holds(b, i, s)
  PROVE  /\ Passes(b, i) /\ IsState(b, i) /\ Said(b, i) = s
         /\ SofAt(b, i) /\ FrameLen(b, i) = 26
         /\ SubSeq(b, i, i + 25) = Frame(s)
<1>0. i + 25 <= Len(b) /\ Alike(b, i, Frame(s), 1, 26) BY DEF Holds
<1>1. PICK c \in Seq(Byte) :
        /\ c = Frame(s) /\ Len(c) = 26
        /\ c[1] = EP_SOF1 /\ c[2] = EP_SOF2 /\ Written(c, 2, s)
        /\ SubSeq(c, 3, 24) = Body(s) /\ UShort(c, 25) = Crc(Body(s))
        /\ Said(c, 1) = s
  BY FrameWritten, FrameSaid
<1>2. /\ b[i] = c[1] /\ b[i + 1] = c[2] /\ b[i + 2] = c[3]
      /\ b[i + 3] = c[4] /\ b[i + 5] = c[6]
      /\ \A k \in 1..26 : b[(i + k) - 1] = c[k]
      /\ Alike(b, i, c, 1, 24) /\ Alike(b, i, c, 1, 26)
  <2>1. Alike(b, i, c, 1, 26) /\ i \in Int BY <1>0, <1>1
  <2>2. Alike(b, i, c, 1, 24) BY <2>1, HeldBytes
  <2>3. \A k \in 1..26 : b[(i + k) - 1] = c[k]
    <3>1. ASSUME NEW k \in 1..26  PROVE b[(i + k) - 1] = c[k]
      BY <2>1, HeldByte
    <3>. QED BY <3>1
  <2>4. b[i] = c[1] /\ b[i + 1] = c[2] /\ b[i + 2] = c[3]
        /\ b[i + 3] = c[4] /\ b[i + 5] = c[6]
    BY <2>1, HeldBytes
  <2>. QED BY <2>1, <2>2, <2>3, <2>4
<1>3. c[3] = EP_VER /\ c[4] = EP_MSG_STATE /\ c[6] = 18
  <2>1. 2 + 1 = 3 /\ 2 + 2 = 4 /\ 2 + 4 = 6 OBVIOUS
  <2>. QED BY <1>1, <2>1 DEF Written
<1>4. Said(b, i) = s
  <2>1. i \in Int /\ 1 \in Int OBVIOUS
  <2>. QED BY <1>1, <1>2, <2>1, SameSaid
<1>5. SofAt(b, i) /\ IsState(b, i) /\ b[i + 2] = EP_VER
  BY <1>1, <1>2, <1>3 DEF SofAt, IsState
<1>6. FrameLen(b, i) = 26 BY <1>2, <1>3 DEF FrameLen
<1>7. FrameLen(c, 1) = 26
  <2>1. 1 + 5 = 6 OBVIOUS
  <2>2. 8 + c[1 + 5] = 26 BY <1>3, <2>1
  <2>. QED BY <2>2 DEF FrameLen
<1>8. CrcOK(c, 1)
  <2>1. /\ 1 + FrameLen(c, 1) - 1 = 26 /\ 1 + 2 = 3 /\ 26 - 2 = 24
        /\ 26 - 1 = 25 /\ 25 + 1 = 26
    BY <1>7
  <2>2. UShort(c, 25) = c[25] + 256 * c[26] BY <2>1 DEF UShort
  <2>. QED BY <1>1, <2>1, <2>2 DEF CrcOK
<1>9. CrcOK(b, i)
  <2>1. /\ 26 \in Nat /\ 26 >= 8 /\ i + 26 <= Len(b) + 1 /\ 1 + 26 <= Len(c) + 1
        /\ 1 \in Nat /\ 1 <= 1
    BY <1>0, <1>1
  <2>2. CrcOK(b, i) <=> CrcOK(c, 1)
    BY <1>2, <1>6, <1>7, <2>1, SameCheck
  <2>. QED BY <1>8, <2>2
<1>10. Passes(b, i)
  <2>1. i + 7 <= Len(b) /\ i + 26 <= Len(b) + 1 BY <1>0
  <2>. QED BY <1>5, <1>6, <1>9, <2>1 DEF Passes
<1>11. SubSeq(b, i, i + 25) = c
  <2>1. i + 25 \in Nat /\ i <= i + 25 /\ ((i + 25) - i) + 1 = 26 OBVIOUS
  <2>2. PICK u : u = SubSeq(b, i, i + 25) OBVIOUS
  <2>3. u \in Seq(Byte) /\ Len(u) = 26 /\ \A k \in 1..26 : u[k] = b[(i + k) - 1]
    BY <1>0, <2>1, <2>2, Part
  <2>4. u = c
    <3>1. Len(u) = Len(c) /\ \A k \in 1..Len(c) : u[k] = c[k]
      BY <1>1, <1>2, <2>3
    <3>. QED BY <2>3, <3>1, SameBytes
  <2>. QED BY <2>2, <2>4
<1>. QED BY <1>1, <1>4, <1>5, <1>6, <1>10, <1>11

\* With more bytes behind them the same bytes still pass, and say the same.
LEMMA OnFrom ==
  ASSUME NEW b \in Seq(Byte), NEW c, Continues(c, b), NEW i \in Nat, 1 <= i,
         NEW n \in Nat, i + n <= Len(b) + 1
  PROVE  Alike(b, i, c, i, n)
<1>1. Len(b) \in Nat /\ \A k \in 1..Len(b) : c[k] = b[k] BY DEF Continues
<1>2. \A m \in 0..(n - 1) : i + m \in 1..Len(b) BY <1>1
<1>3. \A m \in 0..(n - 1) : b[i + m] = c[i + m] BY <1>1, <1>2
<1>. QED BY <1>3 DEF Alike

-----------------------------------------------------------------------------
\* sof is the first start of a frame in b from i on.
FirstSof(b, i, sof) ==
  /\ sof \in i..(Len(b) + 1)
  /\ sof <= Len(b) => sof + 1 <= Len(b) /\ SofAt(b, sof)
  /\ \A k \in i..(Len(b) - 1) : SofAt(b, k) => sof <= k

LEMMA FindSofFirst ==
  ASSUME NEW b \in Seq(Byte), NEW i \in 1..(Len(b) + 1)
  PROVE  FirstSof(b, i, FindSof(b, i))
<1> DEFINE at == {k \in i..(Len(b) - 1) : SofAt(b, k)}
<1>0. PICK n \in Nat : n = Len(b) OBVIOUS
<1>1. CASE at = {}
  <2>1. FindSof(b, i) = Len(b) + 1 BY <1>1 DEF FindSof
  <2>2. \A k \in i..(Len(b) - 1) : ~SofAt(b, k) BY <1>1
  <2>3. n + 1 \in i..(n + 1) /\ ~(n + 1 <= n) BY <1>0
  <2>. QED BY <1>0, <2>1, <2>2, <2>3 DEF FirstSof
<1>2. CASE at # {}
  <2>1. at \subseteq Nat OBVIOUS
  <2>2. FindSof(b, i) = CHOOSE k \in at : \A m \in at : k <= m
    BY <1>2 DEF FindSof
  <2>. HIDE DEF at
  <2>3. \E k \in at : \A m \in at : k <= m BY <1>2, <2>1, LeastNumber
  <2>4. PICK k : k \in at /\ k = FindSof(b, i) /\ \A m \in at : k <= m
    BY <2>2, <2>3
  <2>5. k \in i..(n - 1) /\ SofAt(b, k) BY <1>0, <2>4 DEF at
  <2>6. k \in i..(n + 1) /\ k + 1 <= n BY <2>5
  <2>7. \A m \in i..(Len(b) - 1) : SofAt(b, m) => k <= m BY <2>4 DEF at
  <2>. QED BY <1>0, <2>4, <2>5, <2>6, <2>7 DEF FirstSof
<1>. QED BY <1>1, <1>2

\* What a turn does, with the first start of a frame at sof: nothing, or it
\* drops what is before the start; or the start is none, and the turn leaves
\* it behind; or it takes a frame.
\* What a turn does, with the first start of a frame at sof: nothing, or it
\* drops what is before the start; or the start is none, and the turn leaves
\* it behind; or it takes a frame.
TurnDoes(b, r, t, sof) ==
  \/ t = r
  \/ t.taken = r.taken /\ t.at = sof /\ ~Passes(b, sof)
  \/ /\ t.taken = r.taken /\ t.at \in {sof + 1, sof + 2} /\ ~Passes(b, sof)
     /\ sof + 7 <= Len(b) /\ sof + FrameLen(b, sof) <= Len(b) + 1
  \/ /\ Passes(b, sof) /\ t.at = sof + FrameLen(b, sof)
     /\ t.taken = r.taken \cup {sof}

\* The number of bytes a frame is announced to have.
LEMMA LenType ==
  ASSUME NEW b \in Seq(Byte), NEW i \in Nat, 1 <= i, i + 7 <= Len(b)
  PROVE  FrameLen(b, i) \in Nat /\ FrameLen(b, i) >= 8
<1>1. i + 5 \in Nat /\ 1 <= i + 5 /\ i + 5 <= Len(b) OBVIOUS
<1>2. b[i + 5] \in Int /\ 0 <= b[i + 5] BY <1>1, Element, ByteIsInt
<1>3. 8 + b[i + 5] \in Nat /\ 8 + b[i + 5] >= 8 BY <1>2
<1>. QED BY <1>3 DEF FrameLen

LEMMA TurnCases ==
  ASSUME NEW b \in Seq(Byte), NEW r \in Reading(b)
  PROVE  TurnDoes(b, r, Turn(b, r), FindSof(b, r.at))
<1>1. r.at \in 1..(Len(b) + 1) BY DEF Reading
<1>2. PICK n \in Nat : n = Len(b) OBVIOUS
<1>3. PICK sof : sof = FindSof(b, r.at) OBVIOUS
<1>4. FirstSof(b, r.at, sof) BY <1>1, <1>3, FindSofFirst
<1>5. sof \in Nat /\ 1 <= sof /\ sof <= n + 1
  <2>1. sof \in (r.at)..(n + 1) /\ r.at \in 1..(n + 1)
    BY <1>1, <1>2, <1>4 DEF FirstSof
  <2>. QED BY <2>1
<1> DEFINE left == Len(b) + 1 - sof
           t == Turn(b, r)
<1>6. CASE Len(b) + 1 - r.at < 8
  <2>1. t = r BY <1>6 DEF Turn
  <2>. QED BY <1>3, <2>1 DEF TurnDoes
<1>7. CASE ~(Len(b) + 1 - r.at < 8) /\ (left < 8 \/ left < FrameLen(b, sof))
  <2>1. t = [r EXCEPT !.at = sof] BY <1>3, <1>7 DEF Turn
  <2>2. t.taken = r.taken /\ t.at = sof
    <3>. HIDE DEF t
    <3>. QED BY <2>1 DEF Reading
  <2>3. ~Passes(b, sof)
    <3>1. ASSUME Passes(b, sof)  PROVE FALSE
      <4>1. sof + 7 <= n /\ sof + FrameLen(b, sof) <= n + 1
        BY <1>2, <3>1 DEF Passes
      <4>2. PICK len \in Nat : len = FrameLen(b, sof)
        BY <1>2, <1>5, <4>1, LenType
      <4>3. left >= 8 /\ left >= len BY <1>2, <1>5, <4>1, <4>2
      <4>. QED BY <1>2, <1>5, <1>7, <4>2, <4>3
    <3>. QED BY <3>1
  <2>. HIDE DEF t
  <2>4. TurnDoes(b, r, t, sof) BY <2>2, <2>3 DEF TurnDoes
  <2>. QED BY <1>3, <2>4 DEF t
<1>8. CASE ~(Len(b) + 1 - r.at < 8) /\ ~(left < 8 \/ left < FrameLen(b, sof))
  <2>1. sof + 7 <= Len(b) BY <1>2, <1>5, <1>8
  <2>2. PICK len \in Nat : len = FrameLen(b, sof) BY <1>5, <2>1, LenType
  <2>3. sof + len <= n + 1 BY <1>2, <1>5, <1>8, <2>2
  <2>4. SofAt(b, sof)
    <3>1. sof <= Len(b) BY <1>2, <1>5, <2>1
    <3>. QED BY <1>4, <3>1 DEF FirstSof
  <2>5. CASE b[sof + 2] # EP_VER
    <3>1. t = [r EXCEPT !.at = sof + 2] BY <1>3, <1>8, <2>5 DEF Turn
    <3>2. t.taken = r.taken /\ t.at = sof + 2
      <4>. HIDE DEF t
      <4>. QED BY <3>1 DEF Reading
    <3>3. ~Passes(b, sof) BY <2>5 DEF Passes
    <3>. HIDE DEF t
    <3>4. TurnDoes(b, r, t, sof)
      BY <1>2, <2>1, <2>2, <2>3, <3>2, <3>3 DEF TurnDoes
    <3>. QED BY <1>3, <3>4 DEF t
  <2>6. CASE b[sof + 2] = EP_VER /\ ~CrcOK(b, sof)
    <3>1. t = [r EXCEPT !.at = sof + 1]
      BY <1>3, <1>8, <2>6 DEF Turn, Resync
    <3>2. t.taken = r.taken /\ t.at = sof + 1
      <4>. HIDE DEF t
      <4>. QED BY <3>1 DEF Reading
    <3>3. ~Passes(b, sof) BY <2>6 DEF Passes
    <3>. HIDE DEF t
    <3>4. TurnDoes(b, r, t, sof)
      BY <1>2, <2>1, <2>2, <2>3, <3>2, <3>3 DEF TurnDoes
    <3>. QED BY <1>3, <3>4 DEF t
  <2>7. CASE b[sof + 2] = EP_VER /\ CrcOK(b, sof)
    <3>1. t = [at |-> sof + FrameLen(b, sof), taken |-> r.taken \cup {sof}]
      BY <1>3, <1>8, <2>7 DEF Turn
    <3>2. t.at = sof + FrameLen(b, sof) /\ t.taken = r.taken \cup {sof}
      <4>. HIDE DEF t
      <4>. QED BY <3>1
    <3>3. Passes(b, sof) BY <1>2, <2>1, <2>2, <2>3, <2>4, <2>7 DEF Passes
    <3>. HIDE DEF t
    <3>4. TurnDoes(b, r, t, sof) BY <3>2, <3>3 DEF TurnDoes
    <3>. QED BY <1>3, <3>4 DEF t
  <2>. QED BY <2>5, <2>6, <2>7
<1>. QED BY <1>6, <1>7, <1>8

\* r after a turn is not before r.
LEMMA TurnsOn ==
  ASSUME NEW b \in Seq(Byte), NEW r \in Reading(b), NEW t \in Reading(b),
         NEW sof, FirstSof(b, r.at, sof), TurnDoes(b, r, t, sof)
  PROVE  /\ sof \in Nat /\ 1 <= sof /\ sof <= Len(b) + 1
         /\ r.at \in Nat /\ r.at <= sof /\ t.at \in Nat /\ r.at <= t.at
         /\ Passes(b, sof) => FrameLen(b, sof) \in Nat /\ FrameLen(b, sof) >= 8
<1>1. PICK n \in Nat : n = Len(b) OBVIOUS
<1>2. r.at \in 1..(n + 1) /\ t.at \in 1..(n + 1) BY <1>1 DEF Reading
<1>3. sof \in (r.at)..(n + 1) BY <1>1 DEF FirstSof
<1>4. sof \in Nat /\ 1 <= sof /\ sof <= n + 1 /\ r.at \in Nat /\ r.at <= sof
      /\ t.at \in Nat
  BY <1>2, <1>3
<1>5. ASSUME Passes(b, sof)
      PROVE  FrameLen(b, sof) \in Nat /\ FrameLen(b, sof) >= 8
  <2>1. sof + 7 <= Len(b) BY <1>5 DEF Passes
  <2>. QED BY <1>4, <2>1, LenType
<1>6. r.at <= t.at
  <2>1. CASE t = r BY <1>4, <2>1
  <2>2. CASE t.at = sof BY <1>4, <2>2
  <2>3. CASE t.at \in {sof + 1, sof + 2} BY <1>4, <2>3
  <2>4. CASE Passes(b, sof) /\ t.at = sof + FrameLen(b, sof)
    BY <1>4, <1>5, <2>4
  <2>. QED BY <2>1, <2>2, <2>3, <2>4 DEF TurnDoes
<1>. QED BY <1>1, <1>4, <1>5, <1>6

-----------------------------------------------------------------------------
\* More bytes behind them do not change the bytes that are there.
LEMMA HoldsOn ==
  ASSUME NEW b \in Seq(Byte), NEW c, Continues(c, b), NEW s, NEW i \in Nat,
         1 <= i, Holds(b, i, s)
  PROVE  Holds(c, i, s)
<1>1. i + 25 <= Len(b) /\ Alike(b, i, Frame(s), 1, 26) BY DEF Holds
<1>2. Len(b) \in Nat /\ Len(c) \in Nat /\ Len(b) <= Len(c) BY DEF Continues
<1>3. 26 \in Nat /\ i + 26 <= Len(b) + 1 /\ i + 25 <= Len(c) BY <1>1, <1>2
<1>4. Alike(b, i, c, i, 26) BY <1>3, OnFrom
<1>. QED BY <1>1, <1>3, <1>4 DEF Holds, Alike

\* What is held by the first bytes of c, as far as they go.
LEMMA HoldsBefore ==
  ASSUME NEW b \in Seq(Byte), NEW c, Continues(c, b), NEW s, NEW i \in Nat,
         1 <= i, Holds(c, i, s), i + 25 <= Len(b)
  PROVE  Holds(b, i, s)
<1>1. Alike(c, i, Frame(s), 1, 26) BY DEF Holds
<1>2. 26 \in Nat /\ i + 26 <= Len(b) + 1 BY DEF Continues
<1>3. Alike(b, i, c, i, 26) BY <1>2, OnFrom
<1>. QED BY <1>1, <1>3 DEF Holds, Alike

\* The frames of S are in c, one behind the other.
Sents == [at : Nat, says : States]

LaidOut(c, S) ==
  /\ S \subseteq Sents
  /\ \A s \in S : 1 <= s.at /\ Holds(c, s.at, s.says)
  /\ \A s, u \in S : s.at < u.at => s.at + 26 <= u.at

LEMMA LaidPasses ==
  ASSUME Crc16Bit, NEW c \in Seq(Byte), NEW S, LaidOut(c, S), NEW s \in S
  PROVE  /\ s.at \in Nat /\ 1 <= s.at /\ s.at + 25 <= Len(c)
         /\ s.says \in States /\ Holds(c, s.at, s.says)
         /\ SofAt(c, s.at) /\ c[s.at + 5] = 18
<1>1. PICK i \in Nat : i = s.at /\ 1 <= i /\ Holds(c, i, s.says)
  BY DEF LaidOut, Sents
<1>2. s.says \in States BY DEF LaidOut, Sents
<1>3. SofAt(c, i) /\ IsState(c, i) BY <1>1, <1>2, HeldPasses
<1>4. i + 25 <= Len(c) BY <1>1 DEF Holds
<1>5. c[i + 5] = 18 BY <1>3 DEF IsState
<1>. QED BY <1>1, <1>2, <1>3, <1>4, <1>5

LEMMA LaidOn ==
  ASSUME NEW b \in Seq(Byte), NEW c, Continues(c, b), NEW S, LaidOut(b, S)
  PROVE  LaidOut(c, S)
<1>1. ASSUME NEW s \in S  PROVE Holds(c, s.at, s.says)
  <2>1. PICK i \in Nat : i = s.at /\ 1 <= i /\ Holds(b, i, s.says)
    BY DEF LaidOut, Sents
  <2>. QED BY <2>1, HoldsOn
<1>. QED BY <1>1 DEF LaidOut

\* Of the first bytes of c only the frames that are whole in them.
LEMMA LaidBefore ==
  ASSUME NEW b \in Seq(Byte), NEW c, Continues(c, b), NEW S, LaidOut(c, S)
  PROVE  LaidOut(b, {s \in S : s.at + 25 <= Len(b)})
<1>1. ASSUME NEW s \in S, s.at + 25 <= Len(b)  PROVE Holds(b, s.at, s.says)
  <2>1. PICK i \in Nat : i = s.at /\ 1 <= i /\ Holds(c, i, s.says)
    BY DEF LaidOut, Sents
  <2>. QED BY <1>1, <2>1, HoldsBefore
<1>. QED BY <1>1 DEF LaidOut

\* A frame is written behind the bytes.
LEMMA LaidMore ==
  ASSUME Crc16Bit, NEW b \in Seq(Byte), NEW S, LaidOut(b, S), NEW s \in States
  PROVE  LaidOut(b \o Frame(s), S \cup {[at |-> Len(b) + 1, says |-> s]})
<1>1. PICK n \in Nat : n = Len(b) OBVIOUS
<1>2. PICK f \in Seq(Byte) : f = Frame(s) /\ Len(f) = 26 BY FrameWritten
<1>c. PICK c : c = b \o f OBVIOUS
<1>3. /\ c \in Seq(Byte) /\ Len(c) = n + 26 /\ Continues(c, b)
      /\ \A k \in 1..26 : c[n + k] = f[k]
  <2>1. /\ c \in Seq(Byte) /\ Len(c) = Len(b) + Len(f) /\ Continues(c, b)
        /\ \A k \in 1..Len(f) : c[Len(b) + k] = f[k]
    BY <1>c, ConcatBytes
  <2>. QED BY <1>1, <1>2, <2>1
<1>l. PICK m \in Nat : m = Len(c) /\ m = n + 26 BY <1>3
<1>4. Holds(c, n + 1, s)
  <2>1. (n + 1) + 25 <= Len(c) BY <1>l
  <2>2. \A k \in 0..(26 - 1) : k + 1 \in 1..26 /\ (n + 1) + k = n + (k + 1)
                              /\ 1 + k = k + 1
    OBVIOUS
  <2>3. Alike(c, n + 1, f, 1, 26) BY <1>3, <2>2 DEF Alike
  <2>. QED BY <1>2, <2>1, <2>3 DEF Holds
<1>5. PICK u : u = [at |-> n + 1, says |-> s] OBVIOUS
<1>6. u \in Sents /\ u.at = n + 1 /\ u.says = s BY <1>5 DEF Sents
<1>7. LaidOut(c, S) BY <1>3, LaidOn
<1>8. ASSUME NEW t \in S  PROVE t.at \in Nat /\ t.at + 26 <= n + 1
  <2>1. PICK i \in Nat : i = t.at /\ Holds(b, i, t.says)
    BY DEF LaidOut, Sents
  <2>2. i + 25 <= n BY <1>1, <2>1 DEF Holds
  <2>. QED BY <2>1, <2>2
<1>9. S \cup {u} \subseteq Sents BY <1>6, <1>7 DEF LaidOut
<1>10. ASSUME NEW t \in S \cup {u}  PROVE 1 <= t.at /\ Holds(c, t.at, t.says)
  BY <1>4, <1>6, <1>7 DEF LaidOut
<1>11. ASSUME NEW t \in S \cup {u}, NEW v \in S \cup {u}, t.at < v.at
       PROVE  t.at + 26 <= v.at
  <2>1. CASE t \in S /\ v \in S BY <1>7, <1>11, <2>1 DEF LaidOut
  <2>2. CASE t \in S /\ v = u BY <1>6, <1>8, <2>2
  <2>3. CASE t = u /\ v \in S
    <3>1. v.at \in Nat /\ v.at + 26 <= n + 1 BY <1>8, <2>3
    <3>. QED BY <1>6, <1>11, <2>3, <3>1
  <2>4. CASE t = u /\ v = u BY <1>6, <1>11, <2>4
  <2>. QED BY <2>1, <2>2, <2>3, <2>4
<1>12. LaidOut(c, S \cup {u}) BY <1>9, <1>10, <1>11 DEF LaidOut
<1>. QED BY <1>1, <1>2, <1>c, <1>5, <1>12

-----------------------------------------------------------------------------
\* The frames from position k on, when what is before it has been consumed.
From(S, k) == {[s EXCEPT !.at = s.at + 1 - k] : s \in {s \in S : s.at >= k}}

LEMMA FromIs ==
  ASSUME NEW S, S \subseteq Sents, NEW k \in Nat, 1 <= k
  PROVE  /\ From(S, k) \subseteq Sents
         /\ \A t \in From(S, k) : \E s \in S :
              s.at >= k /\ t.at = s.at + 1 - k /\ t.says = s.says
         /\ \A s \in S : s.at >= k =>
              \E t \in From(S, k) : t.at = s.at + 1 - k /\ t.says = s.says
<1>1. ASSUME NEW s \in Sents, s.at >= k, NEW t,
             t = [s EXCEPT !.at = s.at + 1 - k]
      PROVE  t \in Sents /\ t.at = s.at + 1 - k /\ t.says = s.says
  <2>1. PICK i \in Nat : i = s.at BY DEF Sents
  <2>2. i + 1 - k \in Nat BY <1>1, <2>1
  <2>. QED BY <1>1, <2>1, <2>2 DEF Sents
<1>2. ASSUME NEW t \in From(S, k)
      PROVE  /\ t \in Sents
             /\ \E s \in S : s.at >= k /\ t.at = s.at + 1 - k /\ t.says = s.says
  <2>1. PICK s \in S : s.at >= k /\ t = [s EXCEPT !.at = s.at + 1 - k]
    BY DEF From
  <2>2. s \in Sents OBVIOUS
  <2>. QED BY <1>1, <2>1, <2>2
<1>3. ASSUME NEW s \in S, s.at >= k
      PROVE  \E t \in From(S, k) : t.at = s.at + 1 - k /\ t.says = s.says
  <2>1. PICK t : t = [s EXCEPT !.at = s.at + 1 - k] OBVIOUS
  <2>2. t \in From(S, k) BY <1>3, <2>1 DEF From
  <2>3. s \in Sents OBVIOUS
  <2>. QED BY <1>1, <1>3, <2>1, <2>2, <2>3
<1>. QED BY <1>2, <1>3

\* c without what is before position k.
Behind(c, k) == SubSeq(c, k, Len(c))

LEMMA BehindIs ==
  ASSUME NEW c \in Seq(Byte), NEW k \in 1..(Len(c) + 1)
  PROVE  /\ Behind(c, k) \in Seq(Byte) /\ Len(Behind(c, k)) = Len(c) + 1 - k
         /\ \A x \in 1..(Len(c) + 1 - k) : Behind(c, k)[x] = c[(k + x) - 1]
<1>1. k \in Nat /\ Len(c) \in Nat /\ 1 <= k /\ k <= Len(c) + 1 OBVIOUS
<1>. QED BY <1>1 DEF Behind

LEMMA LaidBehind ==
  ASSUME NEW c \in Seq(Byte), NEW S, LaidOut(c, S), NEW k \in 1..(Len(c) + 1)
  PROVE  LaidOut(Behind(c, k), From(S, k))
<1>1. PICK n \in Nat : n = Len(c) OBVIOUS
<1>k. k \in Nat /\ 1 <= k /\ k <= n + 1 BY <1>1
<1>b. PICK b : b = Behind(c, k) OBVIOUS
<1>2. /\ b \in Seq(Byte) /\ Len(b) = n + 1 - k
      /\ \A x \in 1..(n + 1 - k) : b[x] = c[(k + x) - 1]
  BY <1>1, <1>b, BehindIs
<1>T. PICK T : T = From(S, k) OBVIOUS
<1>3. /\ T \subseteq Sents
      /\ \A t \in T : \E s \in S :
           s.at >= k /\ t.at = s.at + 1 - k /\ t.says = s.says
  <2>1. S \subseteq Sents BY DEF LaidOut
  <2>. QED BY <1>k, <1>T, <2>1, FromIs
<1>4. ASSUME NEW t \in T  PROVE 1 <= t.at /\ Holds(b, t.at, t.says)
  <2>1. PICK s \in S : s.at >= k /\ t.at = s.at + 1 - k /\ t.says = s.says
    BY <1>3
  <2>2. PICK i \in Nat : i = s.at /\ Holds(c, i, s.says)
    BY DEF LaidOut, Sents
  <2>3. PICK j \in Nat : j = i + 1 - k /\ j >= 1 /\ i = (k + j) - 1
    <3>1. i + 1 - k \in Nat /\ i + 1 - k >= 1 BY <1>k, <2>1, <2>2
    <3>. QED BY <1>k, <3>1
  <2>4. i + 25 <= n /\ j + 25 <= Len(b) BY <1>1, <1>k, <1>2, <2>2, <2>3 DEF Holds
  <2>5. ASSUME NEW x \in 0..25  PROVE b[j + x] = c[i + x]
    <3>1. j + x \in 1..(n + 1 - k) /\ (k + (j + x)) - 1 = i + x
      BY <1>k, <2>3, <2>4
    <3>. QED BY <1>2, <3>1
  <2>6. 26 - 1 = 25 OBVIOUS
  <2>7. Holds(b, j, s.says) BY <2>2, <2>4, <2>5, <2>6 DEF Holds, Alike
  <2>. QED BY <2>1, <2>2, <2>3, <2>7
<1>5. ASSUME NEW t \in T, NEW v \in T, t.at < v.at  PROVE t.at + 26 <= v.at
  <2>1. PICK s \in S : s.at >= k /\ t.at = s.at + 1 - k BY <1>3
  <2>2. PICK u \in S : u.at >= k /\ v.at = u.at + 1 - k BY <1>3
  <2>3. PICK i, j \in Nat : i = s.at /\ j = u.at BY DEF LaidOut, Sents
  <2>4. i < j BY <1>k, <1>5, <2>1, <2>2, <2>3
  <2>5. i + 26 <= j BY <2>3, <2>4 DEF LaidOut
  <2>. QED BY <1>k, <2>1, <2>2, <2>3, <2>5
<1>6. LaidOut(b, T) BY <1>3, <1>4, <1>5 DEF LaidOut
<1>. QED BY <1>b, <1>T, <1>6

-----------------------------------------------------------------------------
\* In between the turns: the frames that were passed have been taken, or the
\* part of one that is in b is its first byte at most.
InTurn(S, b, r) ==
  \A s \in S : s.at < r.at => s.at \in r.taken \/ Len(b) <= s.at

\* Nothing else was taken for a frame.
Whole(S, b, r) == \A i \in r.taken : IsState(b, i) /\ \E s \in S : s.at = i

\* No turn passes a frame that is ahead, unless it takes one.
LEMMA NotPassed ==
  ASSUME Crc16Bit, NEW b \in Seq(Byte), NEW c, Continues(c, b),
         NEW S, LaidOut(c, S),
         NEW r \in Reading(b), NEW t \in Reading(b),
         NEW sof, FirstSof(b, r.at, sof), TurnDoes(b, r, t, sof),
         NEW s \in S, r.at <= s.at, s.at < Len(b)
  PROVE  /\ sof <= s.at
         /\ t = r \/ Passes(b, sof) \/ t.at <= s.at
<1>1. /\ sof \in Nat /\ 1 <= sof
      /\ r.at \in Nat /\ r.at <= sof /\ t.at \in Nat /\ r.at <= t.at
  BY TurnsOn
<1>2. /\ c \in Seq(Byte) /\ Len(b) \in Nat /\ Len(c) \in Nat
      /\ Len(b) <= Len(c) /\ \A k \in 1..Len(b) : c[k] = b[k]
  BY DEF Continues
<1>3. PICK p \in Nat : p = s.at /\ 1 <= p
  BY <1>2, LaidPasses
<1>4. /\ p + 25 <= Len(c) /\ SofAt(c, p) /\ c[p + 5] = 18
      /\ Holds(c, p, s.says) /\ s.says \in States
  BY <1>2, <1>3, LaidPasses
<1>5. SofAt(b, p)
  <2>1. p \in 1..Len(b) /\ p + 1 \in 1..Len(b) BY <1>2, <1>3
  <2>. QED BY <1>2, <1>4, <2>1 DEF SofAt
<1>6. sof <= p
  <2>1. p \in (r.at)..(Len(b) - 1) BY <1>1, <1>2, <1>3
  <2>. QED BY <1>5, <2>1 DEF FirstSof
<1>7. CASE /\ t.at \in {sof + 1, sof + 2} /\ ~Passes(b, sof)
           /\ sof + 7 <= Len(b) /\ sof + FrameLen(b, sof) <= Len(b) + 1
  <2>1. p # sof
    <3>1. ASSUME p = sof  PROVE FALSE
      <4>1. sof + 5 \in 1..Len(b) BY <1>1, <1>2, <1>7
      <4>2. b[sof + 5] = 18 BY <1>2, <1>4, <3>1, <4>1
      <4>3. FrameLen(b, sof) = 26 BY <4>2 DEF FrameLen
      <4>4. sof + 25 <= Len(b) BY <1>1, <1>2, <1>7, <4>3
      <4>5. Holds(b, sof, s.says) BY <1>1, <1>4, <3>1, <4>4, HoldsBefore
      <4>6. Passes(b, sof) BY <1>1, <1>4, <4>5, HeldPasses
      <4>. QED BY <1>7, <4>6
    <3>. QED BY <3>1
  <2>2. p # sof + 1
    <3>1. SofAt(b, sof)
      <4>1. sof <= Len(b) BY <1>1, <1>2, <1>7
      <4>. QED BY <4>1 DEF FirstSof
    <3>2. EP_SOF1 # EP_SOF2 BY DEF EP_SOF1, EP_SOF2
    <3>. QED BY <1>5, <3>1, <3>2 DEF SofAt
  <2>3. t.at <= p BY <1>1, <1>3, <1>6, <1>7, <2>1, <2>2
  <2>. QED BY <1>3, <1>6, <2>3
<1>. QED BY <1>3, <1>6, <1>7 DEF TurnDoes

LEMMA InTurnOn ==
  ASSUME Crc16Bit, NEW b \in Seq(Byte), NEW c, Continues(c, b),
         NEW S, LaidOut(c, S),
         NEW r \in Reading(b), NEW t \in Reading(b),
         NEW sof, FirstSof(b, r.at, sof), TurnDoes(b, r, t, sof),
         Whole(S, b, r) => InTurn(S, b, r)
  PROVE  Whole(S, b, t) => InTurn(S, b, t)
<1>. SUFFICES ASSUME Whole(S, b, t)  PROVE InTurn(S, b, t)
  OBVIOUS
<1>1. /\ sof \in Nat /\ 1 <= sof
      /\ r.at \in Nat /\ r.at <= sof /\ t.at \in Nat /\ r.at <= t.at
  BY TurnsOn
<1>2. r.taken \subseteq t.taken BY DEF TurnDoes
<1>3. InTurn(S, b, r) BY <1>2 DEF Whole
<1>. SUFFICES ASSUME NEW s \in S, s.at < t.at, s.at < Len(b)
              PROVE  s.at \in t.taken
  <2>1. ASSUME NEW s \in S  PROVE s.at < Len(b) \/ Len(b) <= s.at
    <3>1. s.at \in Nat /\ Len(b) \in Nat BY DEF LaidOut, Sents, Continues
    <3>. QED BY <3>1
  <2>. QED BY <2>1 DEF InTurn
<1>4. s.at \in Nat /\ Len(b) \in Nat BY DEF LaidOut, Sents, Continues
<1>5. CASE s.at < r.at
  <2>1. s.at \in r.taken BY <1>3, <1>4, <1>5 DEF InTurn
  <2>. QED BY <1>2, <2>1
<1>6. CASE r.at <= s.at
  <2>1. sof <= s.at /\ (t = r \/ Passes(b, sof) \/ t.at <= s.at)
    BY <1>6, NotPassed
  <2>2. t # r /\ ~(t.at <= s.at) BY <1>1, <1>4, <1>6
  <2>3. Passes(b, sof) BY <2>1, <2>2
  <2>4. t.at = sof + FrameLen(b, sof) /\ t.taken = r.taken \cup {sof}
    BY <2>2, <2>3 DEF TurnDoes
  <2>5. IsState(b, sof) /\ \E u \in S : u.at = sof BY <2>4 DEF Whole
  <2>6. FrameLen(b, sof) = 26 BY <2>5 DEF IsState, FrameLen
  <2>7. PICK u \in S : u.at = sof BY <2>5
  <2>8. s.at = sof
    <3>1. s.at < sof + 26 BY <2>4, <2>6
    <3>2. sof < s.at => sof + 26 <= s.at BY <2>7 DEF LaidOut
    <3>. QED BY <1>1, <1>4, <2>1, <3>1, <3>2
  <2>. QED BY <2>4, <2>8
<1>. QED BY <1>1, <1>4, <1>5, <1>6

LEMMA ReadInPlace ==
  ASSUME Crc16Bit, NEW b \in Seq(Byte), NEW c, Continues(c, b),
         NEW S, LaidOut(c, S)
  PROVE  Whole(S, b, ReadFrames(b)) => InTurn(S, b, ReadFrames(b))
<1>1. PICK n \in Nat \ {0} : \E f : Turns(b, f, n) /\ ReadFrames(b) = f[n]
  BY ReadInTurns
<1>2. PICK f : Turns(b, f, n) /\ ReadFrames(b) = f[n] BY <1>1
<1>3. /\ f[0] = Unread /\ \A j \in 1..n : f[j] = Turn(b, f[j - 1])
      /\ \A j \in 0..n : f[j] \in Reading(b)
  BY <1>2 DEF Turns
<1> DEFINE Good(r) == Whole(S, b, r) => InTurn(S, b, r)
           G == {j \in 0..n : Good(f[j])}
<1>4. 0 \in G
  <2>1. \A s \in S : s.at \in Nat /\ 1 <= s.at BY DEF LaidOut, Sents
  <2>2. PICK r : r = Unread OBVIOUS
  <2>3. r.at = 1 BY <2>2 DEF Unread
  <2>4. InTurn(S, b, r) BY <2>1, <2>3 DEF InTurn
  <2>5. 0 \in 0..n OBVIOUS
  <2>. QED BY <1>3, <2>2, <2>4, <2>5
<1>5. ASSUME NEW j \in 1..n, j - 1 \in G  PROVE j \in G
  <2>1. j \in 0..n /\ j - 1 \in 0..n OBVIOUS
  <2>2. PICK r, t : r = f[j - 1] /\ t = f[j] OBVIOUS
  <2>3. r \in Reading(b) /\ t \in Reading(b) /\ t = Turn(b, r)
    BY <1>3, <2>1, <2>2
  <2>4. PICK sof : sof = FindSof(b, r.at) OBVIOUS
  <2>5. FirstSof(b, r.at, sof)
    <3>1. r.at \in 1..(Len(b) + 1) BY <2>3 DEF Reading
    <3>. QED BY <2>4, <3>1, FindSofFirst
  <2>6. TurnDoes(b, r, t, sof) BY <2>3, <2>4, TurnCases
  <2>7. Good(r) BY <1>5, <2>2
  <2>8. Good(t) BY <2>3, <2>5, <2>6, <2>7, InTurnOn
  <2>. QED BY <2>1, <2>2, <2>8
<1>6. \A j \in 0..n : j \in G
  <2>. HIDE DEF G
  <2>. QED BY <1>4, <1>5, UpTo
<1>7. n \in G BY <1>6
<1>. QED BY <1>2, <1>7

-----------------------------------------------------------------------------
\* Between the frames there is nothing else: c begins with one of them, and
\* behind each is the next or the end.
AtStart(c, S, p) == p = Len(c) + 1 \/ \E s \in S : s.at = p

Tiled(c, S) == AtStart(c, S, 1) /\ \A s \in S : AtStart(c, S, s.at + 26)

\* In between the turns: the next frame is at r.at, and those before it have
\* been taken.
InTile(c, S, r) ==
  /\ AtStart(c, S, r.at)
  /\ \A i \in r.taken : i + 26 <= r.at /\ \E s \in S : s.at = i
  /\ \A s \in S : s.at < r.at => s.at \in r.taken

\* A turn takes the frame that is next, or waits for the rest of it.
LEMMA InTileOn ==
  ASSUME Crc16Bit, NEW b \in Seq(Byte), NEW c, Continues(c, b),
         NEW S, LaidOut(c, S), Tiled(c, S),
         NEW r \in Reading(b), InTile(c, S, r)
  PROVE  InTile(c, S, Turn(b, r))
<1>1. PICK t : t = Turn(b, r) OBVIOUS
<1>2. t \in Reading(b) BY <1>1, TurnType
<1>3. PICK sof : sof = FindSof(b, r.at) OBVIOUS
<1>4. FirstSof(b, r.at, sof)
  <2>1. r.at \in 1..(Len(b) + 1) BY DEF Reading
  <2>. QED BY <1>3, <2>1, FindSofFirst
<1>5. TurnDoes(b, r, t, sof) BY <1>1, <1>3, TurnCases
<1>6. /\ sof \in Nat /\ 1 <= sof
      /\ r.at \in Nat /\ r.at <= sof /\ t.at \in Nat /\ r.at <= t.at
  BY <1>2, <1>4, <1>5, TurnsOn
<1>7. /\ c \in Seq(Byte) /\ Len(b) \in Nat /\ Len(c) \in Nat
      /\ Len(b) <= Len(c) /\ \A k \in 1..Len(b) : c[k] = b[k]
  BY DEF Continues
<1>8. CASE Len(b) + 1 - r.at < 8
  <2>1. t = r BY <1>1, <1>8 DEF Turn
  <2>. QED BY <1>1, <2>1
<1>9. CASE ~(Len(b) + 1 - r.at < 8)
  <2>1. r.at + 7 <= Len(b) BY <1>6, <1>7, <1>9
  <2>2. PICK s \in S : s.at = r.at
    <3>1. r.at # Len(c) + 1 BY <1>6, <1>7, <2>1
    <3>. QED BY <3>1 DEF InTile, AtStart
  <2>3. /\ s.at + 25 <= Len(c) /\ s.says \in States /\ Holds(c, s.at, s.says)
        /\ SofAt(c, s.at) /\ c[s.at + 5] = 18
    BY <1>7, LaidPasses
  <2>4. SofAt(b, r.at)
    <3>1. r.at \in 1..Len(b) /\ r.at + 1 \in 1..Len(b)
      <4>1. 1 <= r.at BY DEF Reading
      <4>. QED BY <1>6, <1>7, <2>1, <4>1
    <3>. QED BY <1>7, <2>2, <2>3, <3>1 DEF SofAt
  <2>5. sof = r.at
    <3>1. r.at \in (r.at)..(Len(b) - 1) BY <1>6, <1>7, <2>1
    <3>2. sof <= r.at BY <1>4, <2>4, <3>1 DEF FirstSof
    <3>. QED BY <1>6, <3>2
  <2>6. CASE t.at = r.at /\ t.taken = r.taken
    BY <1>1, <2>6 DEF InTile
  <2>7. CASE t.at # r.at /\ ~Passes(b, sof)
    <3>1. sof + 7 <= Len(b) /\ sof + FrameLen(b, sof) <= Len(b) + 1
      BY <1>5, <2>5, <2>7 DEF TurnDoes
    <3>2. sof + 5 \in 1..Len(b) BY <1>6, <1>7, <3>1
    <3>3. b[sof + 5] = 18 BY <1>7, <2>2, <2>3, <2>5, <3>2
    <3>4. FrameLen(b, sof) = 26 BY <3>3 DEF FrameLen
    <3>5. sof + 25 <= Len(b) BY <1>6, <1>7, <3>1, <3>4
    <3>6. Holds(b, sof, s.says)
      BY <1>6, <2>2, <2>3, <2>5, <3>5, HoldsBefore
    <3>7. Passes(b, sof) BY <1>6, <2>3, <3>6, HeldPasses
    <3>. QED BY <2>7, <3>7
  <2>8. CASE /\ Passes(b, sof) /\ t.at = sof + FrameLen(b, sof)
             /\ t.taken = r.taken \cup {sof}
    <3>1. sof + 5 \in 1..Len(b) BY <1>6, <1>7, <2>1, <2>5
    <3>2. b[sof + 5] = 18 BY <1>7, <2>2, <2>3, <2>5, <3>1
    <3>3. FrameLen(b, sof) = 26 BY <3>2 DEF FrameLen
    <3>4. t.at = r.at + 26 BY <2>5, <2>8, <3>3
    <3>5. AtStart(c, S, t.at) BY <2>2, <3>4 DEF Tiled
    <3>6. ASSUME NEW i \in t.taken
          PROVE  i + 26 <= t.at /\ \E u \in S : u.at = i
      <4>1. CASE i = sof BY <1>6, <2>2, <2>5, <3>4, <4>1
      <4>2. CASE i \in r.taken
        <5>1. i + 26 <= r.at /\ \E u \in S : u.at = i BY <4>2 DEF InTile
        <5>2. i \in Nat BY <4>2 DEF Reading
        <5>. QED BY <1>6, <3>4, <5>1, <5>2
      <4>. QED BY <2>8, <4>1, <4>2
    <3>7. ASSUME NEW u \in S, u.at < t.at  PROVE u.at \in t.taken
      <4>0. u.at \in Nat BY DEF LaidOut, Sents
      <4>1. CASE u.at < r.at
        <5>1. u.at \in r.taken BY <4>1 DEF InTile
        <5>. QED BY <2>8, <5>1
      <4>2. CASE u.at = r.at BY <2>5, <2>8, <4>2
      <4>3. CASE r.at < u.at
        <5>1. r.at + 26 <= u.at BY <2>2, <4>3 DEF LaidOut
        <5>. QED BY <1>6, <3>4, <3>7, <4>0, <5>1
      <4>. QED BY <1>6, <4>0, <4>1, <4>2, <4>3
    <3>8. InTile(c, S, t) BY <3>5, <3>6, <3>7 DEF InTile
    <3>. QED BY <1>1, <3>8
  <2>9. t.at = r.at /\ t.taken # r.taken => Passes(b, sof)
    BY <1>5 DEF TurnDoes
  <2>. QED BY <1>5, <2>5, <2>6, <2>7, <2>8, <2>9 DEF TurnDoes
<1>. QED BY <1>8, <1>9

LEMMA ReadTiled ==
  ASSUME Crc16Bit, NEW b \in Seq(Byte), NEW c, Continues(c, b),
         NEW S, LaidOut(c, S), Tiled(c, S)
  PROVE  InTile(c, S, ReadFrames(b))
<1>1. PICK n \in Nat \ {0} : \E f : Turns(b, f, n) /\ ReadFrames(b) = f[n]
  BY ReadInTurns
<1>2. PICK f : Turns(b, f, n) /\ ReadFrames(b) = f[n] BY <1>1
<1>3. /\ f[0] = Unread /\ \A j \in 1..n : f[j] = Turn(b, f[j - 1])
      /\ \A j \in 0..n : f[j] \in Reading(b)
  BY <1>2 DEF Turns
<1> DEFINE G == {j \in 0..n : InTile(c, S, f[j])}
<1>4. 0 \in G
  <2>1. \A s \in S : s.at \in Nat /\ 1 <= s.at BY DEF LaidOut, Sents
  <2>2. PICK r : r = Unread OBVIOUS
  <2>3. r.at = 1 /\ r.taken = {} BY <2>2 DEF Unread
  <2>4. InTile(c, S, r) BY <2>1, <2>3 DEF InTile, Tiled
  <2>5. 0 \in 0..n OBVIOUS
  <2>. QED BY <1>3, <2>2, <2>4, <2>5
<1>5. ASSUME NEW j \in 1..n, j - 1 \in G  PROVE j \in G
  <2>1. j \in 0..n /\ j - 1 \in 0..n OBVIOUS
  <2>2. PICK r, t : r = f[j - 1] /\ t = f[j] OBVIOUS
  <2>3. r \in Reading(b) /\ t = Turn(b, r) BY <1>3, <2>1, <2>2
  <2>4. InTile(c, S, r) BY <1>5, <2>2
  <2>5. InTile(c, S, t) BY <2>3, <2>4, InTileOn
  <2>. QED BY <2>1, <2>2, <2>5
<1>6. \A j \in 0..n : j \in G
  <2>. HIDE DEF G
  <2>. QED BY <1>4, <1>5, UpTo
<1>7. n \in G BY <1>6
<1>. QED BY <1>2, <1>7

\* A frame more, and what has been read less.
LEMMA TiledMore ==
  ASSUME NEW b \in Seq(Byte), NEW S, LaidOut(b, S), Tiled(b, S),
         NEW c \in Seq(Byte), Len(c) = Len(b) + 26, NEW s, s.at = Len(b) + 1
  PROVE  Tiled(c, S \cup {s})
<1>1. PICK n \in Nat : n = Len(b) OBVIOUS
<1>2. PICK m \in Nat : m = Len(c) /\ m = n + 26 BY <1>1
<1>3. ASSUME NEW p \in Nat, AtStart(b, S, p)  PROVE AtStart(c, S \cup {s}, p)
  <2>1. CASE p = n + 1 BY <1>1, <2>1 DEF AtStart
  <2>2. CASE p # n + 1 BY <1>1, <1>3, <2>2 DEF AtStart
  <2>. QED BY <2>1, <2>2
<1>4. AtStart(c, S \cup {s}, 1) BY <1>3 DEF Tiled
<1>5. ASSUME NEW u \in S \cup {s}  PROVE AtStart(c, S \cup {s}, u.at + 26)
  <2>1. CASE u \in S
    <3>1. u.at \in Nat BY <2>1 DEF LaidOut, Sents
    <3>2. u.at + 26 \in Nat BY <3>1
    <3>3. AtStart(b, S, u.at + 26) BY <2>1 DEF Tiled
    <3>. QED BY <1>3, <3>2, <3>3
  <2>2. CASE u = s
    <3>1. u.at + 26 = m + 1 BY <1>1, <1>2, <2>2
    <3>. QED BY <1>2, <3>1 DEF AtStart
  <2>. QED BY <2>1, <2>2
<1>. QED BY <1>4, <1>5 DEF Tiled

LEMMA TiledBehind ==
  ASSUME NEW c \in Seq(Byte), NEW S, LaidOut(c, S), Tiled(c, S),
         NEW k \in 1..(Len(c) + 1), AtStart(c, S, k)
  PROVE  Tiled(Behind(c, k), From(S, k))
<1>1. PICK n \in Nat : n = Len(c) OBVIOUS
<1>k. k \in Nat /\ 1 <= k /\ k <= n + 1 BY <1>1
<1>b. PICK b : b = Behind(c, k) OBVIOUS
<1>T. PICK T : T = From(S, k) OBVIOUS
<1>2. Len(b) = n + 1 - k BY <1>1, <1>b, BehindIs
<1>m. PICK m \in Nat : m = Len(b) /\ m = n + 1 - k
  <2>1. n + 1 - k \in Nat BY <1>k
  <2>. QED BY <1>2, <2>1
<1>3. /\ \A t \in T : \E s \in S : s.at >= k /\ t.at = s.at + 1 - k
      /\ \A s \in S : s.at >= k => \E t \in T : t.at = s.at + 1 - k
  <2>1. S \subseteq Sents BY DEF LaidOut
  <2>. QED BY <1>k, <1>T, <2>1, FromIs
<1>4. ASSUME NEW p \in Nat, p >= k, AtStart(c, S, p)
      PROVE  AtStart(b, T, p + 1 - k)
  <2>1. CASE p = n + 1
    <3>1. p + 1 - k = m + 1 BY <1>k, <1>m, <2>1
    <3>. QED BY <1>m, <3>1 DEF AtStart
  <2>2. CASE p # n + 1
    <3>1. PICK s \in S : s.at = p BY <1>1, <1>4, <2>2 DEF AtStart
    <3>2. PICK t \in T : t.at = p + 1 - k BY <1>3, <1>4, <3>1
    <3>. QED BY <3>2 DEF AtStart
  <2>. QED BY <2>1, <2>2
<1>5. AtStart(b, T, 1)
  <2>1. AtStart(b, T, k + 1 - k) BY <1>k, <1>4
  <2>2. k + 1 - k = 1 BY <1>k
  <2>. QED BY <2>1, <2>2
<1>6. ASSUME NEW t \in T  PROVE AtStart(b, T, t.at + 26)
  <2>1. PICK s \in S : s.at >= k /\ t.at = s.at + 1 - k BY <1>3
  <2>2. PICK p \in Nat : p = s.at BY DEF LaidOut, Sents
  <2>3. p + 26 \in Nat /\ p + 26 >= k /\ (p + 26) + 1 - k = t.at + 26
    BY <1>k, <2>1, <2>2
  <2>4. AtStart(c, S, p + 26) BY <2>2 DEF Tiled
  <2>5. AtStart(b, T, (p + 26) + 1 - k) BY <1>4, <2>3, <2>4
  <2>. QED BY <2>3, <2>5
<1>7. Tiled(b, T) BY <1>5, <1>6 DEF Tiled
<1>. QED BY <1>b, <1>T, <1>7

-----------------------------------------------------------------------------
LEMMA ClampI32Type == ASSUME NEW n \in Int  PROVE ClampI32(n) \in Int32
BY SMT DEF ClampI32, Clamp, Int32, Within

LEMMA ClampI16Type == ASSUME NEW n \in Int  PROVE ClampI16(n) \in Int16
<1>1. ClampI16(n) \in Int /\ -32768 <= ClampI16(n) /\ ClampI16(n) <= 32767
  BY SMT DEF ClampI16, Clamp
<1>. QED BY SMT, <1>1 DEF Int16, Within

LEMMA HeadingType ==
  ASSUME NEW yaw \in Within(-180000, 180000)  PROVE HeadingOf(yaw) \in Headings
<1>0. yaw \in Int /\ -180000 <= yaw /\ yaw <= 180000 BY SMT DEF Within
<1>1. PICK n \in Int : n = IF yaw < 0 THEN yaw + 360000 ELSE yaw
  BY SMT, <1>0
<1>2. 0 <= n /\ n <= 360000 BY SMT, <1>0, <1>1
<1>3. PICK q \in Int : q = (n + 5) \div 10 BY SMT
<1>4. 0 <= q /\ q <= 36000 BY SMT, <1>2, <1>3
<1>5. HeadingOf(yaw) = Clamp(q, 0, 65535) BY SMT, <1>1, <1>3 DEF HeadingOf
<1>6. Clamp(q, 0, 65535) = q BY SMT, <1>4 DEF Clamp
<1>. QED BY SMT, <1>4, <1>5, <1>6 DEF Headings, Within

LEMMA NextOf ==
  ASSUME NEW n \in Nat \ {0}, NEW k \in Int  PROVE (k + 1) % n \in 0..(n - 1)
BY SMT

LEMMA Constants ==
  /\ Fixes \subseteq Int \X Int /\ Velocities \subseteq Int \X Int
  /\ SetModes \subseteq Byte
  /\ SeqSize \in Nat \ {0} /\ 0..(SeqSize - 1) \subseteq Byte
  /\ ReopenEvery \in Nat \ {0}
  /\ Commands \subseteq {"ARM", "DISARM", "HOTAS", "SHADOW", "PURSUIT", "BASE",
                         "SET_MODE"}
BY SMT, EdgeAssumption DEF Byte

LEMMA StateIsSent == ASSUME TypeOK  PROVE State \in States
<1>1. seq \in Byte /\ mode \in Byte BY Constants DEF TypeOK
<1>2. Status \in {0, 1} BY DEF TypeOK, Status
<1>3. heading \in UInt16
  <2>1. heading \in Headings BY DEF TypeOK
  <2>. QED BY SMT, <2>1 DEF Headings, Within, UInt16
<1>4. linear \in Int16 /\ angular \in Int16 BY DEF TypeOK
<1>5. fix \in Int32 \X Int32 BY DEF TypeOK
<1>. QED BY <1>1, <1>2, <1>3, <1>4, <1>5 DEF State, States

LEMMA PartIsBytes ==
  ASSUME NEW b \in Seq(Byte), NEW m \in Nat, NEW n \in Nat, 1 <= m, n <= Len(b)
  PROVE  SubSeq(b, m, n) \in Seq(Byte)
OBVIOUS

\* What an arrival does to the bytes.
Taken(n) == rx \o SubSeq(wire, 1, n)

LEMMA ArriveMoves ==
  ASSUME Arrive
  PROVE  \E n \in 1..Len(wire) :
           /\ wire' = SubSeq(wire, n + 1, Len(wire))
           /\ rx' = SubSeq(Taken(n), ReadFrames(Taken(n)).at, Len(Taken(n)))
BY DEF Arrive, Taken

LEMMA ArriveTypes ==
  ASSUME TypeOK, Arrive
  PROVE  wire' \in Seq(Byte) /\ rx' \in Seq(Byte)
<1>1. wire \in Seq(Byte) /\ rx \in Seq(Byte) BY DEF TypeOK
<1>2. PICK n \in 1..Len(wire) :
        /\ wire' = SubSeq(wire, n + 1, Len(wire))
        /\ rx' = SubSeq(Taken(n), ReadFrames(Taken(n)).at, Len(Taken(n)))
  BY ArriveMoves
<1>3. /\ n \in Nat /\ n <= Len(wire) /\ Len(wire) \in Nat
      /\ n + 1 \in Nat /\ 1 <= n + 1 /\ 1 \in Nat /\ 1 <= 1
  BY <1>1
<1>4. SubSeq(wire, 1, n) \in Seq(Byte) BY <1>1, <1>3, PartIsBytes
<1>5. Taken(n) \in Seq(Byte) BY <1>1, <1>4 DEF Taken
<1>6. ReadFrames(Taken(n)) \in Reading(Taken(n)) BY <1>5, ReadingType
<1>7. /\ ReadFrames(Taken(n)).at \in Nat /\ 1 <= ReadFrames(Taken(n)).at
      /\ Len(Taken(n)) \in Nat
  BY <1>5, <1>6 DEF Reading
<1>8. rx' \in Seq(Byte) BY <1>2, <1>5, <1>7, PartIsBytes
<1>9. wire' \in Seq(Byte) BY <1>1, <1>2, <1>3, PartIsBytes
<1>. QED BY <1>8, <1>9

\* The bytes move from the line to the reader and stay together.
Takes(x, w, n, b) ==
  LET rest == SubSeq(w, n + 1, Len(w))
  IN /\ b \in Seq(Byte) /\ Len(b) = Len(x) + n
     /\ \A k \in 1..(Len(x) + n) : b[k] = (x \o w)[k]
     /\ b \o rest = x \o w
     /\ n = Len(w) => b = x \o w /\ rest = <<>>
     /\ n < Len(w) => rest # <<>>

LEMMA TakenPart ==
  ASSUME NEW x \in Seq(Byte), NEW w \in Seq(Byte), NEW n \in 1..Len(w)
  PROVE  Takes(x, w, n, x \o SubSeq(w, 1, n))
<1>1. Len(w) \in Nat /\ Len(x) \in Nat /\ n \in Nat /\ n <= Len(w) OBVIOUS
<1> DEFINE p == SubSeq(w, 1, n)
           q == SubSeq(w, n + 1, Len(w))
<1>2. p \in Seq(Byte) /\ Len(p) = n /\ \A k \in 1..n : p[k] = w[k]
  BY <1>1
<1>3. /\ q \in Seq(Byte) /\ Len(q) = Len(w) - n
      /\ \A k \in 1..(Len(w) - n) : q[k] = w[n + k]
  BY <1>1
<1>4. n = Len(w) => q = <<>> BY <1>1, <1>3
<1>5. n = Len(w) => p = w BY <1>1, <1>2
<1>6. n < Len(w) => q # <<>>
  <2>1. n < Len(w) => Len(q) # 0 BY <1>1, <1>3
  <2>2. Len(<<>>) = 0 OBVIOUS
  <2>. HIDE DEF q
  <2>. QED BY <2>1, <2>2
<1> HIDE DEF p, q
<1>7. /\ x \o p \in Seq(Byte) /\ Len(x \o p) = Len(x) + n
      /\ \A k \in 1..Len(x) : (x \o p)[k] = x[k]
      /\ \A k \in 1..n : (x \o p)[Len(x) + k] = w[k]
  BY <1>1, <1>2
<1>8. /\ x \o w \in Seq(Byte) /\ Len(x \o w) = Len(x) + Len(w)
      /\ \A k \in 1..Len(x) : (x \o w)[k] = x[k]
      /\ \A k \in 1..Len(w) : (x \o w)[Len(x) + k] = w[k]
  BY <1>1
<1>9. ASSUME NEW k \in 1..(Len(x) + n)  PROVE (x \o p)[k] = (x \o w)[k]
  <2>1. CASE k <= Len(x)
    <3>1. k \in 1..Len(x) BY <1>1, <2>1
    <3>. QED BY <1>7, <1>8, <3>1
  <2>2. CASE k > Len(x)
    <3>1. PICK j \in 1..n : k = Len(x) + j
      <4>1. k - Len(x) \in 1..n /\ k = Len(x) + (k - Len(x)) BY <1>1, <2>2
      <4>. QED BY <4>1
    <3>2. j \in 1..Len(w) BY <1>1
    <3>. QED BY <1>7, <1>8, <3>1, <3>2
  <2>3. k <= Len(x) \/ k > Len(x) BY <1>1
  <2>. QED BY <2>1, <2>2, <2>3
<1>10. (x \o p) \o q = x \o w
  <2> DEFINE xp == x \o p
             y == xp \o q
             z == x \o w
  <2>1. xp \in Seq(Byte) /\ Len(xp) = Len(x) + n
        /\ \A k \in 1..(Len(x) + n) : xp[k] = z[k]
    BY <1>7, <1>9
  <2>. HIDE DEF xp
  <2>2. /\ y \in Seq(Byte) /\ Len(y) = (Len(x) + n) + (Len(w) - n)
        /\ \A k \in 1..(Len(x) + n) : y[k] = xp[k]
        /\ \A k \in 1..(Len(w) - n) : y[(Len(x) + n) + k] = q[k]
    <3>1. /\ y \in Seq(Byte) /\ Len(y) = Len(xp) + Len(q)
          /\ Continues(y, xp)
          /\ \A k \in 1..Len(q) : y[Len(xp) + k] = q[k]
      BY <1>3, <2>1, ConcatBytes
    <3>. HIDE DEF y
    <3>2. \A k \in 1..Len(xp) : y[k] = xp[k] BY <3>1 DEF Continues
    <3>. QED BY <1>3, <2>1, <3>1, <3>2
  <2>3. z \in Seq(Byte) /\ Len(z) = Len(x) + Len(w)
        /\ \A k \in 1..Len(w) : z[Len(x) + k] = w[k]
    BY <1>8
  <2>. HIDE DEF y, z
  <2>4. Len(y) = Len(z) BY <1>1, <2>2, <2>3
  <2>5. ASSUME NEW k \in 1..Len(z)  PROVE y[k] = z[k]
    <3>1. CASE k <= Len(x) + n
      <4>1. k \in 1..(Len(x) + n) BY <1>1, <2>3, <3>1
      <4>. QED BY <2>1, <2>2, <4>1
    <3>2. CASE k > Len(x) + n
      <4>1. PICK j \in 1..(Len(w) - n) : k = (Len(x) + n) + j
        <5>1. /\ k - (Len(x) + n) \in 1..(Len(w) - n)
              /\ k = (Len(x) + n) + (k - (Len(x) + n))
          BY <1>1, <2>3, <3>2
        <5>. QED BY <5>1
      <4>2. n + j \in 1..Len(w) /\ k = Len(x) + (n + j) BY <1>1, <4>1
      <4>3. y[k] = q[j] /\ q[j] = w[n + j] BY <1>3, <2>2, <4>1
      <4>. QED BY <2>3, <4>2, <4>3
    <3>3. k <= Len(x) + n \/ k > Len(x) + n BY <1>1, <2>3
    <3>. QED BY <3>1, <3>2, <3>3
  <2>6. y = z BY <2>2, <2>3, <2>4, <2>5, SameBytes
  <2>. QED BY <2>6 DEF y, z, xp
<1>11. n = Len(w) => x \o p = x \o w BY <1>5
<1> DEFINE b == x \o p
<1>12. /\ b \in Seq(Byte) /\ Len(b) = Len(x) + n
       /\ \A k \in 1..(Len(x) + n) : b[k] = (x \o w)[k]
       /\ b \o q = x \o w /\ (n = Len(w) => b = x \o w)
  BY <1>7, <1>9, <1>10, <1>11
<1> HIDE DEF b
<1>13. Takes(x, w, n, b) BY <1>4, <1>6, <1>12 DEF Takes, q
<1>. QED BY <1>13 DEF b, p

LEMMA TypeInit == ASSUME Init  PROVE TypeOK
<1>1. 0 \in Int32 BY SMT DEF Int32, Within
<1>2. 0 \in Int16 /\ 0 \in Byte /\ 0 \in Headings
  BY SMT DEF Int16, Byte, Headings, Within
<1>3. 0 \in 0..(SeqSize - 1) /\ 0 \in 0..(ReopenEvery - 1) BY Constants
<1>. QED BY <1>1, <1>2, <1>3 DEF Init, TypeOK

LEMMA TypeStep == ASSUME Crc16Bit, TypeOK, [Next]_vars  PROVE TypeOK'
<1>1. CASE OnNavsat
  <2>1. fix' \in Int32 \X Int32
    <3>1. PICK f \in Fixes : fix' = <<ClampI32(f[1]), ClampI32(f[2])>>
      BY <1>1 DEF OnNavsat
    <3>2. f[1] \in Int /\ f[2] \in Int BY <3>1, Constants
    <3>. QED BY <3>1, <3>2, ClampI32Type
  <2>. QED BY <1>1, <2>1 DEF OnNavsat, Event, Elsewhere, portVars, pilotVars,
                             TypeOK
<1>2. CASE OnOdom
  <2>1. heading' \in Headings
    <3>1. PICK yaw \in Yaws : heading' = HeadingOf(yaw) BY <1>2 DEF OnOdom
    <3>2. yaw \in Within(-180000, 180000) BY SMT, <3>1, EdgeAssumption
    <3>3. HeadingOf(yaw) \in Headings BY SMT, <3>2, HeadingType
    <3>. QED BY <3>1, <3>3
  <2>. QED BY <1>2, <2>1 DEF OnOdom, Event, Elsewhere, portVars, pilotVars,
                             TypeOK
<1>3. CASE OnCmdvel
  <2>1. linear' \in Int16 /\ angular' \in Int16
    <3>1. PICK v \in Velocities :
            linear' = ClampI16(v[1]) /\ angular' = ClampI16(v[2])
      BY <1>3 DEF OnCmdvel
    <3>2. v[1] \in Int /\ v[2] \in Int BY <3>1, Constants
    <3>. QED BY <3>1, <3>2, ClampI16Type
  <2>. QED BY <1>3, <2>1 DEF OnCmdvel, Event, Elsewhere, portVars, pilotVars,
                             TypeOK
<1>4. CASE BeginTick
  BY <1>4 DEF BeginTick, stateVars, portVars, pilotVars, TypeOK
<1>5. CASE Obey
  <2>1. mode' \in Byte /\ arm' \in {0, 1}
    <3>1. PICK c \in Commands : Obeyed(c) BY <1>5 DEF Obey
    <3>2. \/ arm' = 1 /\ mode' = mode
          \/ arm' = 0 /\ mode' = mode
          \/ mode' \in {0, 1, 2, 3} /\ arm' = arm
          \/ mode' \in SetModes /\ arm' = arm
      <4>1. c \in {"ARM", "DISARM", "HOTAS", "SHADOW", "PURSUIT", "BASE",
                  "SET_MODE"}
        BY <3>1, Constants
      <4>. QED BY <3>1, <4>1 DEF Obeyed
    <3>3. {0, 1, 2, 3} \subseteq Byte BY DEF Byte
    <3>. QED BY <3>2, <3>3, Constants DEF TypeOK
  <2>. QED BY <1>5, <2>1 DEF Obey, portVars, pilotVars, TypeOK
<1>6. CASE SendState
  <2>1. Frame(State) \in Seq(Byte) BY StateIsSent, FrameWritten
  <2>2. wire' \in Seq(Byte)
    <3>1. PICK part \in Seq(Byte) : wire' = wire \o part
      <4>1. CASE wire' = wire \o Frame(State) BY <2>1, <4>1
      <4>2. CASE \E k \in Parts \cap 0..(Len(Frame(State)) - 1) :
                   wire' = wire \o SubSeq(Frame(State), 1, k)
        <5>1. PICK k \in 0..(Len(Frame(State)) - 1) :
                wire' = wire \o SubSeq(Frame(State), 1, k)
          BY <4>2
        <5>2. /\ 1 \in Nat /\ k \in Nat /\ 1 <= 1 /\ k <= Len(Frame(State))
          BY <2>1
        <5>. QED BY <2>1, <5>1, <5>2, PartIsBytes
      <4>. QED BY <1>6, <4>1, <4>2 DEF SendState, WriteAll
    <3>2. wire \in Seq(Byte) BY DEF TypeOK
    <3>. QED BY <3>1, <3>2, ConcatBytes
  <2>3. opened' \in BOOLEAN BY <1>6 DEF SendState, WriteAll, TypeOK
  <2>4. seq' \in 0..(SeqSize - 1)
    <3>1. SeqSize \in Nat \ {0} /\ seq \in Int BY Constants DEF TypeOK
    <3>. QED BY <1>6, <3>1, NextOf DEF SendState
  <2>. QED BY <1>6, <2>2, <2>3, <2>4
           DEF SendState, stateVars, pilotVars, TypeOK
<1>7. CASE ClosedTick
  <2>1. retry' \in 0..(ReopenEvery - 1)
    <3>1. ReopenEvery \in Nat \ {0} /\ retry \in Int
      BY Constants DEF TypeOK
    <3>. QED BY <1>7, <3>1, NextOf DEF ClosedTick
  <2>2. opened' \in BOOLEAN BY <1>7 DEF ClosedTick
  <2>3. wire' \in Seq(Byte)
    <3>1. wire \in Seq(Byte) BY DEF TypeOK
    <3>2. CASE wire' = wire BY <3>1, <3>2
    <3>3. CASE \E k \in 0..(Len(wire) - 1) : wire' = SubSeq(wire, 1, k)
      <4>1. PICK k \in 0..(Len(wire) - 1) : wire' = SubSeq(wire, 1, k)
        BY <3>3
      <4>2. /\ 1 \in Nat /\ k \in Nat /\ 1 <= 1 /\ k <= Len(wire) BY <3>1
      <4>. QED BY <3>1, <4>1, <4>2, PartIsBytes
    <3>. QED BY <1>7, <3>2, <3>3 DEF ClosedTick, Flush
  <2>. QED BY <1>7, <2>1, <2>2, <2>3 DEF ClosedTick, stateVars, pilotVars, TypeOK
<1>8. CASE Arrive
  <2>1. wire' \in Seq(Byte) /\ rx' \in Seq(Byte)
    BY <1>8, ArriveTypes
  <2>. QED BY <1>8, <2>1 DEF Arrive, stateVars, portVars, TypeOK
<1>9. CASE UNCHANGED vars
  BY <1>9 DEF vars, stateVars, portVars, pilotVars, TypeOK
<1>. QED BY <1>1, <1>2, <1>3, <1>4, <1>5, <1>6, <1>7, <1>8, <1>9 DEF Next

\* To take bytes from the front of one part takes them from the whole.
LEMMA BehindJoined ==
  ASSUME NEW b \in Seq(Byte), NEW rest \in Seq(Byte),
         NEW k \in 1..(Len(b) + 1)
  PROVE  Behind(b, k) \o rest = Behind(b \o rest, k)
<1>1. PICK n, m \in Nat : n = Len(b) /\ m = Len(rest) OBVIOUS
<1>2. PICK c \in Seq(Byte) :
        /\ c = b \o rest /\ Len(c) = n + m
        /\ \A x \in 1..n : c[x] = b[x]
        /\ \A x \in 1..m : c[n + x] = rest[x]
  BY <1>1, ConcatBytes DEF Continues
<1>k. k \in Nat /\ 1 <= k /\ k <= n + 1 /\ k \in 1..(Len(c) + 1)
  BY <1>1, <1>2
<1>p. PICK p \in Nat : n + 1 = k + p
  <2>1. n + 1 - k \in Nat /\ n + 1 = k + (n + 1 - k) BY <1>k
  <2>. QED BY <2>1
<1>u. PICK u : u = Behind(b, k) OBVIOUS
<1>3. u \in Seq(Byte) /\ Len(u) = p /\ \A x \in 1..p : u[x] = b[(k + x) - 1]
  <2>1. /\ u \in Seq(Byte) /\ Len(u) = n + 1 - k
        /\ \A x \in 1..(n + 1 - k) : u[x] = b[(k + x) - 1]
    BY <1>1, <1>u, BehindIs
  <2>2. n + 1 - k = p BY <1>k, <1>p
  <2>. QED BY <2>1, <2>2
<1>v. PICK v : v = u \o rest OBVIOUS
<1>4. /\ v \in Seq(Byte) /\ Len(v) = p + m
      /\ \A x \in 1..p : v[x] = u[x]
      /\ \A x \in 1..m : v[p + x] = rest[x]
  <2>1. /\ v \in Seq(Byte) /\ Len(v) = Len(u) + Len(rest)
        /\ \A x \in 1..Len(u) : v[x] = u[x]
        /\ \A x \in 1..Len(rest) : v[Len(u) + x] = rest[x]
    BY <1>3, <1>v, ConcatBytes DEF Continues
  <2>. QED BY <1>1, <1>3, <2>1
<1>w. PICK w : w = Behind(c, k) OBVIOUS
<1>5. /\ w \in Seq(Byte) /\ Len(w) = p + m
      /\ \A x \in 1..(p + m) : w[x] = c[(k + x) - 1]
  <2>1. /\ w \in Seq(Byte) /\ Len(w) = Len(c) + 1 - k
        /\ \A x \in 1..(Len(c) + 1 - k) : w[x] = c[(k + x) - 1]
    BY <1>k, <1>w, BehindIs
  <2>2. Len(c) + 1 - k = p + m BY <1>2, <1>k, <1>p
  <2>. QED BY <2>1, <2>2
<1>6. ASSUME NEW x \in 1..(p + m)  PROVE v[x] = w[x]
  <2>1. CASE x <= p
    <3>1. x \in 1..p /\ (k + x) - 1 \in 1..n BY <1>k, <1>p, <2>1
    <3>. QED BY <1>2, <1>3, <1>4, <1>5, <3>1
  <2>2. CASE ~(x <= p)
    <3>1. PICK y \in 1..m : x = p + y
      <4>1. x - p \in 1..m /\ x = p + (x - p) BY <2>2
      <4>. QED BY <4>1
    <3>2. (k + x) - 1 = n + y BY <1>k, <1>p, <3>1
    <3>. QED BY <1>2, <1>4, <1>5, <3>1, <3>2
  <2>. QED BY <2>1, <2>2
<1>7. Len(v) = Len(w) /\ \A x \in 1..Len(w) : v[x] = w[x]
  BY <1>4, <1>5, <1>6
<1>8. v = w BY <1>4, <1>5, <1>7, SameBytes
<1>. QED BY <1>2, <1>u, <1>v, <1>w, <1>8

\* The first k bytes of w, behind x.
LEMMA FirstPart ==
  ASSUME NEW x \in Seq(Byte), NEW w \in Seq(Byte), NEW k \in 0..Len(w)
  PROVE  /\ x \o SubSeq(w, 1, k) \in Seq(Byte)
         /\ Len(x \o SubSeq(w, 1, k)) = Len(x) + k
         /\ Continues(x \o w, x \o SubSeq(w, 1, k))
<1>1. CASE k = 0
  <2>1. SubSeq(w, 1, 0) = <<>> /\ x \o <<>> = x OBVIOUS
  <2>2. PICK n \in Nat : n = Len(x) /\ n = n + 0 OBVIOUS
  <2>. QED BY <1>1, <2>1, <2>2, ConcatBytes
<1>2. CASE k # 0
  <2>1. k \in 1..Len(w) BY <1>2
  <2>2. PICK b : b = x \o SubSeq(w, 1, k) OBVIOUS
  <2>3. PICK c : c = x \o w OBVIOUS
  <2>4. /\ b \in Seq(Byte) /\ Len(b) = Len(x) + k
        /\ \A j \in 1..(Len(x) + k) : b[j] = c[j]
    BY <2>1, <2>2, <2>3, TakenPart DEF Takes
  <2>5. c \in Seq(Byte) /\ Len(c) = Len(x) + Len(w)
    BY <2>3, ConcatBytes
  <2>6. PICK n, m \in Nat : n = Len(x) + k /\ m = Len(x) + Len(w) /\ n <= m
    BY <2>1
  <2>7. Continues(c, b) BY <2>4, <2>5, <2>6 DEF Continues
  <2>. QED BY <2>2, <2>3, <2>4, <2>7
<1>. QED BY <1>1, <1>2

-----------------------------------------------------------------------------
\* The frames that were written as a whole are where sent says, in the bytes
\* under way.  Unless something else was taken for a frame or a start was
\* split, none has been passed over; and if nothing was cut short they are
\* all there is.
EdgeInv ==
  /\ TypeOK
  /\ cuts \in Nat
  /\ LaidOut(rx \o wire, sent)
  /\ ~odd /\ ~split => ~skipped
  /\ cuts = 0 => Tiled(rx \o wire, sent) /\ ~odd /\ ~skipped

\* What an arrival of n bytes does, when b is read as r.
ArriveDoes(n, b, r) ==
  /\ wire' = SubSeq(wire, n + 1, Len(wire))
  /\ split' = (split \/ (n < Len(wire) /\ SofAt(wire, n)))
  /\ rx' = SubSeq(b, r.at, Len(b))
  /\ odd' = (odd \/ \E i \in r.taken : ~WasSent(b, i))
  /\ skipped' = (skipped \/ \E s \in sent : s.at < r.at /\ s.at \notin r.taken)
  /\ sent' = From(sent, r.at)

LEMMA ArriveReads ==
  ASSUME Arrive
  PROVE  \E n \in 1..Len(wire) :
           ArriveDoes(n, Taken(n), ReadFrames(Taken(n)))
<1>1. \E n \in 1..Len(wire) :
        \E b \in {Taken(n)} : \E r \in {ReadFrames(b)} : ArriveDoes(n, b, r)
  BY Zenon DEF Arrive, ArriveDoes, Taken, From
<1>. QED BY <1>1

\* A frame that is passed over had only its first byte there.
LEMMA LostIsSplit ==
  ASSUME Crc16Bit, NEW x \in Seq(Byte), NEW w \in Seq(Byte), NEW n \in 1..Len(w),
         NEW S, LaidOut(x \o w, S), NEW b \in Seq(Byte), Len(b) = Len(x) + n,
         NEW r \in Reading(b), InTurn(S, b, r),
         NEW s \in S, s.at < r.at, s.at \notin r.taken
  PROVE  n < Len(w) /\ SofAt(w, n)
<1>1. PICK c : c = x \o w OBVIOUS
<1>2. PICK p \in Nat : p = s.at /\ p + 25 <= Len(c) /\ SofAt(c, p)
  <2>1. c \in Seq(Byte) BY <1>1, ConcatBytes
  <2>. QED BY <1>1, <2>1, LaidPasses
<1>3. PICK u, m \in Nat : u = Len(x) /\ m = Len(w) OBVIOUS
<1>4. n \in Nat /\ 1 <= n /\ n <= m BY <1>3
<1>5. Len(b) = u + n BY <1>3
<1>6. p = u + n
  <2>1. u + n <= p BY <1>2, <1>5 DEF InTurn
  <2>2. PICK q \in 1..((u + n) + 1) : q = r.at BY <1>5 DEF Reading
  <2>3. p < q BY <1>2, <2>2
  <2>. QED BY <1>4, <2>1, <2>2, <2>3
<1>7. n < m
  <2>1. Len(c) = u + m BY <1>1, <1>3, ConcatBytes
  <2>. QED BY <1>2, <1>4, <1>6, <2>1
<1>8. c[u + n] = w[n] /\ c[(u + n) + 1] = w[n + 1]
  <2>1. n \in 1..Len(w) /\ n + 1 \in 1..Len(w) /\ u + (n + 1) = (u + n) + 1
    BY <1>3, <1>4, <1>7
  <2>. QED BY <1>1, <1>3, <2>1, ConcatBytes
<1>9. SofAt(w, n) BY <1>2, <1>6, <1>8 DEF SofAt
<1>. QED BY <1>3, <1>7, <1>9

\* A frame that is whole in what has arrived is recognised.
LEMMA HeldWasSent ==
  ASSUME Crc16Bit, NEW b \in Seq(Byte), NEW c, Continues(c, b),
         LaidOut(c, sent), NEW s \in sent, s.at + 25 <= Len(b)
  PROVE  WasSent(b, s.at)
<1>1. PICK i \in Nat : /\ i = s.at /\ 1 <= i /\ Holds(c, i, s.says)
                      /\ s.says \in States
  BY LaidPasses DEF Continues
<1>2. Holds(b, i, s.says) BY <1>1, HoldsBefore
<1>3. IsState(b, i) /\ Said(b, i) = s.says BY <1>1, <1>2, HeldPasses
<1>4. s = [at |-> i, says |-> s.says] BY <1>1 DEF LaidOut, Sents
<1>. QED BY <1>1, <1>3, <1>4 DEF WasSent

LEMMA EdgeArrives ==
  ASSUME Crc16Bit, EdgeInv, Arrive  PROVE EdgeInv'
<1>1. PICK x \in Seq(Byte), w \in Seq(Byte) : x = rx /\ w = wire
  BY DEF EdgeInv, TypeOK
<1>2. PICK n \in 1..Len(w) : ArriveDoes(n, Taken(n), ReadFrames(Taken(n)))
  BY <1>1, ArriveReads
<1>3. PICK b, rest, r, c :
        /\ b = Taken(n) /\ r = ReadFrames(b)
        /\ rest = SubSeq(w, n + 1, Len(w)) /\ c = x \o w
  OBVIOUS
<1>4. b = x \o SubSeq(w, 1, n) BY <1>1, <1>3 DEF Taken
<1>5. b \in Seq(Byte) /\ Len(b) = Len(x) + n /\ b \o rest = c
  <2>1. Takes(x, w, n, b) BY <1>4, TakenPart
  <2>. QED BY <1>3, <2>1 DEF Takes
<1>6. rest \in Seq(Byte)
  <2>1. /\ n + 1 \in Nat /\ 1 <= n + 1 /\ Len(w) \in Nat /\ Len(w) <= Len(w)
    OBVIOUS
  <2>. QED BY <1>3, <2>1, PartIsBytes
<1>7. c \in Seq(Byte) /\ Continues(c, b) BY <1>5, <1>6, ConcatBytes
<1>8. r \in Reading(b) BY <1>3, <1>5, ReadingType
<1>9. PICK k \in 1..(Len(b) + 1) : k = r.at BY <1>8 DEF Reading
<1>10. k \in 1..(Len(c) + 1)
  <2>1. Len(b) \in Nat /\ Len(c) \in Nat /\ Len(b) <= Len(c)
    BY <1>7 DEF Continues
  <2>. QED BY <2>1
<1>11. /\ wire' = rest /\ rx' = Behind(b, k) /\ sent' = From(sent, k)
       /\ split' = (split \/ (n < Len(w) /\ SofAt(w, n)))
       /\ odd' = (odd \/ \E i \in r.taken : ~WasSent(b, i))
       /\ skipped' =
            (skipped \/ \E s \in sent : s.at < r.at /\ s.at \notin r.taken)
  BY Zenon, <1>1, <1>2, <1>3, <1>9 DEF ArriveDoes, Behind
<1>12. rx' \o wire' = Behind(c, k) BY <1>5, <1>6, <1>11, BehindJoined
<1>13. LaidOut(c, sent) BY <1>1, <1>3 DEF EdgeInv
<1>14. TypeOK' BY TypeStep DEF EdgeInv, Next
<1>15. cuts' = cuts /\ cuts' \in Nat BY DEF Arrive, EdgeInv
<1>16. LaidOut(rx' \o wire', sent')
  BY <1>7, <1>10, <1>11, <1>12, <1>13, LaidBehind
<1>17. ASSUME ~odd', ~split'  PROVE ~skipped'
  <2>1. ~odd /\ ~split /\ ~skipped BY <1>11, <1>17 DEF EdgeInv
  <2>2. Whole(sent, b, r)
    <3>1. ASSUME NEW i \in r.taken
          PROVE  IsState(b, i) /\ \E s \in sent : s.at = i
      <4>1. WasSent(b, i) BY <1>11, <1>17
      <4>2. PICK s \in sent : s = [at |-> i, says |-> Said(b, i)]
        BY <4>1 DEF WasSent
      <4>. QED BY <4>1, <4>2 DEF WasSent
    <3>. QED BY <3>1 DEF Whole
  <2>3. InTurn(sent, b, r) BY <1>3, <1>5, <1>7, <1>13, <2>2, ReadInPlace
  <2>4. ASSUME NEW s \in sent, s.at < r.at, s.at \notin r.taken  PROVE FALSE
    <3>1. n < Len(w) /\ SofAt(w, n)
      BY <1>3, <1>5, <1>8, <1>13, <2>3, <2>4, LostIsSplit
    <3>. QED BY <1>11, <1>17, <3>1
  <2>. QED BY <1>11, <2>1, <2>4
<1>18. ASSUME cuts' = 0
       PROVE  Tiled(rx' \o wire', sent') /\ ~odd' /\ ~skipped'
  <2>1. Tiled(c, sent) /\ ~odd /\ ~skipped
    BY <1>1, <1>3, <1>15, <1>18 DEF EdgeInv
  <2>2. InTile(c, sent, r) BY <1>3, <1>5, <1>7, <1>13, <2>1, ReadTiled
  <2>3. Tiled(rx' \o wire', sent')
    <3>1. AtStart(c, sent, k) BY <1>9, <2>2 DEF InTile
    <3>. QED BY <1>7, <1>10, <1>11, <1>12, <1>13, <2>1, <3>1, TiledBehind
  <2>4. ASSUME NEW i \in r.taken  PROVE WasSent(b, i)
    <3>1. i + 26 <= r.at BY <2>2 DEF InTile
    <3>2. PICK s \in sent : s.at = i BY <2>2 DEF InTile
    <3>3. s.at + 25 <= Len(b)
      <4>1. i \in Nat /\ Len(b) \in Nat BY <1>5, <1>8 DEF Reading
      <4>. QED BY <1>9, <3>1, <3>2, <4>1
    <3>4. WasSent(b, s.at) BY <1>5, <1>7, <1>13, <3>3, HeldWasSent
    <3>. QED BY <3>2, <3>4
  <2>5. \A s \in sent : s.at < r.at => s.at \in r.taken BY <2>2 DEF InTile
  <2>. QED BY <1>11, <2>1, <2>3, <2>4, <2>5
<1>. QED BY <1>14, <1>15, <1>16, <1>17, <1>18 DEF EdgeInv

LEMMA EdgeInit == ASSUME Init  PROVE EdgeInv
<1>1. TypeOK BY TypeInit
<1>2. PICK c : c = rx \o wire OBVIOUS
<1>3. Len(c) = 0 /\ sent = {} BY <1>2 DEF Init
<1>4. Tiled(c, sent)
  <2>1. PICK n \in Nat : n = Len(c) /\ n = 0 BY <1>3
  <2>2. 1 = Len(c) + 1 BY <2>1
  <2>. QED BY <1>3, <2>2 DEF Tiled, AtStart
<1>5. LaidOut(c, sent) BY <1>3 DEF LaidOut
<1>. QED BY <1>1, <1>2, <1>4, <1>5 DEF Init, EdgeInv

LEMMA EdgeSends ==
  ASSUME Crc16Bit, EdgeInv, SendState  PROVE EdgeInv'
<1>1. PICK x \in Seq(Byte), w \in Seq(Byte) : x = rx /\ w = wire
  BY DEF EdgeInv, TypeOK
<1>2. PICK s \in States : s = State BY StateIsSent DEF EdgeInv
<1>3. PICK f \in Seq(Byte) : f = Frame(s) /\ Len(f) = 26 BY FrameWritten
<1>4. UNCHANGED <<rx, odd, skipped, split>> BY DEF SendState, pilotVars
<1>5. TypeOK' BY TypeStep DEF EdgeInv, Next
<1>6. PICK c : c = x \o w OBVIOUS
<1>7. c \in Seq(Byte) /\ Len(c) = Len(x) + Len(w) BY <1>6, ConcatBytes
<1>8. LaidOut(c, sent) BY <1>1, <1>6 DEF EdgeInv
<1>9. ASSUME NEW part \in Seq(Byte)  PROVE x \o (w \o part) = c \o part
  BY <1>6, ConcatAssociative
<1>10. CASE /\ wire' = w \o f /\ cuts' = cuts
            /\ sent' = sent \cup {[at |-> Len(x) + Len(w) + 1, says |-> s]}
  <2>1. PICK u : u = [at |-> Len(c) + 1, says |-> s] OBVIOUS
  <2>2. u.at = Len(c) + 1 /\ sent' = sent \cup {u} BY <1>7, <1>10, <2>1
  <2>3. PICK d : d = c \o f OBVIOUS
  <2>4. rx' \o wire' = d BY <1>1, <1>4, <1>9, <1>10, <2>3
  <2>5. LaidOut(d, sent')
    BY <1>3, <1>7, <1>8, <2>1, <2>2, <2>3, LaidMore
  <2>6. ASSUME cuts' = 0  PROVE Tiled(d, sent') /\ ~odd' /\ ~skipped'
    <3>1. Tiled(c, sent) /\ ~odd /\ ~skipped
      BY <1>1, <1>6, <1>10, <2>6 DEF EdgeInv
    <3>2. d \in Seq(Byte) /\ Len(d) = Len(c) + 26
      <4>1. d \in Seq(Byte) /\ Len(d) = Len(c) + Len(f)
        BY <1>7, <2>3, ConcatBytes
      <4>. QED BY <1>3, <4>1
    <3>3. Tiled(d, sent \cup {u})
      BY <1>7, <1>8, <2>2, <3>1, <3>2, TiledMore
    <3>. QED BY <1>4, <2>2, <3>1, <3>3
  <2>. QED BY <1>4, <1>5, <1>10, <2>4, <2>5, <2>6 DEF EdgeInv
<1>11. CASE /\ cuts' = cuts + 1 /\ sent' = sent
            /\ \E k \in 0..(Len(f) - 1) : wire' = w \o SubSeq(f, 1, k)
  <2>1. PICK part \in Seq(Byte) : wire' = w \o part
    <3>1. PICK k \in 0..(Len(f) - 1) : wire' = w \o SubSeq(f, 1, k) BY <1>11
    <3>2. 1 \in Nat /\ k \in Nat /\ 1 <= 1 /\ k <= Len(f) BY <1>3
    <3>. QED BY <3>1, <3>2, PartIsBytes
  <2>2. PICK d : d = c \o part OBVIOUS
  <2>3. rx' \o wire' = d BY <1>1, <1>4, <1>9, <2>1, <2>2
  <2>4. LaidOut(d, sent)
    <3>1. Continues(d, c) BY <1>7, <2>2, ConcatBytes
    <3>. QED BY <1>7, <1>8, <3>1, LaidOn
  <2>5. cuts' \in Nat /\ cuts' # 0
    <3>1. cuts \in Nat BY DEF EdgeInv
    <3>. QED BY <1>11, <3>1
  <2>. QED BY <1>4, <1>5, <1>11, <2>3, <2>4, <2>5 DEF EdgeInv
<1>12. \/ /\ wire' = wire \o Frame(State) /\ cuts' = cuts
          /\ sent' = sent \cup {[at |-> Len(rx) + Len(wire) + 1, says |-> State]}
       \/ /\ cuts' = cuts + 1 /\ sent' = sent
          /\ \E k \in Parts \cap 0..(Len(Frame(State)) - 1) :
               wire' = wire \o SubSeq(Frame(State), 1, k)
  BY Zenon DEF SendState, WriteAll
<1>13. \/ /\ wire' = w \o f /\ cuts' = cuts
          /\ sent' = sent \cup {[at |-> Len(x) + Len(w) + 1, says |-> s]}
       \/ /\ cuts' = cuts + 1 /\ sent' = sent
          /\ \E k \in 0..(Len(f) - 1) : wire' = w \o SubSeq(f, 1, k)
  BY Zenon, <1>1, <1>2, <1>3, <1>12
<1>. QED BY <1>10, <1>11, <1>13

LEMMA EdgeFlushes ==
  ASSUME EdgeInv, TypeOK', Flush, UNCHANGED <<rx, odd, skipped, split>>
  PROVE  EdgeInv'
<1>1. CASE UNCHANGED <<wire, sent, cuts>> BY <1>1 DEF EdgeInv
<1>2. CASE /\ cuts' = cuts + 1
           /\ \E k \in 0..(Len(wire) - 1) :
                /\ wire' = SubSeq(wire, 1, k)
                /\ sent' = {s \in sent : s.at + 25 <= Len(rx) + k}
  <2>1. PICK x \in Seq(Byte), w \in Seq(Byte) : x = rx /\ w = wire
    BY DEF EdgeInv, TypeOK
  <2>2. PICK k \in 0..(Len(w) - 1) :
          /\ wire' = SubSeq(w, 1, k)
          /\ sent' = {s \in sent : s.at + 25 <= Len(x) + k}
    BY <1>2, <2>1
  <2>3. PICK b, c : b = x \o SubSeq(w, 1, k) /\ c = x \o w OBVIOUS
  <2>4. b \in Seq(Byte) /\ Len(b) = Len(x) + k /\ Continues(c, b)
    <3>1. k \in 0..Len(w) OBVIOUS
    <3>. QED BY <2>3, <3>1, FirstPart
  <2>5. LaidOut(c, sent) BY <2>1, <2>3 DEF EdgeInv
  <2>6. LaidOut(b, sent')
    <3>1. sent' = {s \in sent : s.at + 25 <= Len(b)} BY <2>2, <2>4
    <3>. QED BY <2>4, <2>5, <3>1, LaidBefore
  <2>7. rx' \o wire' = b BY <2>1, <2>2, <2>3
  <2>8. cuts' \in Nat /\ cuts' # 0
    <3>1. cuts \in Nat BY DEF EdgeInv
    <3>. QED BY <1>2, <3>1
  <2>. QED BY <2>6, <2>7, <2>8 DEF EdgeInv
<1>. QED BY <1>1, <1>2 DEF Flush

LEMMA EdgeStep == ASSUME Crc16Bit, EdgeInv, [Next]_vars  PROVE EdgeInv'
<1>0. TypeOK' BY TypeStep DEF EdgeInv
<1>k. ASSUME UNCHANGED <<wire, rx, sent, odd, skipped, split, cuts>>
      PROVE  EdgeInv'
  BY <1>0, <1>k DEF EdgeInv
<1>1. CASE OnNavsat \/ OnOdom \/ OnCmdvel
  BY <1>k, <1>1 DEF OnNavsat, OnOdom, OnCmdvel, Event, Elsewhere, pilotVars
<1>2. CASE BeginTick BY <1>k, <1>2 DEF BeginTick, pilotVars
<1>3. CASE Obey BY <1>k, <1>3 DEF Obey, pilotVars
<1>4. CASE SendState BY <1>4, EdgeSends
<1>5. CASE ClosedTick
  <2>1. UNCHANGED <<rx, odd, skipped, split>> BY <1>5 DEF ClosedTick, pilotVars
  <2>2. UNCHANGED <<wire, sent, cuts>> \/ Flush BY <1>5 DEF ClosedTick
  <2>3. CASE UNCHANGED <<wire, sent, cuts>> BY <1>k, <2>1, <2>3
  <2>4. CASE Flush BY <1>0, <2>1, <2>4, EdgeFlushes
  <2>. QED BY <2>2, <2>3, <2>4
<1>6. CASE Arrive BY <1>6, EdgeArrives
<1>7. CASE UNCHANGED vars BY <1>k, <1>7 DEF vars, pilotVars
<1>. QED BY <1>1, <1>2, <1>3, <1>4, <1>5, <1>6, <1>7 DEF Next

LEMMA EdgeKeeps == ASSUME Crc16Bit  PROVE Spec => []EdgeInv
<1>1. Init => EdgeInv BY EdgeInit
<1>2. EdgeInv /\ [Next]_vars => EdgeInv' BY EdgeStep
<1>. QED BY <1>1, <1>2, PTL DEF Spec

\* The state keeps its types, the numbers in a frame among them: what the
\* callbacks round and clamp fits into its bytes, whatever the topics say.
THEOREM EdgeTypes == ASSUME Crc16Bit  PROVE Spec => []TypeOK
<1>1. EdgeInv => TypeOK BY DEF EdgeInv
<1>. QED BY <1>1, EdgeKeeps, PTL

\* As long as write_all has written every frame as a whole and no tcflush has
\* dropped bytes, every state the node sends is recognised as it was sent and
\* where it is, and nothing else, however the bytes are cut up on the way; a
\* read that ends between two start bytes does not matter then, because the
\* loop takes no frame apart before 8 bytes of it are there.
THEOREM UncutFramesArrive ==
  ASSUME Crc16Bit
  PROVE  Spec => [](cuts = 0 => OnlyStatesArrive /\ ~skipped /\ NothingLost)
<1>1. EdgeInv => (cuts = 0 => OnlyStatesArrive /\ ~skipped /\ NothingLost)
  BY DEF EdgeInv, OnlyStatesArrive, NothingLost
<1>. QED BY <1>1, EdgeKeeps, PTL

\* However many frames write_all has cut short and wherever, no frame that was
\* written as a whole is lost behind them as long as the checksum lets nothing
\* else pass for a frame: the other property is all this one needs.
THEOREM NothingLostUnlessForged ==
  ASSUME Crc16Bit
  PROVE  Spec => [](OnlyStatesArrive => NothingLost)
<1>1. EdgeInv => (OnlyStatesArrive => NothingLost)
  BY DEF EdgeInv, OnlyStatesArrive, NothingLost
<1>. QED BY <1>1, EdgeKeeps, PTL
=============================================================================

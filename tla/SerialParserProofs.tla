------------------------- MODULE SerialParserProofs -------------------------
(***************************************************************************)
(* Proofs about SerialParser, for every checksum, every line, every        *)
(* buffer longer than a frame and any number of port failures.             *)
(***************************************************************************)
EXTENDS SerialParser, SequenceTheorems, WellFoundedInduction, TLAPS

\* What read() adds to the buffer, and what it leaves, are bytes.
LEMMA CutsAreBytes ==
  ASSUME NEW s \in Seq(Bytes), NEW n \in 0..Len(s)
  PROVE  /\ SubSeq(s, 1, n) \in Seq(Bytes)
         /\ SubSeq(s, n + 1, Len(s)) \in Seq(Bytes)
OBVIOUS

\* consume() leaves bytes, and fewer of them.
LEMMA ConsumedIsShorter ==
  ASSUME buf \in Seq(Bytes), NEW n \in Nat, n > 0, buf # <<>>
  PROVE  Consumed(n) \in Seq(Bytes) /\ Len(Consumed(n)) < Len(buf)
BY DEF Consumed

\* A frame is at least 8 and at most 263 bytes long.
LEMMA FrameLenBounds ==
  ASSUME buf \in Seq(Bytes), Len(buf) >= 8
  PROVE  FrameLen \in 8..263
<1>1. buf[6] \in Bytes
  OBVIOUS
<1>2. PICK n \in 0..255 : n = buf[6]
  BY <1>1 DEF Bytes
<1>3. 6 + n + 2 \in 8..263
  OBVIOUS
<1> QED
  BY <1>2, <1>3 DEF FrameLen

\* A set of naturals that is not empty has a least element.
LEMMA LeastNatural ==
  ASSUME NEW T, T \subseteq Nat, T # {}
  PROVE  \E x \in T : \A y \in T : x <= y
<1>1. PICK x \in T : \A y \in T : ~ (<<y, x>> \in OpToRel(<, Nat))
  BY WFMin, NatLessThanWellFounded
<1>2. \A y \in T : ~ (y < x)
  BY <1>1 DEF OpToRel
<1> QED
  BY <1>2

\* find_sof reports a number of bytes in the buffer.
LEMMA FindSofInBuffer ==
  ASSUME buf \in Seq(Bytes)
  PROVE  FindSof \in 0..Len(buf)
<1> DEFINE at == {i \in 1..(Len(buf) - 1) : SofAt(i)}
<1>1. CASE at = {}
  BY <1>1 DEF FindSof
<1>2. CASE at # {}
  <2>0. at \subseteq Nat
    OBVIOUS
  <2>1. \E i \in at : \A j \in at : i <= j
    <3> HIDE DEF at
    <3> QED
      BY <1>2, <2>0, LeastNatural
  <2>2. (CHOOSE i \in at : \A j \in at : i <= j) \in at
    BY <2>1
  <2>3. FindSof = (CHOOSE i \in at : \A j \in at : i <= j) - 1
    BY <1>2 DEF FindSof
  <2>4. \A i \in at : i - 1 \in 0..Len(buf)
    OBVIOUS
  <2> HIDE DEF at
  <2> QED
    BY <2>2, <2>3, <2>4
<1> QED
  BY <1>1, <1>2

-----------------------------------------------------------------------------
\* What is in the buffer and on the line are bytes at the start.
LEMMA InitTypes == Init => TypeOK
<1> SUFFICES ASSUME Init PROVE TypeOK
  OBVIOUS
<1>1. wire \in Seq(Bytes)
  BY ParserAssumption DEF Init
<1>2. buf \in Seq(Bytes) /\ phase = "idle" /\ opened \in BOOLEAN
  BY DEF Init
<1>3. failures \in 0..MaxFailures /\ retry \in 0..(ReopenEvery - 1)
  BY ParserAssumption DEF Init
<1> QED
  BY <1>1, <1>2, <1>3 DEF TypeOK

\* What read() keeps of the buffer are bytes.
LEMMA KeptTypes == TypeOK => Kept \in Seq(Bytes)
BY DEF TypeOK, Kept

\* Each turn of the parsers consumes bytes or leaves the loop.
LEMMA ParseStep ==
  ASSUME TypeOK, Parse
  PROVE  TypeOK' /\ (phase' # phase \/ Len(buf') < Len(buf))
<1> USE DEF TypeOK, portVars
<1>1. CASE HandleRaw
  <2>1. buf # <<>> /\ buf[1] \in DOMAIN RawCommand
    BY <1>1 DEF HandleRaw, AtRawCommand
  <2>2. PICK n \in {1, 2, 9} : buf' = Consumed(n)
    BY <1>1, <2>1 DEF HandleRaw, RawData, RawCommand
  <2>3. buf' \in Seq(Bytes) /\ Len(buf') < Len(buf)
    BY <2>1, <2>2, ConsumedIsShorter
  <2> QED
    BY <1>1, <2>3 DEF HandleRaw
<1>2. CASE LeaveRaw
  BY <1>2 DEF LeaveRaw
<1>3. CASE SkipToSof
  <2>1. buf # <<>> /\ FindSof \in Nat /\ FindSof > 0
    BY <1>3, FindSofInBuffer DEF SkipToSof
  <2>2. buf' = Consumed(FindSof)
    BY <1>3 DEF SkipToSof
  <2>3. buf' \in Seq(Bytes) /\ Len(buf') < Len(buf)
    BY <2>1, <2>2, ConsumedIsShorter
  <2> QED
    BY <1>3, <2>3 DEF SkipToSof
<1>4. CASE WaitForMore
  BY <1>4 DEF WaitForMore, AtHeader
<1>5. CASE BadVersion
  <2>1. buf # <<>> /\ buf' = Consumed(2)
    BY <1>5 DEF BadVersion, AtFrame, AtHeader
  <2>2. buf' \in Seq(Bytes) /\ Len(buf') < Len(buf)
    BY <2>1, ConsumedIsShorter
  <2> QED
    BY <1>5, <2>2 DEF BadVersion
<1>6. CASE BadCrc
  <2>1. buf # <<>> /\ buf' = Consumed(1)
    BY <1>6 DEF BadCrc, AtFrame, AtHeader
  <2>2. buf' \in Seq(Bytes) /\ Len(buf') < Len(buf)
    BY <2>1, ConsumedIsShorter
  <2> QED
    BY <1>6, <2>2 DEF BadCrc
<1>7. CASE HandleFrame
  <2>1. buf # <<>> /\ Len(buf) >= 8 /\ buf' = Consumed(FrameLen)
    BY <1>7 DEF HandleFrame, AtFrame, AtHeader
  <2>2. FrameLen \in 8..263
    BY <2>1, FrameLenBounds
  <2>3. buf' \in Seq(Bytes) /\ Len(buf') < Len(buf)
    BY <2>1, <2>2, ConsumedIsShorter
  <2> QED
    BY <1>7, <2>3 DEF HandleFrame
<1> QED
  BY <1>1, <1>2, <1>3, <1>4, <1>5, <1>6, <1>7 DEF Parse

\* Every other step of a tick keeps the types too.
LEMMA NextTypes == TypeOK /\ [Next]_vars => TypeOK'
<1> SUFFICES ASSUME TypeOK, [Next]_vars PROVE TypeOK'
  OBVIOUS
<1>1. CASE ReadSome
  <2>1. PICK n \in 1..Len(wire) :
          /\ buf' = Kept \o SubSeq(wire, 1, n)
          /\ wire' = SubSeq(wire, n + 1, Len(wire))
    BY <1>1 DEF ReadSome
  <2>2. SubSeq(wire, 1, n) \in Seq(Bytes) /\ wire' \in Seq(Bytes)
    BY <2>1, CutsAreBytes DEF TypeOK
  <2>3. buf' \in Seq(Bytes)
    BY <2>1, <2>2, KeptTypes
  <2> QED
    BY <1>1, <2>2, <2>3 DEF ReadSome, TypeOK, portVars
<1>2. CASE ReadNothing
  BY <1>2, KeptTypes DEF ReadNothing, TypeOK, portVars
<1>3. CASE Parse
  BY <1>3, ParseStep
<1>4. CASE WriteState
  BY <1>4 DEF WriteState, TypeOK, portVars
<1>5. CASE WriteFails
  <2>1. failures' \in 0..MaxFailures
    BY <1>5, ParserAssumption DEF WriteFails, TypeOK
  <2>2. UNCHANGED <<wire, buf, retry>> /\ phase' = "idle" /\ opened' = FALSE
    BY <1>5 DEF WriteFails
  <2> QED
    BY <2>1, <2>2 DEF TypeOK
<1>6. CASE Reopen
  <2>1. PICK n \in 0..Len(wire) : wire' = SubSeq(wire, n + 1, Len(wire))
    BY <1>6 DEF Reopen
  <2>2. wire' \in Seq(Bytes)
    BY <2>1, CutsAreBytes DEF TypeOK
  <2>3. retry' \in 0..(ReopenEvery - 1)
    BY <1>6, ParserAssumption DEF Reopen, TypeOK
  <2> QED
    BY <1>6, <2>2, <2>3 DEF Reopen, TypeOK
<1>7. CASE StayClosed
  <2>1. retry' \in 0..(ReopenEvery - 1)
    BY <1>7, ParserAssumption DEF StayClosed, TypeOK
  <2> QED
    BY <1>7, <2>1 DEF StayClosed, TypeOK
<1>8. CASE UNCHANGED vars
  BY <1>8 DEF vars, portVars, TypeOK
<1> QED
  BY <1>1, <1>2, <1>3, <1>4, <1>5, <1>6, <1>7, <1>8 DEF Next

\* The receiver's state keeps its type.
THEOREM TypeCorrect == Spec => []TypeOK
<1> QED
  BY InitTypes, NextTypes, PTL DEF Spec

-----------------------------------------------------------------------------
\* The loops of readSerialCommands consume something in every turn, so that
\* no input keeps the node in them.
THEOREM ParserAlwaysAdvances == Spec => ParserAdvances
<1>1. TypeOK /\ [Next]_vars
        => [Parse => phase' # phase \/ Len(buf') < Len(buf)]_vars
  BY ParseStep
<1> QED
  BY <1>1, TypeCorrect, PTL DEF Spec, ParserAdvances

\* Only the framed parser leaves the loops, and only with less than a frame.
THEOREM LeftoverStaysShort == Spec => []LeftoverIsShort
<1>1. Init => LeftoverIsShort
  BY DEF Init, LeftoverIsShort
<1>2. LeftoverIsShort /\ [Next]_vars => LeftoverIsShort'
  <2> SUFFICES ASSUME LeftoverIsShort, [Next]_vars PROVE LeftoverIsShort'
    OBVIOUS
  <2> USE DEF LeftoverIsShort, FrameLen
  <2>1. CASE ReadSome
    BY <2>1 DEF ReadSome
  <2>2. CASE ReadNothing
    BY <2>2 DEF ReadNothing, Kept
  <2>3. CASE Parse
    <3>1. CASE WaitForMore
      BY <3>1 DEF WaitForMore, AtHeader
    <3>2. CASE ~WaitForMore
      BY <2>3, <3>2 DEF Parse, HandleRaw, LeaveRaw, SkipToSof, BadVersion,
                        BadCrc, HandleFrame, AtFrame, AtHeader
    <3> QED
      BY <3>1, <3>2
  <2>4. CASE WriteState \/ WriteFails
    BY <2>4 DEF WriteState, WriteFails
  <2>5. CASE Reopen \/ StayClosed
    BY <2>5 DEF Reopen, StayClosed
  <2>6. CASE UNCHANGED vars
    BY <2>6 DEF vars
  <2> QED
    BY <2>1, <2>2, <2>3, <2>4, <2>5, <2>6 DEF Next
<1> QED
  BY <1>1, <1>2, PTL DEF Spec

\* A buffer longer than a frame is never full when read() is called: the
\* "overflow safety" of readSerialCommands drops nothing.
THEOREM NothingIsDropped == Spec => []NeverDropped
<1>1. TypeOK /\ LeftoverIsShort => NeverDropped
  <2> SUFFICES ASSUME TypeOK, LeftoverIsShort, phase = "idle"
               PROVE  Kept = buf
    BY DEF NeverDropped
  <2>1. buf \in Seq(Bytes) /\ Len(buf) \in Nat
    BY DEF TypeOK
  <2>2. Len(buf) < 8 \/ Len(buf) < FrameLen
    BY DEF LeftoverIsShort
  <2>3. CASE Len(buf) < 8
    BY <2>1, <2>3, ParserAssumption DEF Kept
  <2>4. CASE Len(buf) >= 8
    <3>1. FrameLen \in 8..263
      BY <2>1, <2>4, FrameLenBounds
    <3> QED
      BY <2>1, <2>2, <2>4, <3>1, ParserAssumption DEF Kept
  <2> QED
    BY <2>1, <2>3, <2>4
<1> QED
  BY <1>1, TypeCorrect, LeftoverStaysShort, PTL

-----------------------------------------------------------------------------
\* What FlattenSeq computes: the first parts together, as a function of their
\* number.  That there is such a function is shown by induction.
IsFront(front, parts, n) ==
  front = [i \in 1..n |-> IF i = 1 THEN parts[i] ELSE front[i - 1] \o parts[i]]

LEMMA FrontExists ==
  ASSUME NEW parts, NEW n \in Nat
  PROVE  \E front : IsFront(front, parts, n)
<1> DEFINE bad == {m \in Nat : ~\E front : IsFront(front, parts, m)}
<1> SUFFICES ASSUME bad # {} PROVE FALSE
  OBVIOUS
<1>1. PICK m \in bad : \A k \in bad : m <= k
  <2>1. bad \subseteq Nat
    OBVIOUS
  <2> HIDE DEF bad
  <2> QED
    BY <2>1, LeastNatural
<1>2. m # 0
  <2>1. IsFront(<<>>, parts, 0)
    BY DEF IsFront
  <2> QED
    BY <1>1, <2>1
<1>3. m \in Nat /\ m - 1 \in Nat /\ m - 1 \notin bad
  BY <1>1, <1>2
<1>4. PICK front : IsFront(front, parts, m - 1)
  BY <1>3
<1> DEFINE longer == [i \in 1..m |-> IF i < m THEN front[i]
                                     ELSE IF i = 1 THEN parts[i]
                                     ELSE front[i - 1] \o parts[i]]
<1>5. IsFront(longer, parts, m)
  <2>1. ASSUME NEW i \in 1..m
        PROVE  longer[i] = IF i = 1 THEN parts[i]
                           ELSE longer[i - 1] \o parts[i]
    <3>1. CASE i = 1
      <4>1. CASE i < m
        <5>1. front[1] = parts[1]
          BY <1>4, <1>3, <3>1, <4>1 DEF IsFront
        <5> QED
          BY <5>1, <3>1, <4>1
      <4> QED
        BY <4>1, <3>1
    <3>2. CASE i # 1
      <4>1. i - 1 \in 1..(m - 1) /\ longer[i - 1] = front[i - 1]
        BY <3>2, <1>3
      <4>2. CASE i < m
        <5>1. i \in 1..(m - 1)
          BY <4>2, <1>3
        <5>2. front[i] = front[i - 1] \o parts[i]
          BY <1>4, <3>2, <5>1 DEF IsFront
        <5> QED
          BY <5>2, <3>2, <4>1, <4>2
      <4>3. CASE ~(i < m)
        BY <3>2, <4>1, <4>3
      <4> QED
        BY <4>2, <4>3
    <3> QED
      BY <3>1, <3>2
  <2>2. longer = [i \in 1..m |-> longer[i]]
    OBVIOUS
  <2> HIDE DEF longer
  <2> QED
    BY <2>1, <2>2 DEF IsFront
<1> QED
  BY <1>1, <1>5

LEMMA FlattenIsFront ==
  ASSUME NEW S, NEW parts \in Seq(S), parts # <<>>
  PROVE  \E front : /\ IsFront(front, parts, Len(parts))
                    /\ FlattenSeq(parts) = front[Len(parts)]
<1> DEFINE front == CHOOSE front : IsFront(front, parts, Len(parts))
<1>1. Len(parts) \in Nat /\ Len(parts) # 0
  OBVIOUS
<1>2. IsFront(front, parts, Len(parts))
  BY <1>1, FrontExists
<1>3. FlattenSeq(parts) = front[Len(parts)]
  BY <1>1 DEF FlattenSeq, IsFront
<1> QED
  BY <1>2, <1>3

\* The whole of n parts, split behind each of them into what comes before and
\* what comes after.
IsSplit(before, after, parts, n, S) ==
  /\ before \in [0..n -> Seq(S)] /\ after \in [0..n -> Seq(S)]
  /\ before[0] = <<>> /\ after[n] = <<>>
  /\ \A i \in 1..n : /\ before[i] = before[i - 1] \o parts[i]
                     /\ after[i - 1] = parts[i] \o after[i]
  /\ \A i \in 0..n : before[i] \o after[i] = before[n]

LEMMA SplitGrows ==
  ASSUME NEW S, NEW n \in Nat, NEW parts \in [1..(n + 1) -> Seq(S)],
         NEW before, NEW after, IsSplit(before, after, parts, n, S)
  PROVE  LET whole == before[n] \o parts[n + 1]
         IN IsSplit([i \in 0..(n + 1) |-> IF i <= n THEN before[i] ELSE whole],
                    [i \in 0..(n + 1) |-> IF i <= n THEN after[i] \o parts[n + 1]
                                         ELSE <<>>],
                    parts, n + 1, S)
<1>0. \A s, t, u \in Seq(S) : (s \o t) \o u = s \o (t \o u)
  <2> TAKE s \in Seq(S), t \in Seq(S), u \in Seq(S)
  <2> QED
    OBVIOUS
<1> DEFINE part  == parts[n + 1]
           whole == before[n] \o part
           b == [i \in 0..(n + 1) |-> IF i <= n THEN before[i] ELSE whole]
           a == [i \in 0..(n + 1) |-> IF i <= n THEN after[i] \o part ELSE <<>>]
<1>1. part \in Seq(S)
  OBVIOUS
<1>2. \A i \in 0..n : before[i] \in Seq(S) /\ after[i] \in Seq(S)
  BY DEF IsSplit
<1> HIDE DEF part
<1>3. whole \in Seq(S)
  BY <1>1, <1>2
<1>4. b \in [0..(n + 1) -> Seq(S)] /\ a \in [0..(n + 1) -> Seq(S)]
  <2>1. \A i \in 0..(n + 1) : i <= n => i \in 0..n
    OBVIOUS
  <2>2. \A i \in 0..(n + 1) : b[i] \in Seq(S)
    <3> HIDE DEF whole
    <3> QED
      BY <1>2, <1>3, <2>1
  <2>3. \A i \in 0..(n + 1) : a[i] \in Seq(S)
    BY <1>1, <1>2, <2>1
  <2> QED
    BY <2>2, <2>3
<1>5. /\ b[0] = <<>> /\ b[n + 1] = whole
      /\ a[n + 1] = <<>> /\ a[n] = after[n] \o part
      /\ before[0] = <<>> /\ after[n] = <<>>
  <2>1. /\ 0 \in 0..(n + 1) /\ n \in 0..(n + 1) /\ n + 1 \in 0..(n + 1)
        /\ ~(n + 1 <= n) /\ 0 <= n
    OBVIOUS
  <2>2. before[0] = <<>> /\ after[n] = <<>>
    BY DEF IsSplit
  <2>3. b[0] = before[0]
    BY <2>1
  <2>4. b[n + 1] = whole
    <3> HIDE DEF whole
    <3> QED
      BY <2>1
  <2>5. a[n + 1] = <<>>
    BY <2>1
  <2>6. a[n] = after[n] \o part
    BY <2>1
  <2> HIDE DEF a, b, whole
  <2> QED
    BY <2>2, <2>3, <2>4, <2>5, <2>6
<1>6. ASSUME NEW i \in 1..(n + 1)
      PROVE  b[i] = b[i - 1] \o parts[i] /\ a[i - 1] = parts[i] \o a[i]
  <2>1. CASE i = n + 1
    <3>1. i - 1 = n /\ b[i - 1] = before[n] /\ b[i] = whole
      BY <2>1
    <3>2. a[i - 1] = after[n] \o part /\ after[n] = <<>> /\ a[i] = <<>>
      <4> HIDE DEF a
      <4> QED
        BY <1>5, <2>1, <3>1
    <3>3. <<>> \o part = part /\ part \o <<>> = part
      BY <1>1, ConcatEmptySeq
    <3> HIDE DEF a, b
    <3> QED
      BY <2>1, <3>1, <3>2, <3>3 DEF part
  <2>2. CASE i # n + 1
    <3>1. i \in 1..n /\ i \in 0..n /\ i - 1 \in 0..n
      BY <2>2
    <3>2. /\ b[i] = before[i] /\ b[i - 1] = before[i - 1]
          /\ a[i] = after[i] \o part /\ a[i - 1] = after[i - 1] \o part
      BY <3>1
    <3>3. before[i] = before[i - 1] \o parts[i]
          /\ after[i - 1] = parts[i] \o after[i]
      BY <3>1 DEF IsSplit
    <3>4. parts[i] \in Seq(S)
      OBVIOUS
    <3>5. (parts[i] \o after[i]) \o part = parts[i] \o (after[i] \o part)
      BY <1>0, <1>1, <1>2, <3>1, <3>4
    <3> HIDE DEF b, a
    <3> QED
      BY <3>2, <3>3, <3>5
  <2> QED
    BY <2>1, <2>2
<1>7. ASSUME NEW i \in 0..(n + 1)
      PROVE  b[i] \o a[i] = whole
  <2>1. CASE i = n + 1
    <3>1. whole \o <<>> = whole
      BY <1>3, ConcatEmptySeq
    <3> HIDE DEF a, b, whole
    <3> QED
      BY <3>1, <1>5, <2>1
  <2>2. CASE i # n + 1
    <3>1. i \in 0..n
      BY <2>2
    <3>2. before[i] \o after[i] = before[n]
      BY <3>1 DEF IsSplit
    <3>3. before[i] \o (after[i] \o part) = (before[i] \o after[i]) \o part
      BY <1>0, <1>1, <1>2, <3>1
    <3>4. b[i] = before[i] /\ a[i] = after[i] \o part
      BY <3>1
    <3> HIDE DEF a, b
    <3> QED
      BY <3>2, <3>3, <3>4 DEF whole
  <2> QED
    BY <2>1, <2>2
<1> HIDE DEF a, b, whole
<1>8. IsSplit(b, a, parts, n + 1, S)
  BY <1>4, <1>5, <1>6, <1>7 DEF IsSplit
<1> QED
  BY <1>8 DEF a, b, whole, part

\* A sequence of parts can be split so: by induction on their number.
LEMMA FlattenSplits ==
  ASSUME NEW S, NEW parts \in Seq(Seq(S))
  PROVE  \E before, after :
           /\ IsSplit(before, after, parts, Len(parts), S)
           /\ before[Len(parts)] = FlattenSeq(parts)
<1> DEFINE N == Len(parts)
<1>1. N \in Nat /\ parts \in [1..N -> Seq(S)]
  OBVIOUS
<1>2. CASE parts = <<>>
  <2>1. N = 0 /\ FlattenSeq(parts) = <<>>
    BY <1>2 DEF FlattenSeq
  <2>2. IsSplit([i \in 0..0 |-> <<>>], [i \in 0..0 |-> <<>>], parts, 0, S)
    BY DEF IsSplit
  <2> QED
    BY <2>1, <2>2
<1>3. CASE parts # <<>>
  <2>1. PICK front : /\ IsFront(front, parts, N)
                     /\ FlattenSeq(parts) = front[N]
    BY <1>3, FlattenIsFront
  <2> HIDE DEF N
  <2> DEFINE Good(m) == \E before, after :
                          /\ IsSplit(before, after, parts, m, S)
                          /\ m # 0 => before[m] = front[m]
             bad == {m \in 0..N : ~Good(m)}
  <2>2. bad = {}
    <3> SUFFICES ASSUME bad # {} PROVE FALSE
      OBVIOUS
    <3>1. PICK m \in bad : \A k \in bad : m <= k
      <4>1. bad \subseteq Nat
        BY <1>1
      <4> HIDE DEF bad
      <4> QED
        BY <4>1, LeastNatural
    <3>2. Good(0)
      <4>1. IsSplit([i \in 0..0 |-> <<>>], [i \in 0..0 |-> <<>>], parts, 0, S)
        BY DEF IsSplit
      <4> QED
        BY <4>1
    <3> DEFINE n == m - 1
    <3>3. /\ n \in Nat /\ n + 1 = m /\ m \in 1..N /\ n \in 0..N /\ n < m
          /\ n \notin bad
      <4>1. m # 0 /\ m \in 0..N
        BY <3>1, <3>2
      <4>2. n \in Nat /\ n + 1 = m /\ m \in 1..N /\ n \in 0..N /\ n < m
        BY <4>1, <1>1
      <4> HIDE DEF bad, n
      <4> QED
        BY <4>1, <4>2, <3>1
    <3>4. Good(n)
      BY <3>3
    <3> HIDE DEF n
    <3>5. PICK before, after : /\ IsSplit(before, after, parts, n, S)
                               /\ n # 0 => before[n] = front[n]
      BY <3>4
    <3> DEFINE few   == [i \in 1..(n + 1) |-> parts[i]]
               whole == before[n] \o parts[n + 1]
               b == [i \in 0..(n + 1) |-> IF i <= n THEN before[i] ELSE whole]
               a == [i \in 0..(n + 1) |-> IF i <= n THEN after[i] \o parts[n + 1]
                                         ELSE <<>>]
    <3>6. few \in [1..(n + 1) -> Seq(S)] /\ \A i \in 1..(n + 1) : few[i] = parts[i]
      BY <1>1, <3>3
    <3>7. IsSplit(before, after, few, n, S)
      <4>1. \A i \in 1..n : few[i] = parts[i]
        BY <3>3
      <4> HIDE DEF few
      <4> QED
        BY <3>5, <4>1 DEF IsSplit
    <3>8. IsSplit(b, a, few, n + 1, S)
      <4>1. few[n + 1] = parts[n + 1]
        BY <3>3
      <4> HIDE DEF few
      <4> QED
        BY <3>3, <3>6, <3>7, <4>1, SplitGrows
    <3>9. IsSplit(b, a, parts, m, S)
      <4> HIDE DEF few, b, a
      <4> QED
        BY <3>3, <3>6, <3>8 DEF IsSplit
    <3>10. b[m] = front[m]
      <4>1. b[m] = before[n] \o parts[m]
        <5>1. n + 1 \in 0..(n + 1) /\ ~(n + 1 <= n)
          BY <3>3
        <5>2. b[n + 1] = whole
          <6> HIDE DEF whole
          <6> QED
            BY <5>1
        <5> HIDE DEF b
        <5> QED
          BY <3>3, <5>2
      <4>2. front[m] = IF m = 1 THEN parts[m] ELSE front[n] \o parts[m]
        BY <2>1, <3>3 DEF IsFront, n
      <4>3. CASE m = 1
        <5>1. n = 0 /\ before[0] = <<>> /\ parts[m] \in Seq(S)
          BY <3>3, <3>5, <1>1, <4>3 DEF IsSplit
        <5> HIDE DEF b
        <5> QED
          BY <4>1, <4>2, <4>3, <5>1
      <4>4. CASE m # 1
        <5>1. n # 0
          BY <3>3, <4>4
        <5> HIDE DEF b
        <5> QED
          BY <3>5, <4>1, <4>2, <4>4, <5>1
      <4> QED
        BY <4>3, <4>4
    <3>11. Good(m)
      <4> HIDE DEF a, b
      <4> QED
        BY <3>9, <3>10
    <3> HIDE DEF Good
    <3> QED
      BY <3>1, <3>11
  <2>3. Good(N) /\ N # 0
    <3>1. N # 0
      BY <1>3 DEF N
    <3>2. N \in 0..N
      BY <1>1
    <3> HIDE DEF Good
    <3> QED
      BY <2>2, <3>1, <3>2
  <2> QED
    BY <2>1, <2>3 DEF N
<1> QED
  BY <1>2, <1>3

-----------------------------------------------------------------------------
\* What read() has delivered so far begins with the next chunk, or with a part
\* of it; behind the chunk the line goes on.
LEMMA FrontOfLine ==
  ASSUME NEW S, NEW b \in Seq(S), NEW w \in Seq(S),
         NEW p \in Seq(S), NEW q \in Seq(S), b \o w = p \o q, p # <<>>
  PROVE  /\ \A i \in 1..Len(b) : i <= Len(p) => b[i] = p[i]
         /\ Len(b) >= Len(p) =>
              /\ SubSeq(b, 1, Len(p)) = p
              /\ SubSeq(b, Len(p) + 1, Len(b)) \o w = q
<1>1. ASSUME NEW i \in 1..Len(b), i <= Len(p)  PROVE b[i] = p[i]
  <2>1. (b \o w)[i] = b[i]
    OBVIOUS
  <2>2. (p \o q)[i] = p[i]
    BY <1>1
  <2> QED
    BY <2>1, <2>2
<1>2. ASSUME Len(b) >= Len(p)
      PROVE  /\ SubSeq(b, 1, Len(p)) = p
             /\ SubSeq(b, Len(p) + 1, Len(b)) \o w = q
  <2> DEFINE rest == SubSeq(b, Len(p) + 1, Len(b))
  <2>1. SubSeq(b, 1, Len(p)) = p
    <3>1. /\ SubSeq(b, 1, Len(p)) \in Seq(S)
          /\ Len(SubSeq(b, 1, Len(p))) = Len(p)
          /\ \A i \in 1..Len(p) : SubSeq(b, 1, Len(p))[i] = b[i]
      BY <1>2
    <3>2. \A i \in 1..Len(p) : b[i] = p[i]
      BY <1>1, <1>2
    <3> QED
      BY <3>1, <3>2, SeqEqual
  <2>2. rest \in Seq(S) /\ b = p \o rest
    <3>1. rest \in Seq(S)
      BY <1>2
    <3>2. /\ Len(rest) = Len(b) - Len(p)
          /\ \A i \in 1..(Len(b) - Len(p)) : rest[i] = b[Len(p) + i]
      BY <1>2
    <3> HIDE DEF rest
    <3>3. \A i \in 1..Len(p) : p[i] = b[i]
      BY <1>1, <1>2
    <3>4. p \o rest \in Seq(S) /\ Len(p \o rest) = Len(b)
      BY <3>1, <3>2
    <3>5. ASSUME NEW i \in 1..Len(b)  PROVE (p \o rest)[i] = b[i]
      <4>1. CASE i <= Len(p)
        BY <3>1, <3>3, <4>1
      <4>2. CASE ~(i <= Len(p))
        <5>1. i - Len(p) \in 1..(Len(b) - Len(p)) /\ Len(p) + (i - Len(p)) = i
          BY <4>2
        <5>2. (p \o rest)[i] = rest[i - Len(p)]
          BY <3>1, <3>2, <4>2
        <5> QED
          BY <3>2, <5>1, <5>2
      <4> QED
        BY <4>1, <4>2
    <3> QED
      BY <3>1, <3>4, <3>5, SeqEqual
  <2> HIDE DEF rest
  <2>3. p \o (rest \o w) = (p \o rest) \o w
    BY <2>2
  <2>4. p \o (rest \o w) = p \o q
    BY <2>2, <2>3
  <2>5. rest \o w \in Seq(S)
    BY <2>2
  <2>6. rest \o w = q
    BY <2>4, <2>5, ConcatSimplifications
  <2> QED
    BY <2>1, <2>6 DEF rest
<1> QED
  BY <1>1, <1>2

\* The parts of the script, and what it means that the parser is in step with
\* them: it has carried out what the first chunks say, and the bytes of the
\* others are in the buffer and on the line.  The framed parser does not meet
\* a raw command, but for the first byte of one.
Said    == STRING \X Seq(Bytes)
BytesOf == [i \in DOMAIN script |-> script[i].bytes]
SaysOf  == [i \in DOMAIN script |-> script[i].says]

InStepAt(k, done, rest, before, left) ==
  /\ IsSplit(done, rest, SaysOf, Len(script), Said)
  /\ done[Len(script)] = Sent
  /\ IsSplit(before, left, BytesOf, Len(script), Bytes)
  /\ k \in 0..Len(script)
  /\ handled = done[k]
  /\ buf \o wire = left[k]
  /\ phase = "framed" /\ k < Len(script) /\ IsRaw(script[k + 1])
       => Len(buf) < 2

InStep ==
  /\ script \in Scripts
  /\ Undisturbed =>
       /\ opened
       /\ \E k, done, rest, before, left : InStepAt(k, done, rest, before, left)

LEMMA ScriptTypes ==
  ASSUME script \in Scripts
  PROVE  /\ Len(script) \in Nat /\ DOMAIN script = 1..Len(script)
         /\ BytesOf \in Seq(Seq(Bytes)) /\ Len(BytesOf) = Len(script)
         /\ SaysOf \in Seq(Seq(Said)) /\ Len(SaysOf) = Len(script)
         /\ \A i \in DOMAIN script :
              /\ script[i].bytes \in Seq(Bytes) /\ script[i].says \in Seq(Said)
              /\ BytesOf[i] = script[i].bytes /\ SaysOf[i] = script[i].says
<1>1. script \in Seq(Chunks)
  BY ScriptAssumption
<1>2. Len(script) \in Nat /\ DOMAIN script = 1..Len(script)
  BY <1>1
<1>3. \A i \in DOMAIN script :
        script[i].bytes \in Seq(Bytes) /\ script[i].says \in Seq(Said)
  <2>1. \A c \in Chunks : c.bytes \in Seq(Bytes) /\ c.says \in Seq(Said)
    BY DEF Chunks, Said
  <2>2. \A i \in DOMAIN script : script[i] \in Chunks
    BY <1>1
  <2> QED
    BY <2>1, <2>2
<1>4. BytesOf \in [1..Len(script) -> Seq(Bytes)]
  BY <1>2, <1>3 DEF BytesOf
<1>5. SaysOf \in [1..Len(script) -> Seq(Said)]
  BY <1>2, <1>3 DEF SaysOf
<1>6. BytesOf \in Seq(Seq(Bytes)) /\ Len(BytesOf) = Len(script)
  BY <1>2, <1>4
<1>7. SaysOf \in Seq(Seq(Said)) /\ Len(SaysOf) = Len(script)
  BY <1>2, <1>5
<1>8. \A i \in DOMAIN script :
        BytesOf[i] = script[i].bytes /\ SaysOf[i] = script[i].says
  BY DEF BytesOf, SaysOf
<1> QED
  BY <1>2, <1>3, <1>6, <1>7, <1>8

LEMMA InStepAtFirst ==
  ASSUME Init  PROVE InStep
<1>1. script \in Scripts /\ wire = Line(script) /\ buf = <<>>
      /\ handled = <<>> /\ phase = "idle" /\ opened = (failures = 0)
  BY DEF Init
<1>2. PICK done, rest : /\ IsSplit(done, rest, SaysOf, Len(script), Said)
                        /\ done[Len(script)] = FlattenSeq(SaysOf)
  BY <1>1, ScriptTypes, FlattenSplits
<1>3. PICK before, left : /\ IsSplit(before, left, BytesOf, Len(script), Bytes)
                          /\ before[Len(script)] = FlattenSeq(BytesOf)
  BY <1>1, ScriptTypes, FlattenSplits
<1>4. done[Len(script)] = Sent
  BY <1>2 DEF Sent, SaysOf
<1>5. buf \o wire = left[0] /\ handled = done[0]
  <2>1. 0 \in 0..Len(script)
    BY <1>1, ScriptTypes
  <2>2. /\ before[0] = <<>> /\ left[0] \in Seq(Bytes) /\ done[0] = <<>>
        /\ before[0] \o left[0] = before[Len(script)]
    BY <1>2, <1>3, <2>1 DEF IsSplit
  <2>3. wire = left[0]
    <3>1. <<>> \o left[0] = left[0]
      BY <2>2
    <3>2. wire = FlattenSeq(BytesOf)
      BY <1>1 DEF Line, BytesOf
    <3> QED
      BY <1>3, <2>2, <3>1, <3>2
  <2>4. <<>> \o wire = wire
    BY <2>2, <2>3
  <2> QED
    BY <1>1, <2>2, <2>3, <2>4
<1>6. InStepAt(0, done, rest, before, left)
  <2>1. 0 \in 0..Len(script)
    BY <1>1, ScriptTypes
  <2> QED
    BY <1>1, <1>2, <1>3, <1>4, <1>5, <2>1 DEF InStepAt
<1> QED
  BY <1>1, <1>6 DEF InStep, Undisturbed

\* No chunk is both, for no start byte is a raw command.
LEMMA RawOrFrame ==
  ASSUME NEW c, IsRaw(c)  PROVE ~IsFrame(c)
<1>1. c.bytes[1] \in {10, 11, 32, 37, 38}
  <2>1. DOMAIN RawCommand = {10, 11, 32, 37, 38}
    BY DEF RawCommand
  <2> QED
    BY <2>1 DEF IsRaw
<1>2. IsFrame(c) => c.bytes[1] = 170
  BY DEF IsFrame, WellFormed, EP_SOF1
<1> QED
  BY <1>1, <1>2

\* What is in the buffer belongs to a chunk.
LEMMA NextChunk ==
  ASSUME script \in Scripts, Undisturbed, buf \in Seq(Bytes),
         wire \in Seq(Bytes), buf # <<>>,
         NEW k, NEW done, NEW rest, NEW before, NEW left,
         InStepAt(k, done, rest, before, left)
  PROVE  LET c == script[k + 1]
         IN /\ k \in Nat /\ k + 1 \in 1..Len(script)
            /\ c.bytes \in Seq(Bytes) /\ c.bytes # <<>> /\ c.says \in Seq(Said)
            /\ IsRaw(c) \/ IsFrame(c)
            /\ left[k + 1] \in Seq(Bytes)
            /\ buf \o wire = c.bytes \o left[k + 1]
            /\ handled \in Seq(Said)
            /\ done[k + 1] = handled \o c.says
<1> DEFINE c == script[k + 1]
           n == Len(script)
<1>1. /\ n \in Nat /\ DOMAIN script = 1..n
      /\ \A i \in 1..n :
           /\ script[i].bytes \in Seq(Bytes) /\ script[i].says \in Seq(Said)
           /\ BytesOf[i] = script[i].bytes /\ SaysOf[i] = script[i].says
  BY ScriptTypes
<1>2. k \in 0..n /\ k \in Nat
  BY <1>1 DEF InStepAt
<1>3. k # n
  <2>1. buf \o wire = left[k] /\ left[n] = <<>>
    BY DEF InStepAt, IsSplit
  <2>2. Len(buf \o wire) = Len(buf) + Len(wire) /\ Len(buf) # 0
    OBVIOUS
  <2>3. Len(buf \o wire) # 0
    BY <2>2
  <2> QED
    BY <2>1, <2>3
<1> HIDE DEF n
<1>4. k + 1 \in 1..n /\ (k + 1) - 1 = k
  BY <1>1, <1>2, <1>3
<1>5. c.bytes \in Seq(Bytes) /\ c.says \in Seq(Said)
  BY <1>1, <1>4
<1>6. IsRaw(c) \/ IsFrame(c)
  <2>1. script[k + 1].intact
    BY <1>1, <1>4 DEF Undisturbed
  <2> QED
    BY <1>1, <1>4, <2>1, ScriptAssumption
<1>7. c.bytes # <<>>
  <2>1. CASE IsRaw(c)
    BY <2>1 DEF IsRaw
  <2>2. CASE IsFrame(c)
    <3>1. Len(c.bytes) >= 8
      BY <2>2 DEF IsFrame, WellFormed
    <3> QED
      BY <1>5, <3>1
  <2> QED
    BY <1>6, <2>1, <2>2
<1>8. /\ left[k] = BytesOf[k + 1] \o left[k + 1]
      /\ left[k + 1] \in Seq(Bytes)
      /\ buf \o wire = left[k]
  <2>1. IsSplit(before, left, BytesOf, n, Bytes) /\ buf \o wire = left[k]
    BY DEF InStepAt, n
  <2>2. k + 1 \in 0..n
    BY <1>4
  <2> QED
    BY <1>4, <2>1, <2>2 DEF IsSplit
<1>9. /\ done[k + 1] = done[k] \o SaysOf[k + 1]
      /\ done[k] \in Seq(Said) /\ handled = done[k]
  <2>1. IsSplit(done, rest, SaysOf, n, Said) /\ handled = done[k]
    BY DEF InStepAt, n
  <2> QED
    BY <1>2, <1>4, <2>1 DEF IsSplit
<1> QED
  BY <1>1, <1>2, <1>4, <1>5, <1>6, <1>7, <1>8, <1>9 DEF n

\* A chunk that is all in the buffer is carried out and consumed.
LEMMA ChunkDone ==
  ASSUME script \in Scripts, Undisturbed, buf \in Seq(Bytes),
         wire \in Seq(Bytes), buf # <<>>,
         NEW k, NEW done, NEW rest, NEW before, NEW left,
         InStepAt(k, done, rest, before, left),
         Len(buf) >= Len(script[k + 1].bytes),
         handled' = handled \o script[k + 1].says,
         buf' = SubSeq(buf, Len(script[k + 1].bytes) + 1, Len(buf)),
         wire' = wire, script' = script,
         phase' # "framed" \/ IsFrame(script[k + 1])
  PROVE  InStepAt(k + 1, done, rest, before, left)'
<1> DEFINE c == script[k + 1]
<1>1. /\ k \in Nat /\ k + 1 \in 1..Len(script)
      /\ c.bytes \in Seq(Bytes) /\ c.bytes # <<>>
      /\ left[k + 1] \in Seq(Bytes)
      /\ buf \o wire = c.bytes \o left[k + 1]
      /\ done[k + 1] = handled \o c.says
  BY NextChunk
<1> HIDE DEF c
<1>2. buf' \o wire' = left[k + 1]
  <2>1. SubSeq(buf, Len(c.bytes) + 1, Len(buf)) \o wire = left[k + 1]
    BY <1>1, FrontOfLine DEF c
  <2> QED
    BY <2>1 DEF c
<1>3. handled' = done[k + 1]
  BY <1>1 DEF c
<1>4. k + 1 \in 0..Len(script)
  BY <1>1
<1>5. phase' = "framed" /\ k + 1 < Len(script) => ~IsRaw(script[(k + 1) + 1])
  <2> SUFFICES ASSUME phase' = "framed", k + 1 < Len(script),
                      IsRaw(script[(k + 1) + 1])
               PROVE  FALSE
    OBVIOUS
  <2>1. DOMAIN script = 1..Len(script) /\ Len(script) \in Nat
    BY ScriptTypes
  <2>2. /\ k + 1 \in DOMAIN script /\ (k + 1) + 1 \in DOMAIN script
        /\ k + 1 < (k + 1) + 1
    BY <1>1, <2>1
  <2>3. IsRaw(script[k + 1])
    BY <2>2, ScriptAssumption
  <2> QED
    BY <2>3, RawOrFrame
<1>6. /\ BytesOf' = BytesOf /\ SaysOf' = SaysOf /\ Sent' = Sent
      /\ \A i : IsRaw(script[i])' = IsRaw(script[i])
  BY DEF BytesOf, SaysOf, Sent, IsRaw, RawCommand, RawData
<1> QED
  BY <1>2, <1>3, <1>4, <1>5, <1>6 DEF InStepAt

\* find_sof finds a header at the front where there is one.
LEMMA HeaderInFront ==
  ASSUME buf \in Seq(Bytes), Len(buf) >= 8, SofAt(1)  PROVE FindSof = 0
<1> DEFINE at == {i \in 1..(Len(buf) - 1) : SofAt(i)}
<1>1. 1 \in at /\ \A i \in at : i \in Nat /\ 1 <= i
  OBVIOUS
<1>2. FindSof = IF at = {} THEN Len(buf)
                ELSE (CHOOSE i \in at : \A j \in at : i <= j) - 1
  BY DEF FindSof
<1> HIDE DEF at
<1>3. (CHOOSE i \in at : \A j \in at : i <= j) = 1
  <2>1. \A i \in at : (\A j \in at : i <= j) => i = 1
    BY <1>1
  <2>2. \E i \in at : \A j \in at : i <= j
    BY <1>1
  <2> QED
    BY <2>1, <2>2
<1> QED
  BY <1>1, <1>2, <1>3

\* Once the header of a frame is in the buffer, the framed parser knows how
\* long it is; once all of it is, its checksum is right, and it is carried out.
LEMMA FrameInFront ==
  ASSUME buf \in Seq(Bytes), wire \in Seq(Bytes), Len(buf) >= 8,
         handled \in Seq(Said),
         NEW c, IsFrame(c), c.bytes \in Seq(Bytes), c.says \in Seq(Said),
         NEW q \in Seq(Bytes), buf \o wire = c.bytes \o q
  PROVE  /\ FindSof = 0
         /\ FrameLen = Len(c.bytes)
         /\ buf[3] = EP_VER
         /\ Len(buf) >= FrameLen => CrcOK /\ CarriedOut = handled \o c.says
<1> DEFINE p == c.bytes
           end == Len(p)
           name == FramedCommand(p[4], p[6])
<1>1. /\ end >= 8 /\ end = 8 + p[6]
      /\ p[1] = EP_SOF1 /\ p[2] = EP_SOF2 /\ p[3] = EP_VER
      /\ Crc(SubSeq(p, 3, end - 2)) = p[end - 1] + 256 * p[end]
      /\ c.says = IF name = "UNKNOWN" THEN <<>>
                  ELSE << <<name, SubSeq(p, 7, end - 2)>> >>
  BY DEF IsFrame, WellFormed, SaidBy
<1> HIDE DEF name
<1>0. end >= 8 /\ p[1] = EP_SOF1 /\ p[2] = EP_SOF2 /\ p[3] = EP_VER
  BY <1>1
<1>2. p \in Seq(Bytes) /\ p # <<>> /\ end \in Nat
  <2>1. p \in Seq(Bytes) /\ end \in Nat
    OBVIOUS
  <2>2. end # 0
    <3> HIDE DEF end
    <3> QED
      BY <1>0, <2>1
  <2> QED
    BY <2>1, <2>2
<1> HIDE DEF p
<1>3. /\ \A i \in 1..Len(buf) : i <= Len(p) => buf[i] = p[i]
      /\ Len(buf) >= Len(p) => SubSeq(buf, 1, Len(p)) = p
  BY <1>2, FrontOfLine DEF p
<1>4. \A i \in {1, 2, 3, 4, 6} : buf[i] = p[i]
  <2>1. /\ 1 \in 1..Len(buf) /\ 2 \in 1..Len(buf) /\ 3 \in 1..Len(buf)
        /\ 4 \in 1..Len(buf) /\ 6 \in 1..Len(buf)
    OBVIOUS
  <2>2. 1 <= Len(p) /\ 2 <= Len(p) /\ 3 <= Len(p) /\ 4 <= Len(p) /\ 6 <= Len(p)
    BY <1>0, <1>2
  <2> QED
    BY <1>3, <2>1, <2>2
<1>5. FindSof = 0
  <2>1. SofAt(1)
    <3>1. 1 + 1 = 2 /\ buf[1] = EP_SOF1 /\ buf[2] = EP_SOF2
      BY <1>0, <1>4
    <3> QED
      BY <3>1 DEF SofAt
  <2> QED
    BY <2>1, HeaderInFront
<1>6. p[6] \in Nat
  <2>1. 6 \in 1..Len(p)
    BY <1>0, <1>2
  <2>2. p[6] \in Bytes
    BY <1>2, <2>1
  <2>3. \A x \in Bytes : x \in Nat
    BY DEF Bytes
  <2> QED
    BY <2>2, <2>3
<1>7. FrameLen = end
  <2>1. FrameLen = 6 + p[6] + 2
    BY <1>4 DEF FrameLen
  <2> HIDE DEF end
  <2> QED
    BY <1>1, <1>6, <2>1
<1>8. ASSUME Len(buf) >= FrameLen
      PROVE  CrcOK /\ CarriedOut = handled \o c.says
  <2>1. \A i \in 1..end : buf[i] = p[i]
    BY <1>2, <1>3, <1>7, <1>8
  <2>2. \A m \in 1..end : SubSeq(buf, m, end - 2) = SubSeq(p, m, end - 2)
    <3> TAKE m \in 1..end
    <3>1. /\ m \in Int /\ end - 2 \in Int
          /\ \A i \in m..(end - 2) : i \in 1..end
      BY <1>2
    <3>2. \A i \in m..(end - 2) : buf[i] \in Bytes /\ p[i] \in Bytes
      BY <1>2, <2>1, <3>1
    <3> DEFINE u == SubSeq(buf, m, end - 2)
               v == SubSeq(p, m, end - 2)
    <3>3. /\ u \in Seq(Bytes) /\ v \in Seq(Bytes) /\ Len(u) = Len(v)
          /\ Len(u) = IF m <= end - 2 THEN end - 2 - m + 1 ELSE 0
          /\ \A i \in 1..(end - 2 - m + 1) :
               u[i] = buf[m + i - 1] /\ v[i] = p[m + i - 1]
      <4> HIDE DEF end
      <4> QED
        BY <3>1, <3>2, SubSeqProperties
    <3>4. \A i \in 1..(end - 2 - m + 1) : m + i - 1 \in 1..end
      <4> HIDE DEF end
      <4> QED
        BY <1>2
    <3>5. \A i \in 1..Len(u) : u[i] = v[i]
      <4> HIDE DEF u, v, end
      <4> QED
        BY <2>1, <3>1, <3>3, <3>4
    <3> HIDE DEF u, v
    <3>6. u = v
      BY <3>3, <3>5, SeqEqual
    <3> QED
      BY <3>6 DEF u, v
  <2>3. 3 \in 1..end /\ 7 \in 1..end /\ end - 1 \in 1..end /\ end \in 1..end
    BY <1>0, <1>2
  <2>4. CrcOK
    BY <1>1, <1>7, <2>1, <2>2, <2>3 DEF CrcOK
  <2>5. CarriedOut = IF name = "UNKNOWN" THEN handled
                     ELSE Append(handled, <<name, SubSeq(p, 7, end - 2)>>)
    <3>1. FramedCommand(buf[4], buf[6]) = name
      BY <1>4 DEF name
    <3>2. SubSeq(buf, 7, FrameLen - 2) = SubSeq(p, 7, end - 2)
      BY <1>7, <2>2, <2>3
    <3> QED
      BY <3>1, <3>2 DEF CarriedOut
  <2>6. CASE name = "UNKNOWN"
    <3>1. c.says = <<>> /\ CarriedOut = handled
      BY <1>1, <2>5, <2>6
    <3> QED
      BY <2>4, <3>1
  <2>7. CASE name # "UNKNOWN"
    <3> DEFINE e == <<name, SubSeq(p, 7, end - 2)>>
    <3>1. c.says = <<e>> /\ CarriedOut = Append(handled, e)
      BY <1>1, <2>5, <2>7
    <3> HIDE DEF e
    <3>2. e \in Said
      BY <3>1
    <3>3. Append(handled, e) = handled \o <<e>>
      BY <3>2, AppendIsConcat
    <3> QED
      BY <2>4, <3>1, <3>3
  <2> QED
    BY <2>6, <2>7
<1> QED
  BY <1>1, <1>4, <1>5, <1>7, <1>8 DEF p

\* A raw command in front of the buffer is recognised once all of it is there.
LEMMA RawInFront ==
  ASSUME buf \in Seq(Bytes), wire \in Seq(Bytes), buf # <<>>,
         handled \in Seq(Said),
         NEW c, IsRaw(c), c.bytes \in Seq(Bytes), c.says \in Seq(Said),
         NEW q \in Seq(Bytes), buf \o wire = c.bytes \o q
  PROVE  /\ buf[1] \in DOMAIN RawCommand
         /\ RawData[buf[1]] \in 0..1
         /\ 1 + RawData[buf[1]] = Len(c.bytes)
         /\ Len(buf) > RawData[buf[1]] =>
              Append(handled,
                     <<RawCommand[buf[1]], SubSeq(buf, 2, 1 + RawData[buf[1]])>>)
                = handled \o c.says
<1> DEFINE p == c.bytes
<1>1. /\ p # <<>> /\ p[1] \in DOMAIN RawCommand
      /\ RawData[p[1]] < 2 /\ Len(p) = 1 + RawData[p[1]]
      /\ c.says = << <<RawCommand[p[1]], Tail(p)>> >>
  BY DEF IsRaw
<1>2. p \in Seq(Bytes) /\ Len(p) \in Nat /\ Len(p) # 0
  BY <1>1
<1> HIDE DEF p
<1>3. /\ \A i \in 1..Len(buf) : i <= Len(p) => buf[i] = p[i]
      /\ Len(buf) >= Len(p) => SubSeq(buf, 1, Len(p)) = p
  BY <1>1, <1>2, FrontOfLine DEF p
<1>4. buf[1] = p[1]
  BY <1>2, <1>3
<1>5. RawData[p[1]] \in {0, 1, 8}
  BY <1>1 DEF RawData
<1>6. ASSUME Len(buf) > RawData[p[1]]
      PROVE  Append(handled, <<RawCommand[p[1]], SubSeq(buf, 2, Len(p))>>)
               = handled \o c.says
  <2>1. \A i \in 1..Len(p) : i \in 1..Len(buf) /\ buf[i] = p[i]
    BY <1>1, <1>2, <1>3, <1>5, <1>6
  <2>2. Tail(p) = SubSeq(p, 2, Len(p))
    BY <1>1, <1>2, TailIsSubSeq
  <2> DEFINE u == SubSeq(buf, 2, Len(p))
             v == SubSeq(p, 2, Len(p))
  <2>3. \A i \in 2..Len(p) : buf[i] \in Bytes /\ p[i] \in Bytes
    <3>1. \A i \in 2..Len(p) : i \in 1..Len(p)
      BY <1>2
    <3> QED
      BY <1>2, <2>1, <3>1
  <2>4. /\ u \in Seq(Bytes) /\ v \in Seq(Bytes) /\ Len(u) = Len(v)
        /\ Len(u) = IF 2 <= Len(p) THEN Len(p) - 2 + 1 ELSE 0
        /\ \A i \in 1..(Len(p) - 2 + 1) :
             u[i] = buf[2 + i - 1] /\ v[i] = p[2 + i - 1]
    BY <1>2, <2>3, SubSeqProperties
  <2>5. \A i \in 1..(Len(p) - 2 + 1) : 2 + i - 1 \in 1..Len(p)
    BY <1>2
  <2>6. \A i \in 1..Len(u) : u[i] = v[i]
    <3> HIDE DEF u, v
    <3>1. \A i \in 1..Len(u) : i \in 1..(Len(p) - 2 + 1)
      BY <1>2, <2>4
    <3>2. \A i \in 1..(Len(p) - 2 + 1) : buf[2 + i - 1] = p[2 + i - 1]
      BY <2>1, <2>5
    <3> QED
      BY <2>4, <3>1, <3>2
  <2>7. u = v
    <3> HIDE DEF u, v
    <3> QED
      BY <2>4, <2>6, SeqEqual
  <2> DEFINE e == <<RawCommand[p[1]], v>>
  <2>8. c.says = <<e>>
    BY <1>1, <2>2
  <2> HIDE DEF e
  <2>9. e \in Said
    BY <2>8
  <2>10. Append(handled, e) = handled \o <<e>>
    BY <2>9, AppendIsConcat
  <2> QED
    BY <2>7, <2>8, <2>10 DEF e
<1>7. RawData[p[1]] \in 0..1
  BY <1>1, <1>5
<1>8. 1 + RawData[buf[1]] = Len(p)
  BY <1>1, <1>4
<1> QED
  BY <1>1, <1>4, <1>6, <1>7, <1>8 DEF p

\* Bytes move from the line to the buffer, or nothing moves.
LEMMA NothingDone ==
  ASSUME NEW k, NEW done, NEW rest, NEW before, NEW left,
         InStepAt(k, done, rest, before, left),
         handled' = handled, script' = script, buf' \o wire' = buf \o wire,
         phase' # "framed"
           \/ (k < Len(script) /\ IsRaw(script[k + 1]) => Len(buf') < 2)
  PROVE  InStepAt(k, done, rest, before, left)'
<1>1. /\ BytesOf' = BytesOf /\ SaysOf' = SaysOf /\ Sent' = Sent
      /\ IsRaw(script[k + 1])' = IsRaw(script[k + 1])
  BY DEF BytesOf, SaysOf, Sent, IsRaw, RawCommand, RawData
<1> QED
  BY <1>1 DEF InStepAt

\* A turn of one of the two loops: nothing but whole chunks is consumed.
LEMMA ParseInStep ==
  ASSUME script \in Scripts, Undisturbed, buf \in Seq(Bytes),
         wire \in Seq(Bytes), Parse,
         NEW k, NEW done, NEW rest, NEW before, NEW left,
         InStepAt(k, done, rest, before, left)
  PROVE  \/ InStepAt(k, done, rest, before, left)'
         \/ InStepAt(k + 1, done, rest, before, left)'
<1> DEFINE c == script[k + 1]
<1>1. buf # <<>> =>
        /\ k \in Nat /\ k + 1 \in 1..Len(script)
        /\ c.bytes \in Seq(Bytes) /\ c.bytes # <<>> /\ c.says \in Seq(Said)
        /\ IsRaw(c) \/ IsFrame(c)
        /\ left[k + 1] \in Seq(Bytes)
        /\ buf \o wire = c.bytes \o left[k + 1]
        /\ handled \in Seq(Said)
  BY NextChunk
<1>2. script' = script /\ wire' = wire
  BY DEF Parse, HandleRaw, LeaveRaw, SkipToSof, WaitForMore, BadVersion,
         BadCrc, HandleFrame
<1> HIDE DEF c
<1>3. CASE HandleRaw
  <2>1. /\ buf # <<>> /\ buf[1] \in DOMAIN RawCommand
        /\ Len(buf) > RawData[buf[1]] /\ phase' # "framed"
        /\ buf' = SubSeq(buf, 1 + RawData[buf[1]] + 1, Len(buf))
        /\ handled' = Append(handled, <<RawCommand[buf[1]],
                                 SubSeq(buf, 2, 1 + RawData[buf[1]])>>)
    BY <1>3 DEF HandleRaw, AtRawCommand, Consumed
  <2>2. IsRaw(c)
    <3> SUFFICES ASSUME IsFrame(c) PROVE FALSE
      BY <1>1, <2>1
    <3>1. c.bytes[1] = 170
      BY DEF IsFrame, WellFormed, EP_SOF1
    <3>2. buf[1] = c.bytes[1]
      <4>1. \A i \in 1..Len(buf) : i <= Len(c.bytes) => buf[i] = c.bytes[i]
        BY <1>1, <2>1, FrontOfLine
      <4>2. Len(buf) >= 1 /\ Len(c.bytes) >= 1
        BY <1>1, <2>1
      <4> QED
        BY <4>1, <4>2
    <3>3. DOMAIN RawCommand = {10, 11, 32, 37, 38}
      BY DEF RawCommand
    <3> QED
      BY <2>1, <3>1, <3>2, <3>3
  <2>3. /\ RawData[buf[1]] \in 0..1
        /\ 1 + RawData[buf[1]] = Len(c.bytes)
        /\ handled' = handled \o c.says
    BY <1>1, <2>1, <2>2, RawInFront
  <2>4. Len(buf) >= Len(c.bytes)
    <3> DEFINE size == RawData[buf[1]]
    <3>1. size \in 0..1 /\ 1 + size = Len(c.bytes)
      BY <2>3
    <3>2. Len(buf) > size
      BY <2>1
    <3>3. Len(buf) \in Nat
      OBVIOUS
    <3> HIDE DEF size
    <3> QED
      BY <3>1, <3>2, <3>3
  <2>5. buf' = SubSeq(buf, Len(c.bytes) + 1, Len(buf))
    BY <2>1, <2>3
  <2> QED
    BY <1>2, <2>1, <2>3, <2>4, <2>5, ChunkDone DEF c
<1>4. CASE LeaveRaw
  <2>1. ~AtRawCommand /\ buf' = buf /\ handled' = handled
    BY <1>4 DEF LeaveRaw
  <2>2. IsRaw(c) => Len(buf) < 2
    <3>1. CASE buf = <<>>
      BY <3>1
    <3>2. CASE buf # <<>>
      <4>1. ASSUME IsRaw(c)
            PROVE  buf[1] \in DOMAIN RawCommand /\ RawData[buf[1]] \in 0..1
        BY <1>1, <3>2, <4>1, RawInFront
      <4>2. ASSUME IsRaw(c)  PROVE ~(Len(buf) > RawData[buf[1]])
        BY <2>1, <3>2, <4>1, <4>2 DEF AtRawCommand
      <4>3. Len(buf) \in Nat
        OBVIOUS
      <4> QED
        BY <4>1, <4>2, <4>3
    <3> QED
      BY <3>1, <3>2
  <2> QED
    BY <1>2, <2>1, <2>2, NothingDone DEF c
<1>5. CASE WaitForMore
  <2>1. phase' # "framed" /\ buf' = buf /\ handled' = handled
    BY <1>5 DEF WaitForMore
  <2> QED
    BY <1>2, <2>1, NothingDone
\* The others want eight bytes in the buffer: they belong to a frame.
<1>6. ASSUME phase = "framed", Len(buf) >= 8
      PROVE  /\ buf # <<>> /\ IsFrame(c)
             /\ FindSof = 0 /\ FrameLen = Len(c.bytes) /\ buf[3] = EP_VER
             /\ Len(buf) >= FrameLen => CrcOK /\ CarriedOut = handled \o c.says
  <2>1. buf # <<>> /\ Len(buf) \in Nat
    BY <1>6
  <2>2. ~IsRaw(c)
    <3>1. Len(script) \in Nat
      BY ScriptTypes
    <3>2. k < Len(script)
      BY <1>1, <2>1, <3>1
    <3> QED
      BY <1>6, <2>1, <3>2 DEF InStepAt, c
  <2> QED
    BY <1>1, <1>6, <2>1, <2>2, FrameInFront
<1>7. CASE SkipToSof
  <2>1. phase = "framed" /\ Len(buf) >= 8 /\ FindSof > 0
    BY <1>7 DEF SkipToSof
  <2> QED
    BY <1>6, <2>1
<1>8. CASE BadVersion
  BY <1>6, <1>8 DEF BadVersion, AtFrame, AtHeader
<1>9. CASE BadCrc
  BY <1>6, <1>9 DEF BadCrc, AtFrame, AtHeader
<1>10. CASE HandleFrame
  <2>1. /\ phase = "framed" /\ Len(buf) >= 8 /\ Len(buf) >= FrameLen
        /\ handled' = CarriedOut /\ buf' = SubSeq(buf, FrameLen + 1, Len(buf))
    BY <1>10 DEF HandleFrame, AtFrame, AtHeader, Consumed
  <2>2. /\ buf # <<>> /\ IsFrame(c) /\ FrameLen = Len(c.bytes)
        /\ CarriedOut = handled \o c.says
    BY <1>6, <2>1
  <2> QED
    BY <1>2, <2>1, <2>2, ChunkDone DEF c
<1> QED
  BY <1>3, <1>4, <1>5, <1>7, <1>8, <1>9, <1>10 DEF Parse

\* What read() moves stays where it was in the stream.
LEMMA ReadMoves ==
  ASSUME buf \in Seq(Bytes), wire \in Seq(Bytes), NEW m \in 1..Len(wire)
  PROVE  (buf \o SubSeq(wire, 1, m)) \o SubSeq(wire, m + 1, Len(wire))
           = buf \o wire
<1> DEFINE u == SubSeq(wire, 1, m)
           v == SubSeq(wire, m + 1, Len(wire))
<1>1. u \in Seq(Bytes) /\ v \in Seq(Bytes)
  BY CutsAreBytes
<1>2. u \o v = wire
  <2>1. /\ 1 \in 1..(Len(wire) + 1) /\ m \in 0..Len(wire)
        /\ Len(wire) \in m..Len(wire)
    OBVIOUS
  <2>2. u \o v = SubSeq(wire, 1, Len(wire))
    BY <2>1, ConcatAdjacentSubSeq
  <2>3. SubSeq(wire, 1, Len(wire)) = wire
    BY SubSeqFull
  <2> QED
    BY <2>2, <2>3
<1> HIDE DEF u, v
<1>3. (buf \o u) \o v = buf \o (u \o v)
  BY <1>1
<1> QED
  BY <1>2, <1>3 DEF u, v

LEMMA NextInStep ==
  ASSUME InStep, TypeOK, NeverDropped, [Next]_vars  PROVE InStep'
<1>1. script' = script /\ script \in Scripts
  BY DEF InStep, Next, ReadSome, ReadNothing, Parse, HandleRaw, LeaveRaw,
         SkipToSof, WaitForMore, BadVersion, BadCrc, HandleFrame, WriteState,
         WriteFails, Reopen, StayClosed, vars
<1> SUFFICES ASSUME Undisturbed'
             PROVE  /\ opened'
                    /\ \E k, done, rest, before, left :
                         InStepAt(k, done, rest, before, left)'
  BY <1>1 DEF InStep
<1>2. Undisturbed /\ ~WriteFails
  <2>1. failures' \in {failures, failures + 1} /\ (WriteFails => failures' # 0)
    BY DEF Next, ReadSome, ReadNothing, Parse, HandleRaw, LeaveRaw,
           SkipToSof, WaitForMore, BadVersion, BadCrc, HandleFrame, WriteState,
           WriteFails, Reopen, StayClosed, vars, portVars, TypeOK
  <2>2. failures \in Nat
    BY DEF TypeOK
  <2> QED
    BY <1>1, <2>1, <2>2 DEF Undisturbed
<1>3. PICK k, done, rest, before, left : InStepAt(k, done, rest, before, left)
  BY <1>2 DEF InStep
<1>4. opened
  BY <1>2 DEF InStep
<1>5. buf \in Seq(Bytes) /\ wire \in Seq(Bytes)
  BY DEF TypeOK
<1>6. CASE ReadSome
  <2>1. Kept = buf
    BY <1>6 DEF ReadSome, NeverDropped
  <2>2. PICK m \in 1..Len(wire) : /\ buf' = Kept \o SubSeq(wire, 1, m)
                                  /\ wire' = SubSeq(wire, m + 1, Len(wire))
    BY <1>6 DEF ReadSome
  <2>3. /\ phase' # "framed" /\ handled' = handled /\ opened' = opened
    BY <1>6 DEF ReadSome, portVars
  <2>4. buf' \o wire' = buf \o wire
    BY <1>5, <2>1, <2>2, ReadMoves
  <2> QED
    BY <1>1, <1>3, <1>4, <2>3, <2>4, NothingDone
<1>7. CASE ReadNothing
  <2>1. Kept = buf
    BY <1>7 DEF ReadNothing, NeverDropped
  <2>2. /\ buf' = buf /\ wire' = wire /\ phase' # "framed"
        /\ handled' = handled /\ opened' = opened
    BY <1>7, <2>1 DEF ReadNothing, portVars
  <2> QED
    BY <1>1, <1>3, <1>4, <2>2, NothingDone
<1>8. CASE Parse
  <2>1. opened' = opened
    BY <1>8 DEF Parse, HandleRaw, LeaveRaw, SkipToSof, WaitForMore,
                BadVersion, BadCrc, HandleFrame, portVars
  <2> QED
    BY <1>1, <1>2, <1>3, <1>4, <1>5, <1>8, <2>1, ParseInStep
<1>9. CASE WriteState
  <2>1. /\ buf' = buf /\ wire' = wire /\ phase' # "framed"
        /\ handled' = handled /\ opened' = opened
    BY <1>9 DEF WriteState, portVars
  <2> QED
    BY <1>1, <1>3, <1>4, <2>1, NothingDone
<1>10. CASE Reopen \/ StayClosed
  BY <1>4, <1>10 DEF Reopen, StayClosed
<1>11. CASE UNCHANGED vars
  <2>1. /\ buf' = buf /\ wire' = wire /\ phase' = phase
        /\ handled' = handled /\ opened' = opened
    BY <1>11 DEF vars, portVars
  <2>2. phase' # "framed"
          \/ (k < Len(script) /\ IsRaw(script[k + 1]) => Len(buf') < 2)
    BY <1>3, <2>1 DEF InStepAt
  <2> QED
    BY <1>1, <1>3, <1>4, <2>1, <2>2, NothingDone
<1> QED
  BY <1>2, <1>6, <1>7, <1>8, <1>9, <1>10, <1>11 DEF Next

\* What the first chunks say is a prefix of what all of them say.
LEMMA InStepIsInOrder ==
  ASSUME InStep  PROVE HandledInOrder
<1> SUFFICES ASSUME Undisturbed PROVE IsPrefix(handled, Sent)
  BY DEF HandledInOrder
<1>1. PICK k, done, rest, before, left : InStepAt(k, done, rest, before, left)
  BY DEF InStep
<1> DEFINE tail == rest[k]
<1>2. handled \in Seq(Said) /\ tail \in Seq(Said)
  BY <1>1 DEF InStepAt, IsSplit
<1>6. handled \o tail = Sent
  BY <1>1 DEF InStepAt, IsSplit
<1> HIDE DEF tail
<1>3. Sent \in Seq(Said) /\ Len(handled) <= Len(Sent)
  <2>1. /\ handled \o tail \in Seq(Said)
        /\ Len(handled \o tail) = Len(handled) + Len(tail)
        /\ Len(handled) \in Nat /\ Len(tail) \in Nat
    BY <1>2
  <2>2. Len(handled) <= Len(handled \o tail)
    BY <2>1
  <2> QED
    BY <1>6, <2>1, <2>2
<1>4. SubSeq(Sent, 1, Len(handled)) = handled
  <2>1. CASE handled = <<>>
    BY <1>3, <2>1
  <2>2. CASE handled # <<>>
    <3>1. Sent \o <<>> = handled \o tail
      BY <1>6, <1>3
    <3>2. <<>> \in Seq(Said) /\ Len(Sent) >= Len(handled)
      BY <1>3, <1>2
    <3> QED
      BY <1>2, <1>3, <2>2, <3>1, <3>2, FrontOfLine
  <2> QED
    BY <2>1, <2>2
<1>5. SubSeq(handled, 1, Len(handled)) = handled
  BY <1>2, SubSeqFull
<1> QED
  BY <1>3, <1>4, <1>5 DEF IsPrefix

LEMMA AlwaysInStep == Spec => []InStep
<1>1. InStep /\ TypeOK /\ NeverDropped /\ [Next]_vars => InStep'
  BY NextInStep
<1> QED
  BY <1>1, InStepAtFirst, TypeCorrect, NothingIsDropped, PTL DEF Spec

\* On a line that loses and damages nothing, readSerialCommands carries out
\* what was sent, in that order and without skipping a frame: for every script
\* and every length of payload, however read() cuts the stream.
THEOREM CarriedOutInOrder == Spec => []HandledInOrder
<1>1. InStep => HandledInOrder
  BY InStepIsInOrder
<1> QED
  BY <1>1, AlwaysInStep, PTL

\* What was carried out then is matched with the first commands sent.
LEMMA InStepInventsNothing ==
  ASSUME InStep, Undisturbed  PROVE NothingInvented
<1>1. PICK k, done, rest, before, left : InStepAt(k, done, rest, before, left)
  BY DEF InStep
<1> DEFINE tail == rest[k]
<1>2. handled \in Seq(Said) /\ tail \in Seq(Said) /\ handled \o tail = Sent
  BY <1>1 DEF InStepAt, IsSplit
<1> HIDE DEF tail
<1>3. DOMAIN handled \subseteq DOMAIN Sent
  <2>1. /\ DOMAIN handled = 1..Len(handled) /\ Len(handled) \in Nat
        /\ DOMAIN (handled \o tail) = 1..(Len(handled) + Len(tail))
        /\ Len(tail) \in Nat
    BY <1>2
  <2> QED
    BY <1>2, <2>1
<1>4. ASSUME NEW i \in DOMAIN handled  PROVE handled[i] = Sent[i]
  <2>1. (handled \o tail)[i] = handled[i]
    BY <1>2
  <2> QED
    BY <1>2, <2>1
<1> DEFINE f == [i \in DOMAIN handled |-> i]
<1>5. f \in [DOMAIN handled -> DOMAIN Sent]
  BY <1>3
<1>6. /\ \A i, j \in DOMAIN handled : i < j => f[i] < f[j]
      /\ \A i \in DOMAIN handled : handled[i] = Sent[f[i]]
  BY <1>4
<1> HIDE DEF f
<1> QED
  BY <1>5, <1>6 DEF NothingInvented

\* On such a line nothing is carried out that was not sent.
THEOREM NothingInventedUndisturbed ==
  Spec => [](Undisturbed => NothingInvented)
<1>1. InStep => (Undisturbed => NothingInvented)
  BY InStepInventsNothing
<1> QED
  BY <1>1, AlwaysInStep, PTL

-----------------------------------------------------------------------------
\* The streams that can arrive, gap by gap: that there is such a function is
\* shown by induction over the number of gaps.
ByGaps(after, n, m) ==
  after = [k \in 0..m |-> IF k = 0 THEN {[i \in 1..n |-> i]}
                          ELSE UNION {WithGap(p) : p \in after[k - 1]}]

LEMMA ByGapsExists ==
  ASSUME NEW n, NEW m \in Nat
  PROVE  \E after : ByGaps(after, n, m)
<1> DEFINE bad == {k \in Nat : ~\E after : ByGaps(after, n, k)}
<1> SUFFICES ASSUME bad # {} PROVE FALSE
  OBVIOUS
<1>1. PICK k \in bad : \A j \in bad : k <= j
  <2>1. bad \subseteq Nat
    OBVIOUS
  <2> HIDE DEF bad
  <2> QED
    BY <2>1, LeastNatural
<1>2. k # 0
  <2>1. ByGaps([j \in 0..0 |-> {[i \in 1..n |-> i]}], n, 0)
    BY DEF ByGaps
  <2> QED
    BY <1>1, <2>1
<1>3. k \in Nat /\ k - 1 \in Nat /\ k - 1 \notin bad
  BY <1>1, <1>2
<1>4. PICK after : ByGaps(after, n, k - 1)
  BY <1>3
<1> DEFINE Step(S) == UNION {WithGap(p) : p \in S}
           first   == {[i \in 1..n |-> i]}
           longer  == [j \in 0..k |-> IF j < k THEN after[j]
                                      ELSE Step(after[j - 1])]
<1>5. \A j \in 0..(k - 1) :
        after[j] = IF j = 0 THEN first ELSE Step(after[j - 1])
  <2>1. after = [j \in 0..(k - 1) |-> IF j = 0 THEN first ELSE Step(after[j - 1])]
    BY <1>4 DEF ByGaps
  <2> HIDE DEF first, Step
  <2> QED
    BY <2>1
<1> HIDE DEF first, Step
<1>6. ASSUME NEW j \in 0..k
      PROVE  longer[j] = IF j = 0 THEN first ELSE Step(longer[j - 1])
  <2>1. CASE j = 0
    BY <1>3, <1>5, <1>2, <2>1
  <2>2. CASE j # 0
    <3>1. j - 1 \in 0..k /\ j - 1 < k /\ longer[j - 1] = after[j - 1]
      BY <1>3, <2>2
    <3>2. CASE j < k
      <4>1. j \in 0..(k - 1)
        BY <1>3, <3>2
      <4> QED
        BY <1>5, <2>2, <3>1, <3>2, <4>1
    <3>3. CASE ~(j < k)
      BY <2>2, <3>1, <3>3
    <3> QED
      BY <3>2, <3>3
  <2> QED
    BY <2>1, <2>2
<1>7. ByGaps(longer, n, k)
  <2>1. longer = [j \in 0..k |-> longer[j]]
    OBVIOUS
  <2> HIDE DEF longer
  <2> QED
    BY <1>6, <2>1 DEF ByGaps, first, Step
<1> QED
  BY <1>1, <1>7

LEMMA ArrivingByGaps ==
  ASSUME NEW n
  PROVE  /\ Arriving(n)[0] = {[i \in 1..n |-> i]}
         /\ \A k \in 1..MaxFailures :
              Arriving(n)[k] = UNION {WithGap(p) : p \in Arriving(n)[k - 1]}
<1> DEFINE after == CHOOSE after : ByGaps(after, n, MaxFailures)
           Step(S) == UNION {WithGap(p) : p \in S}
           first   == {[i \in 1..n |-> i]}
<1>1. MaxFailures \in Nat
  BY ParserAssumption
<1>2. ByGaps(after, n, MaxFailures)
  BY <1>1, ByGapsExists
<1>3. Arriving(n) = after
  BY DEF Arriving, ByGaps
<1>4. after = [k \in 0..MaxFailures |-> IF k = 0 THEN first ELSE Step(after[k - 1])]
  BY <1>2 DEF ByGaps
<1> HIDE DEF after, first, Step
<1>5. after[0] = first /\ \A k \in 1..MaxFailures : after[k] = Step(after[k - 1])
  BY <1>1, <1>4
<1> QED
  BY <1>3, <1>5 DEF first, Step

Increasing(p) == \A i, j \in 1..Len(p) : i < j => p[i] < p[j]

\* A stream with one more gap.
LEMMA GapKeepsOrder ==
  ASSUME NEW n \in Nat, NEW p \in Seq(1..n), Increasing(p),
         NEW a \in 0..Len(p), NEW m \in 0..(Len(p) - a)
  PROVE  \E q \in WithGap(p) :
           /\ q \in Seq(1..n) /\ Len(q) = Len(p) - m /\ Increasing(q)
           /\ \A i \in 1..Len(q) : q[i] = IF i <= a THEN p[i] ELSE p[i + m]
<1> DEFINE u == SubSeq(p, 1, a)
           v == SubSeq(p, a + m + 1, Len(p))
           q == u \o v
<1>1. Len(p) \in Nat /\ a \in Nat /\ m \in Nat /\ a + m <= Len(p) /\ a <= Len(p)
  OBVIOUS
<1>2. u \in Seq(1..n) /\ Len(u) = a /\ \A i \in 1..a : u[i] = p[i]
  BY <1>1
<1>3. /\ v \in Seq(1..n) /\ Len(v) = Len(p) - (a + m)
      /\ \A i \in 1..(Len(p) - (a + m)) : v[i] = p[a + m + i]
  BY <1>1
<1> HIDE DEF u, v
<1>4. /\ q \in Seq(1..n) /\ Len(q) = Len(u) + Len(v)
      /\ \A i \in 1..Len(q) : q[i] = IF i <= Len(u) THEN u[i] ELSE v[i - Len(u)]
  BY <1>2, <1>3
<1>5. Len(q) = Len(p) - m
  BY <1>1, <1>2, <1>3, <1>4
<1>6. ASSUME NEW i \in 1..Len(q)  PROVE q[i] = IF i <= a THEN p[i] ELSE p[i + m]
  <2>1. CASE i <= a
    BY <1>2, <1>4, <2>1
  <2>2. CASE ~(i <= a)
    <3>1. i - a \in 1..(Len(p) - (a + m)) /\ a + m + (i - a) = i + m
      BY <1>1, <1>5, <2>2
    <3>2. q[i] = v[i - a]
      BY <1>2, <1>4, <2>2
    <3>3. v[i - a] = p[a + m + (i - a)]
      BY <1>3, <3>1
    <3> QED
      BY <2>2, <3>1, <3>2, <3>3
  <2> QED
    BY <2>1, <2>2
<1>7. Increasing(q)
  <2> SUFFICES ASSUME NEW i \in 1..Len(q), NEW j \in 1..Len(q), i < j
               PROVE  q[i] < q[j]
    BY DEF Increasing
  <2> DEFINE old(k) == IF k <= a THEN k ELSE k + m
  <2>1. old(i) \in 1..Len(p) /\ old(j) \in 1..Len(p) /\ old(i) < old(j)
    BY <1>1, <1>5
  <2>2. q[i] = p[old(i)] /\ q[j] = p[old(j)]
    BY <1>6
  <2> HIDE DEF old
  <2> QED
    BY <2>1, <2>2 DEF Increasing
<1>8. q \in WithGap(p)
  <2>1. a \in 0..Len(p) /\ m \in 0..Len(p)
    BY <1>1
  <2>2. q = SubSeq(p, 1, a) \o SubSeq(p, a + m + 1, Len(p))
    BY DEF u, v
  <2> HIDE DEF q
  <2> DEFINE Gaps(x) == {SubSeq(p, 1, x) \o SubSeq(p, x + y + 1, Len(p)) :
                           y \in 0..Len(p)}
  <2>3. q \in Gaps(a)
    BY <2>1, <2>2
  <2>4. WithGap(p) = UNION {Gaps(x) : x \in 0..Len(p)}
    BY DEF WithGap
  <2> HIDE DEF Gaps
  <2> QED
    BY <2>1, <2>3, <2>4
<1> HIDE DEF q
<1> QED
  BY <1>4, <1>5, <1>6, <1>7, <1>8

-----------------------------------------------------------------------------
\* Later parts end later.
LEMMA SplitIsMonotone ==
  ASSUME NEW S, NEW n \in Nat, NEW parts \in [1..n -> Seq(S)],
         NEW before, NEW after, IsSplit(before, after, parts, n, S)
  PROVE  /\ \A i \in 1..n : Len(before[i]) = Len(before[i - 1]) + Len(parts[i])
         /\ \A i, j \in 0..n : i <= j => Len(before[i]) <= Len(before[j])
<1>1. \A i \in 0..n : before[i] \in Seq(S) /\ Len(before[i]) \in Nat
  BY DEF IsSplit
<1>2. ASSUME NEW i \in 1..n
      PROVE  /\ Len(before[i]) = Len(before[i - 1]) + Len(parts[i])
             /\ Len(parts[i]) \in Nat
  <2>1. before[i - 1] \in Seq(S) /\ parts[i] \in Seq(S)
    BY <1>1
  <2>2. before[i] = before[i - 1] \o parts[i]
    BY DEF IsSplit
  <2> QED
    BY <2>1, <2>2
<1> DEFINE bad == {j \in 0..n : \E i \in 0..j : ~(Len(before[i]) <= Len(before[j]))}
<1>3. bad = {}
  <2> SUFFICES ASSUME bad # {} PROVE FALSE
    OBVIOUS
  <2>1. PICK j \in bad : \A k \in bad : j <= k
    <3>1. bad \subseteq Nat
      OBVIOUS
    <3> HIDE DEF bad
    <3> QED
      BY <3>1, LeastNatural
  <2>2. PICK i \in 0..j : ~(Len(before[i]) <= Len(before[j]))
    OBVIOUS
  <2>3. j \in 0..n /\ i \in 0..n /\ i # j
    BY <1>1, <2>2
  <2>4. j \in 1..n /\ i \in 0..(j - 1) /\ j - 1 \in 0..n /\ j - 1 \notin bad
    BY <2>1, <2>2, <2>3
  <2>5. Len(before[i]) <= Len(before[j - 1])
    BY <2>4
  <2>6. Len(before[j - 1]) <= Len(before[j])
    BY <1>1, <1>2, <2>4
  <2> QED
    BY <1>1, <2>2, <2>3, <2>4, <2>5, <2>6
<1>4. ASSUME NEW i \in 0..n, NEW j \in 0..n, i <= j
      PROVE  Len(before[i]) <= Len(before[j])
  <2>1. j \notin bad
    <3> HIDE DEF bad
    <3> QED
      BY <1>3
  <2>2. i \in 0..j
    BY <1>4
  <2> QED
    BY <2>1, <2>2
<1> HIDE DEF bad
<1> QED
  BY <1>2, <1>4

\* The first parts together are what comes before the next.
LEMMA FrontIsBefore ==
  ASSUME NEW S, NEW parts \in Seq(Seq(S)), NEW before, NEW after,
         IsSplit(before, after, parts, Len(parts), S), NEW j \in 0..Len(parts)
  PROVE  FlattenSeq(SubSeq(parts, 1, j)) = before[j]
<1> DEFINE front == SubSeq(parts, 1, j)
<1>1. /\ front \in Seq(Seq(S)) /\ Len(front) = j /\ j \in Nat
      /\ \A i \in 1..j : front[i] = parts[i]
  OBVIOUS
<1> HIDE DEF front
<1>2. PICK b, a : IsSplit(b, a, front, j, S) /\ b[j] = FlattenSeq(front)
  BY <1>1, FlattenSplits
<1> DEFINE bad == {i \in 0..j : b[i] # before[i]}
<1>3. bad = {}
  <2> SUFFICES ASSUME bad # {} PROVE FALSE
    OBVIOUS
  <2>1. PICK i \in bad : \A k \in bad : i <= k
    <3>1. bad \subseteq Nat
      OBVIOUS
    <3> HIDE DEF bad
    <3> QED
      BY <3>1, LeastNatural
  <2>2. i # 0
    BY <1>2 DEF IsSplit
  <2>3. i \in 1..j /\ i \in 1..Len(parts) /\ i - 1 \in 0..j /\ i - 1 \notin bad
    BY <1>1, <2>1, <2>2
  <2>4. b[i] = b[i - 1] \o front[i] /\ before[i] = before[i - 1] \o parts[i]
    BY <1>2, <2>3 DEF IsSplit
  <2> QED
    BY <1>1, <2>3, <2>4
<1> QED
  BY <1>2, <1>3 DEF front

\* Where the chunks of the script stand.
LEMMA ChunksStand ==
  ASSUME script \in Scripts
  PROVE  \E before, left :
           /\ IsSplit(before, left, BytesOf, Len(script), Bytes)
           /\ before[Len(script)] = Line(script)
           /\ \A j \in 1..Len(script) : Before(script, j) = Len(before[j - 1])
<1>1. PICK before, left : /\ IsSplit(before, left, BytesOf, Len(script), Bytes)
                          /\ before[Len(script)] = FlattenSeq(BytesOf)
  BY ScriptTypes, FlattenSplits
<1>2. Line(script) = FlattenSeq(BytesOf)
  BY DEF Line, BytesOf
<1>0. /\ Len(script) \in Nat
      /\ \A i \in 1..Len(script) : BytesOf[i] = script[i].bytes
  BY ScriptTypes
<1>3. ASSUME NEW j \in 1..Len(script)
      PROVE  Before(script, j) = Len(before[j - 1])
  <2> DEFINE front == SubSeq(script, 1, j - 1)
  <2>1. Len(script) \in Nat /\ script \in Seq(Chunks)
    BY ScriptTypes, ScriptAssumption
  <2>2. /\ DOMAIN front = 1..(j - 1) /\ j - 1 \in 0..Len(script)
        /\ \A i \in 1..(j - 1) : front[i] = script[i]
    BY <2>1
  <2>3. BytesOf \in Seq(Seq(Bytes)) /\ Len(BytesOf) = Len(script)
    BY ScriptTypes
  <2> DEFINE parts == [i \in 1..(j - 1) |-> script[i].bytes]
  <2>4. parts = SubSeq(BytesOf, 1, j - 1)
    <3>1. \A i \in 1..(j - 1) : BytesOf[i] = script[i].bytes
      BY <1>0
    <3>2. SubSeq(BytesOf, 1, j - 1) = [i \in 1..(j - 1) |-> BytesOf[i]]
      BY <2>2, <2>3
    <3> QED
      BY <3>1, <3>2
  <2>5. Line(front) = FlattenSeq(parts)
    <3>1. [i \in DOMAIN front |-> front[i].bytes] = parts
      BY <2>2
    <3> HIDE DEF front, parts
    <3> QED
      BY <3>1 DEF Line
  <2>6. FlattenSeq(SubSeq(BytesOf, 1, j - 1)) = before[j - 1]
    BY <1>1, <2>2, <2>3, FrontIsBefore
  <2> QED
    BY <2>4, <2>5, <2>6 DEF Before
<1> QED
  BY <1>1, <1>2, <1>3

LEMMA ChunksInOrder ==
  ASSUME script \in Scripts
  PROVE  /\ \A i \in DOMAIN script : Before(script, i) \in Nat
         /\ \A i, j \in DOMAIN script :
              i <= j => Before(script, i) + Len(script[i].bytes)
                          <= Before(script, j) + Len(script[j].bytes)
<1>1. PICK before, left :
        /\ IsSplit(before, left, BytesOf, Len(script), Bytes)
        /\ \A j \in 1..Len(script) : Before(script, j) = Len(before[j - 1])
  BY ChunksStand
<1>0. /\ Len(script) \in Nat /\ DOMAIN script = 1..Len(script)
      /\ BytesOf \in Seq(Seq(Bytes)) /\ Len(BytesOf) = Len(script)
      /\ \A i \in 1..Len(script) : BytesOf[i] = script[i].bytes
  BY ScriptTypes
<1>2. BytesOf \in [1..Len(script) -> Seq(Bytes)]
  BY <1>0
<1>3. /\ \A i \in 1..Len(script) :
           Len(before[i]) = Len(before[i - 1]) + Len(BytesOf[i])
      /\ \A i, j \in 0..Len(script) : i <= j => Len(before[i]) <= Len(before[j])
  BY <1>0, <1>1, <1>2, SplitIsMonotone
<1>4. \A i \in 0..Len(script) : Len(before[i]) \in Nat
  BY <1>0, <1>1 DEF IsSplit
<1>5. \A i \in DOMAIN script :
        /\ Before(script, i) = Len(before[i - 1]) /\ i - 1 \in 0..Len(script)
        /\ Len(before[i]) = Len(before[i - 1]) + Len(script[i].bytes)
        /\ i \in 0..Len(script)
  <2> TAKE i \in DOMAIN script
  <2>1. i \in 1..Len(script) /\ i - 1 \in 0..Len(script) /\ i \in 0..Len(script)
    BY <1>0
  <2>2. BytesOf[i] = script[i].bytes
    BY <1>0, <2>1
  <2>3. Before(script, i) = Len(before[i - 1])
    BY <1>1, <2>1
  <2>4. Len(before[i]) = Len(before[i - 1]) + Len(BytesOf[i])
    BY <1>3, <2>1
  <2> QED
    BY <2>1, <2>2, <2>3, <2>4
<1> QED
  BY <1>3, <1>4, <1>5

\* Every byte on the line is a byte of a chunk.
LEMMA BytesOfChunks ==
  ASSUME script \in Scripts
  PROVE  \A q \in 1..Len(Line(script)) :
           \E j \in DOMAIN script : Line(script)[q] \in Range(script[j].bytes)
<1> DEFINE n == Len(script)
           Known(x) == \E j \in DOMAIN script : x \in Range(script[j].bytes)
<1>0. /\ n \in Nat /\ DOMAIN script = 1..n
      /\ \A i \in 1..n : /\ BytesOf[i] = script[i].bytes
                         /\ script[i].bytes \in Seq(Bytes)
  BY ScriptTypes
<1>1. PICK before, left : /\ IsSplit(before, left, BytesOf, n, Bytes)
                          /\ before[n] = Line(script)
  BY ChunksStand
<1> HIDE DEF n
<1>2. ASSUME NEW i \in 1..n, NEW x \in Range(BytesOf[i])  PROVE Known(x)
  BY <1>0, <1>2
<1> HIDE DEF Known
<1> DEFINE bad == {j \in 0..n : \E q \in 1..Len(before[j]) : ~Known(before[j][q])}
<1>3. bad = {}
  <2> SUFFICES ASSUME bad # {} PROVE FALSE
    OBVIOUS
  <2>1. PICK j \in bad : \A k \in bad : j <= k
    <3>1. bad \subseteq Nat
      OBVIOUS
    <3> HIDE DEF bad
    <3> QED
      BY <3>1, LeastNatural
  <2>2. PICK q \in 1..Len(before[j]) : ~Known(before[j][q])
    OBVIOUS
  <2>3. j # 0
    <3>1. before[0] = <<>>
      BY <1>1 DEF IsSplit
    <3> QED
      BY <2>2, <3>1
  <2>4. j \in 1..n /\ j - 1 \in 0..n /\ ~(j <= j - 1)
    BY <1>0, <2>3
  <2>5. j - 1 \notin bad
    <3> HIDE DEF bad
    <3> QED
      BY <2>1, <2>4
  <2> DEFINE u == before[j - 1]
             v == BytesOf[j]
  <2>6. u \in Seq(Bytes) /\ v \in Seq(Bytes) /\ before[j] = u \o v
    BY <1>0, <1>1, <2>4 DEF IsSplit
  <2>7. \A m \in 1..Len(u) : Known(u[m])
    BY <2>4, <2>5
  <2>8. \A m \in 1..Len(v) : v[m] \in Range(v)
    BY <2>6 DEF Range
  <2>9. \A x \in Range(v) : Known(x)
    BY <1>2, <2>4
  <2> HIDE DEF u, v
  <2>10. CASE q <= Len(u)
    <3>1. q \in 1..Len(u) /\ before[j][q] = u[q]
      BY <2>2, <2>6, <2>10
    <3> QED
      BY <2>2, <2>7, <3>1
  <2>11. CASE ~(q <= Len(u))
    <3>1. q - Len(u) \in 1..Len(v) /\ before[j][q] = v[q - Len(u)]
      BY <2>2, <2>6, <2>11
    <3> QED
      BY <2>2, <2>8, <2>9, <3>1
  <2> QED
    BY <2>10, <2>11
<1>4. n \in 0..n /\ n \notin bad
  <2> HIDE DEF bad
  <2> QED
    BY <1>0, <1>3
<1>5. \A q \in 1..Len(before[n]) : Known(before[n][q])
  BY <1>4
<1> QED
  BY <1>1, <1>5 DEF Known

\* A header that find_sof finds at the front is one.
LEMMA FrontIsHeader ==
  ASSUME buf \in Seq(Bytes), Len(buf) >= 8, FindSof = 0  PROVE SofAt(1)
<1> DEFINE at == {i \in 1..(Len(buf) - 1) : SofAt(i)}
           first == CHOOSE i \in at : \A j \in at : i <= j
<1>1. FindSof = IF at = {} THEN Len(buf) ELSE first - 1
  BY DEF FindSof
<1>2. at \subseteq Nat
  OBVIOUS
<1>3. at # {} => first \in at
  <2> HIDE DEF at
  <2>1. at # {} => \E i \in at : \A j \in at : i <= j
    BY <1>2, LeastNatural
  <2> QED
    BY <2>1
<1>4. 1 \in at
  <2> HIDE DEF at, first
  <2>1. Len(buf) \in Nat /\ Len(buf) # 0
    OBVIOUS
  <2>2. first \in at /\ first \in Nat /\ first - 1 = 0
    BY <1>1, <1>2, <1>3, <2>1
  <2>3. first = 1
    BY <2>2
  <2> QED
    BY <2>2, <2>3
<1> QED
  BY <1>4

\* A frame that the parser takes is one, and it does what the frame says.
LEMMA FrameTaken ==
  ASSUME buf \in Seq(Bytes), AtFrame, buf[3] = EP_VER, CrcOK
  PROVE  LET frame == SubSeq(buf, 1, FrameLen)
         IN /\ FrameLen \in 8..Len(buf) /\ FrameLen = 8 + buf[6]
            /\ frame \in Seq(Bytes) /\ Len(frame) = FrameLen
            /\ WellFormed(frame)
            /\ \/ SaidBy(frame) = <<>> /\ CarriedOut = handled
               \/ \E c : SaidBy(frame) = <<c>> /\ CarriedOut = Append(handled, c)
<1> DEFINE end == FrameLen
           frame == SubSeq(buf, 1, end)
<1>1. Len(buf) >= 8 /\ FindSof = 0
  BY DEF AtFrame, AtHeader
<1>2. end \in 8..263
  BY <1>1, FrameLenBounds
<1>3. Len(buf) >= end
  BY DEF AtFrame
<1>4. end = 8 + buf[6]
  <2>1. buf[6] \in Bytes
    BY <1>1
  <2>2. PICK v \in 0..255 : v = buf[6]
    BY <2>1 DEF Bytes
  <2>3. 6 + v + 2 = 8 + v
    OBVIOUS
  <2> QED
    BY <2>2, <2>3 DEF FrameLen
<1>5. SofAt(1)
  BY <1>1, FrontIsHeader
<1>6. Crc(SubSeq(buf, 3, end - 2)) = buf[end - 1] + 256 * buf[end]
  BY DEF CrcOK
<1>7. CarriedOut = IF FramedCommand(buf[4], buf[6]) = "UNKNOWN" THEN handled
                   ELSE Append(handled, <<FramedCommand(buf[4], buf[6]),
                                          SubSeq(buf, 7, end - 2)>>)
  BY DEF CarriedOut
<1> HIDE DEF end
<1>8. end \in Nat /\ end >= 8 /\ end \in 8..Len(buf) /\ 1 \in 1..Len(buf)
  BY <1>2, <1>3
<1>9. /\ frame \in Seq(Bytes) /\ Len(frame) = end
      /\ \A i \in 1..end : frame[i] = buf[i]
  BY <1>8
<1>10. ASSUME NEW m \in 1..7, m <= end - 1
       PROVE  SubSeq(frame, m, end - 2) = SubSeq(buf, m, end - 2)
  <2>1. /\ 1 \in 1..Len(buf) /\ end \in 0..Len(buf)
        /\ m \in 1..(1 + end - 1) /\ end - 2 \in (m - 1)..(1 + end - 1)
    BY <1>8, <1>10
  <2>2. 1 + m - 1 = m /\ 1 + (end - 2) - 1 = end - 2
    BY <1>8
  <2>3. SubSeq(frame, m, end - 2) = SubSeq(buf, 1 + m - 1, 1 + (end - 2) - 1)
    BY <2>1, SubSeqOfSubSeq
  <2> QED
    BY <2>2, <2>3
<1> HIDE DEF frame
<1>11. SubSeq(frame, 3, end - 2) = SubSeq(buf, 3, end - 2)
  BY <1>8, <1>10
<1>12. SubSeq(frame, 7, end - 2) = SubSeq(buf, 7, end - 2)
  BY <1>8, <1>10
<1>13. /\ frame[1] = buf[1] /\ frame[2] = buf[2] /\ frame[3] = buf[3]
       /\ frame[4] = buf[4] /\ frame[6] = buf[6]
       /\ frame[end - 1] = buf[end - 1] /\ frame[end] = buf[end]
  <2>1. /\ 1 \in 1..end /\ 2 \in 1..end /\ 3 \in 1..end /\ 4 \in 1..end
        /\ 6 \in 1..end /\ end - 1 \in 1..end /\ end \in 1..end
    BY <1>8
  <2> QED
    BY <1>9, <2>1
<1>14. buf[1] = EP_SOF1 /\ buf[2] = EP_SOF2
  BY <1>5 DEF SofAt
<1>15. WellFormed(frame)
  BY <1>4, <1>6, <1>8, <1>9, <1>11, <1>13, <1>14 DEF WellFormed
<1> DEFINE name == FramedCommand(buf[4], buf[6])
           data == SubSeq(buf, 7, end - 2)
           c    == <<name, data>>
<1>16. SaidBy(frame) = IF name = "UNKNOWN" THEN <<>> ELSE <<c>>
  BY <1>9, <1>12, <1>13 DEF SaidBy
<1>17. CarriedOut = IF name = "UNKNOWN" THEN handled ELSE Append(handled, c)
  BY <1>7
<1> HIDE DEF name, c
<1>18. \/ SaidBy(frame) = <<>> /\ CarriedOut = handled
       \/ SaidBy(frame) = <<c>> /\ CarriedOut = Append(handled, c)
  BY <1>16, <1>17
<1> QED
  BY <1>4, <1>8, <1>9, <1>15, <1>18 DEF end, frame

-----------------------------------------------------------------------------
\* Buffer and line are what is left, behind its first at bytes, of a stream
\* that can arrive of the script: p has the positions of its bytes.
Arrives(p, at) ==
  /\ p \in Seq(1..Len(Line(script))) /\ Increasing(p)
  /\ at \in 0..Len(p)
  /\ Len(buf \o wire) = Len(p) - at
  /\ \A m \in 1..(Len(p) - at) : (buf \o wire)[m] = Line(script)[p[at + m]]

\* Each command carried out is what a chunk says that lies before what is
\* left; e has these chunks.
CameFrom(e, p, at) ==
  /\ e \in [DOMAIN handled -> DOMAIN script]
  /\ \A i, j \in DOMAIN handled : i < j => e[i] < e[j]
  /\ \A i \in DOMAIN handled :
       /\ script[e[i]].says = <<handled[i]>>
       /\ \A m \in (at + 1)..Len(p) :
            p[m] > Before(script, e[i]) + Len(script[e[i]].bytes)

\* A gap for each failure at most, and one less as long as the port is closed.
GenuineAt(g, p, at, e) ==
  /\ g \in 0..failures /\ (opened \/ g < failures)
  /\ p \in Arriving(Len(Line(script)))[g]
  /\ Arrives(p, at)
  /\ CameFrom(e, p, at)

Genuine ==
  /\ script \in Scripts
  /\ RawFree(script) => /\ handled \in Seq(Said)
                        /\ \E g, p, at, e : GenuineAt(g, p, at, e)

LEMMA GenuineAtFirst == ASSUME Init  PROVE Genuine
<1> DEFINE n == Len(Line(script))
           p == [i \in 1..n |-> i]
<1>1. /\ script \in Scripts /\ wire = Line(script) /\ buf = <<>>
      /\ handled = <<>> /\ opened = (failures = 0) /\ failures \in 0..1
  BY DEF Init
<1>2. Line(script) \in Seq(Bytes)
  BY <1>1, ParserAssumption
<1>3. n \in Nat /\ buf \o wire = Line(script)
  BY <1>1, <1>2
<1> HIDE DEF n
<1>4. p \in Seq(1..n) /\ Len(p) = n /\ \A i \in 1..n : p[i] = i
  BY <1>3
<1>5. p \in Arriving(n)[0]
  BY ArrivingByGaps
<1>6. Increasing(p)
  BY <1>3, <1>4 DEF Increasing
<1> HIDE DEF p
<1>7. Arrives(p, 0)
  <2>1. \A m \in 1..(Len(p) - 0) : m \in 1..n /\ 0 + m = m
    BY <1>3, <1>4
  <2>2. 0 \in 0..Len(p) /\ Len(p) - 0 = n
    BY <1>3, <1>4
  <2> QED
    BY <1>3, <1>4, <1>6, <2>1, <2>2 DEF Arrives, n
<1>8. CameFrom(<<>>, p, 0)
  <2>1. DOMAIN handled = {} /\ <<>> \in [{} -> DOMAIN script]
    BY <1>1
  <2> QED
    BY <2>1 DEF CameFrom
<1>9. GenuineAt(0, p, 0, <<>>)
  <2>1. 0 \in 0..failures /\ (opened \/ 0 < failures)
    <3>1. CASE failures = 0
      <4>1. opened
        BY <1>1, <3>1, Zenon
      <4> QED
        BY <3>1, <4>1
    <3>2. CASE failures = 1
      BY <3>2
    <3> QED
      BY <1>1, <3>1, <3>2
  <2> QED
    BY <1>5, <1>7, <1>8, <2>1 DEF GenuineAt, n
<1>10. handled \in Seq(Said)
  BY <1>1
<1> QED
  BY <1>1, <1>9, <1>10 DEF Genuine

\* What is consumed is behind the parser.
LEMMA ArrivesBehind ==
  ASSUME buf \in Seq(Bytes), wire \in Seq(Bytes), NEW p, NEW at,
         Arrives(p, at), NEW k \in 0..Len(buf),
         buf' = SubSeq(buf, k + 1, Len(buf)), wire' = wire, script' = script
  PROVE  Arrives(p, at + k)'
<1>1. /\ p \in Seq(1..Len(Line(script))) /\ Increasing(p) /\ at \in 0..Len(p)
      /\ Len(buf \o wire) = Len(p) - at
      /\ \A m \in 1..(Len(p) - at) : (buf \o wire)[m] = Line(script)[p[at + m]]
  BY DEF Arrives
<1> DEFINE rest == SubSeq(buf, k + 1, Len(buf))
<1>2. /\ rest \in Seq(Bytes) /\ Len(rest) = Len(buf) - k
      /\ \A m \in 1..(Len(buf) - k) : rest[m] = buf[k + m]
      /\ Len(buf) \in Nat /\ Len(wire) \in Nat /\ Len(p) \in Nat
  BY <1>1
<1> HIDE DEF rest
<1>3. /\ Len(buf \o wire) = Len(buf) + Len(wire)
      /\ Len(rest \o wire) = Len(buf) - k + Len(wire)
  <2>1. Len(buf \o wire) = Len(buf) + Len(wire)
    OBVIOUS
  <2>2. Len(rest \o wire) = Len(rest) + Len(wire)
    BY <1>2, ConcatProperties
  <2> QED
    BY <1>2, <2>1, <2>2
<1>4. ASSUME NEW m \in 1..(Len(p) - (at + k))
      PROVE  (rest \o wire)[m] = Line(script)[p[at + k + m]]
  <2>1. /\ m \in 1..Len(rest \o wire) /\ k + m \in 1..Len(buf \o wire)
        /\ k + m \in 1..(Len(p) - at) /\ at + (k + m) = at + k + m
    BY <1>1, <1>2, <1>3
  <2>2. (rest \o wire)[m] = (buf \o wire)[k + m]
    <3>1. CASE m <= Len(rest)
      <4>1. m \in 1..(Len(buf) - k) /\ k + m <= Len(buf)
        BY <1>2, <3>1
      <4>2. (rest \o wire)[m] = rest[m] /\ (buf \o wire)[k + m] = buf[k + m]
        BY <1>2, <2>1, <3>1, <4>1
      <4> QED
        BY <1>2, <4>1, <4>2
    <3>2. CASE ~(m <= Len(rest))
      <4>1. ~(k + m <= Len(buf)) /\ m - Len(rest) = k + m - Len(buf)
        BY <1>2, <3>2
      <4>2. /\ (rest \o wire)[m] = wire[m - Len(rest)]
            /\ (buf \o wire)[k + m] = wire[k + m - Len(buf)]
        BY <1>2, <2>1, <3>2, <4>1
      <4> QED
        BY <4>1, <4>2
    <3> QED
      BY <3>1, <3>2
  <2>3. (buf \o wire)[k + m] = Line(script)[p[at + (k + m)]]
    BY <1>1, <2>1
  <2> QED
    BY <2>1, <2>2, <2>3
<1>5. at + k \in 0..Len(p) /\ Len(rest \o wire) = Len(p) - (at + k)
  BY <1>1, <1>2, <1>3
<1>6. buf' = rest
  BY DEF rest
<1> QED
  BY <1>1, <1>4, <1>5, <1>6 DEF Arrives

LEMMA CameBehind ==
  ASSUME NEW e, NEW p, NEW at \in Nat, CameFrom(e, p, at), NEW k \in Nat,
         Len(p) \in Nat, handled' = handled, script' = script
  PROVE  CameFrom(e, p, at + k)'
<1>1. \A m \in (at + k + 1)..Len(p) : m \in (at + 1)..Len(p)
  OBVIOUS
<1> QED
  BY <1>1 DEF CameFrom

\* A turn that consumes something and carries nothing out.
LEMMA Skipped ==
  ASSUME buf \in Seq(Bytes), wire \in Seq(Bytes), NEW k \in 0..Len(buf),
         NEW g, NEW p, NEW at, NEW e, GenuineAt(g, p, at, e),
         buf' = SubSeq(buf, k + 1, Len(buf)), wire' = wire, script' = script,
         handled' = handled, failures' = failures, opened' = opened
  PROVE  GenuineAt(g, p, at + k, e)'
<1>1. /\ g \in 0..failures /\ (opened \/ g < failures)
      /\ p \in Arriving(Len(Line(script)))[g]
      /\ Arrives(p, at) /\ CameFrom(e, p, at)
  BY DEF GenuineAt
<1>2. Arrives(p, at + k)'
  BY <1>1, ArrivesBehind
<1>3. at \in Nat /\ k \in Nat /\ Len(p) \in Nat
  BY <1>1 DEF Arrives
<1>4. CameFrom(e, p, at + k)'
  BY <1>1, <1>3, CameBehind
<1> QED
  BY <1>1, <1>2, <1>4 DEF GenuineAt

\* Nothing is consumed, or a part of the line has been read.
LEMMA NothingTaken ==
  ASSUME NEW g, NEW p, NEW at, NEW e, GenuineAt(g, p, at, e),
         buf' \o wire' = buf \o wire, script' = script, handled' = handled,
         failures \in Nat, failures' \in Nat, failures <= failures',
         opened' = opened \/ failures < failures'
  PROVE  GenuineAt(g, p, at, e)'
<1>1. /\ g \in 0..failures /\ (opened \/ g < failures)
      /\ p \in Arriving(Len(Line(script)))[g]
      /\ Arrives(p, at) /\ CameFrom(e, p, at)
  BY DEF GenuineAt
<1>2. g \in 0..failures' /\ (opened' \/ g < failures')
  BY <1>1
<1>3. Arrives(p, at)' /\ CameFrom(e, p, at)'
  BY <1>1 DEF Arrives, CameFrom
<1> QED
  BY <1>1, <1>2, <1>3 DEF GenuineAt

\* The port is opened again: what is on the line may be lost.
LEMMA GapOpens ==
  ASSUME buf \in Seq(Bytes), wire \in Seq(Bytes), failures \in 0..MaxFailures,
         script \in Scripts,
         NEW g, NEW p, NEW at, NEW e, GenuineAt(g, p, at, e), ~opened,
         NEW lost \in 0..Len(wire), wire' = SubSeq(wire, lost + 1, Len(wire)),
         buf' = buf, script' = script, handled' = handled,
         failures' = failures, opened'
  PROVE  \E q : GenuineAt(g + 1, q, at, e)'
<1> DEFINE n == Len(Line(script))
           rest == SubSeq(wire, lost + 1, Len(wire))
<1>1. /\ g \in 0..failures /\ g < failures
      /\ p \in Arriving(n)[g]
      /\ Arrives(p, at) /\ CameFrom(e, p, at)
  BY DEF GenuineAt
<1>2. n \in Nat
  BY ParserAssumption
<1>3. /\ p \in Seq(1..n) /\ Increasing(p) /\ at \in 0..Len(p)
      /\ Len(buf \o wire) = Len(p) - at
      /\ \A m \in 1..(Len(p) - at) : (buf \o wire)[m] = Line(script)[p[at + m]]
  BY <1>1 DEF Arrives
<1> HIDE DEF n
<1>4. Len(buf \o wire) = Len(buf) + Len(wire)
  BY ConcatProperties
<1>5. /\ Len(p) \in Nat /\ Len(buf) \in Nat /\ Len(wire) \in Nat
      /\ at \in Nat /\ lost \in Nat /\ lost <= Len(wire)
  BY <1>3
<1>6. PICK a \in 0..Len(p) : a = at + Len(buf) /\ lost \in 0..(Len(p) - a)
  BY <1>3, <1>4, <1>5
<1>7. PICK q \in WithGap(p) :
         /\ q \in Seq(1..n) /\ Len(q) = Len(p) - lost /\ Increasing(q)
         /\ \A i \in 1..Len(q) : q[i] = IF i <= a THEN p[i] ELSE p[i + lost]
  <2>1. a \in 0..Len(p) /\ lost \in 0..(Len(p) - a)
    BY <1>6
  <2> QED
    BY <1>2, <1>3, <2>1, GapKeepsOrder
<1>8. q \in Arriving(n)[g + 1]
  <2>2. g + 1 \in 1..MaxFailures /\ (g + 1) - 1 = g
    BY <1>1, ParserAssumption
  <2>3. Arriving(n)[g + 1] = UNION {WithGap(r) : r \in Arriving(n)[g]}
    BY <2>2, ArrivingByGaps
  <2> QED
    BY <1>1, <1>7, <2>3
<1>9. /\ rest \in Seq(Bytes) /\ Len(rest) = Len(wire) - lost
      /\ \A m \in 1..(Len(wire) - lost) : rest[m] = wire[lost + m]
  BY <1>5
<1> HIDE DEF rest
<1>n. /\ Len(q) = Len(p) - lost /\ Len(p) = at + Len(buf) + Len(wire)
      /\ Len(rest) = Len(wire) - lost /\ lost <= Len(wire) /\ a = at + Len(buf)
      /\ Len(p) \in Nat /\ Len(buf) \in Nat /\ Len(wire) \in Nat
      /\ at \in Nat /\ lost \in Nat
  <2>1. Len(p) = at + Len(buf) + Len(wire)
    BY <1>3, <1>4, <1>5
  <2> QED
    BY <1>5, <1>6, <1>7, <1>9, <2>1
<1>10. Len(buf \o rest) = Len(buf) + Len(wire) - lost
  <2>1. Len(buf \o rest) = Len(buf) + Len(rest)
    BY <1>9, ConcatProperties
  <2> QED
    BY <1>5, <1>9, <2>1
<1>11. ASSUME NEW m \in 1..(Len(q) - at)
       PROVE  (buf \o rest)[m] = Line(script)[q[at + m]]
  <2>1. /\ m \in 1..(Len(buf) + Len(rest)) /\ at + m \in 1..Len(q) /\ m \in Nat
        /\ Len(buf) + Len(rest) \in Nat
    BY <1>n
  <2>2. CASE m <= Len(buf)
    <3>1. m \in 1..(Len(buf) + Len(wire)) /\ m \in 1..(Len(p) - at) /\ at + m <= a
      BY <1>n, <2>1, <2>2
    <3>2. (buf \o rest)[m] = buf[m] /\ (buf \o wire)[m] = buf[m]
      BY <1>9, <2>1, <2>2, <3>1, ConcatProperties
    <3>3. q[at + m] = p[at + m]
      BY <1>7, <2>1, <3>1
    <3> QED
      BY <1>3, <3>1, <3>2, <3>3
  <2>3. CASE ~(m <= Len(buf))
    <3>1. /\ lost + m \in 1..(Len(buf) + Len(wire)) /\ lost + m \in 1..(Len(p) - at)
          /\ ~(at + m <= a) /\ ~(lost + m <= Len(buf))
          /\ m - Len(buf) \in 1..(Len(wire) - lost)
          /\ lost + (m - Len(buf)) = lost + m - Len(buf)
          /\ at + (lost + m) = at + m + lost
      BY <1>n, <2>1, <2>3
    <3>2. (buf \o rest)[m] = rest[m - Len(buf)]
      BY <1>9, <2>1, <2>3, ConcatProperties
    <3>5. (buf \o wire)[lost + m] = wire[lost + m - Len(buf)]
      BY <3>1, ConcatProperties
    <3>3. rest[m - Len(buf)] = wire[lost + m - Len(buf)]
      BY <1>9, <3>1
    <3>4. q[at + m] = p[at + (lost + m)]
      BY <1>7, <2>1, <3>1
    <3> QED
      BY <1>3, <3>1, <3>2, <3>3, <3>4, <3>5
  <2> QED
    BY <2>2, <2>3
<1>12. Arrives(q, at)'
  <2>1. at \in 0..Len(q) /\ Len(buf \o rest) = Len(q) - at
    BY <1>n, <1>10
  <2>2. wire' = rest
    BY DEF rest
  <2> QED
    BY <1>7, <1>11, <2>1, <2>2 DEF Arrives, n
<1>13. CameFrom(e, q, at)'
  <2>1. ASSUME NEW m \in (at + 1)..Len(q)
        PROVE  \E l \in (at + 1)..Len(p) : q[m] = p[l]
    <3>1. m \in 1..Len(q) /\ m \in (at + 1)..Len(p) /\ m + lost \in (at + 1)..Len(p)
      BY <1>n
    <3> QED
      BY <1>7, <3>1
  <2> QED
    BY <1>1, <2>1 DEF CameFrom
<1>14. g + 1 \in 0..failures
  BY <1>1, ParserAssumption
<1>15. GenuineAt(g + 1, q, at, e)'
  BY <1>8, <1>12, <1>13, <1>14 DEF GenuineAt, n
<1> QED
  BY <1>15

\* A stream goes up by one at least with each byte.
LEMMA StepsApart ==
  ASSUME NEW n \in Nat, NEW p \in Seq(1..n), Increasing(p)
  PROVE  \A i, j \in 1..Len(p) : i <= j => p[j] >= p[i] + (j - i)
<1> SUFFICES ASSUME NEW i \in 1..Len(p)
             PROVE  \A j \in 1..Len(p) : i <= j => p[j] >= p[i] + (j - i)
  OBVIOUS
<1> DEFINE bad == {j \in i..Len(p) : ~(p[j] >= p[i] + (j - i))}
<1>1. Len(p) \in Nat /\ \A k \in 1..Len(p) : p[k] \in Nat
  OBVIOUS
<1>2. bad = {}
  <2> SUFFICES ASSUME bad # {} PROVE FALSE
    OBVIOUS
  <2>1. PICK j \in bad : \A k \in bad : j <= k
    <3>1. bad \subseteq Nat
      BY <1>1
    <3> HIDE DEF bad
    <3> QED
      BY <3>1, LeastNatural
  <2>2. j \in i..Len(p) /\ ~(p[j] >= p[i] + (j - i))
    OBVIOUS
  <2>3. j # i
    BY <1>1, <2>2
  <2>4. /\ j - 1 \in i..Len(p) /\ j - 1 \in 1..Len(p) /\ j \in 1..Len(p)
        /\ j - 1 < j /\ ~(j <= j - 1)
    BY <1>1, <2>2, <2>3
  <2>5. j - 1 \notin bad
    <3> HIDE DEF bad
    <3> QED
      BY <2>1, <2>4
  <2>6. p[j - 1] >= p[i] + (j - 1 - i)
    BY <2>4, <2>5
  <2>7. p[j - 1] < p[j]
    BY <2>4 DEF Increasing
  <2>8. /\ p[i] \in Nat /\ p[j] \in Nat /\ p[j - 1] \in Nat
        /\ i \in Nat /\ j \in Nat
    BY <1>1, <2>4
  <2>9. ~(p[j] >= p[i] + (j - i))
    BY <2>2
  <2>10. \A x, y, z, u, v \in Nat :
           y >= x + (v - 1 - u) /\ y < z => z >= x + (v - u)
    OBVIOUS
  <2> HIDE DEF bad
  <2> QED
    BY <2>6, <2>7, <2>8, <2>9, <2>10
<1>3. ASSUME NEW j \in 1..Len(p), i <= j
      PROVE  p[j] >= p[i] + (j - i)
  <2>1. j \in i..Len(p)
    BY <1>3
  <2>2. j \notin bad
    BY <1>2
  <2> QED
    BY <2>1, <2>2
<1> HIDE DEF bad
<1> QED
  BY <1>3

\* What stands at the front of the buffer stands behind the stream's first at
\* bytes.
LEMMA FrontOfStream ==
  ASSUME buf \in Seq(Bytes), wire \in Seq(Bytes), script \in Scripts,
         NEW p, NEW at, Arrives(p, at)
  PROVE  LET b == [m \in DOMAIN p |-> Line(script)[p[m]]]
         IN /\ b \in Seq(Bytes) /\ Len(b) = Len(p) /\ at + Len(buf) \in 0..Len(p)
            /\ \A m \in 1..Len(buf) : b[at + m] = buf[m]
            /\ \A len \in 1..Len(buf) :
                 SubSeq(b, at + 1, at + len) = SubSeq(buf, 1, len)
<1> DEFINE line == Line(script)
           b == [m \in DOMAIN p |-> line[p[m]]]
<1>1. /\ p \in Seq(1..Len(line)) /\ at \in 0..Len(p)
      /\ Len(buf \o wire) = Len(p) - at
      /\ \A m \in 1..(Len(p) - at) : (buf \o wire)[m] = line[p[at + m]]
  BY DEF Arrives
<1>2. line \in Seq(Bytes)
  BY ParserAssumption
<1> HIDE DEF line
<1>3. Len(buf \o wire) = Len(buf) + Len(wire)
  BY ConcatProperties
<1>4. /\ Len(p) = at + Len(buf) + Len(wire) /\ DOMAIN p = 1..Len(p)
      /\ Len(p) \in Nat /\ at \in Nat /\ Len(buf) \in Nat /\ Len(wire) \in Nat
  BY <1>1, <1>3
<1>5. \A m \in 1..Len(p) : line[p[m]] \in Bytes
  BY <1>1, <1>2
<1>6. b \in [1..Len(p) -> Bytes]
  BY <1>4, <1>5
<1>7. b \in Seq(Bytes) /\ Len(b) = Len(p)
  BY <1>4, <1>6
<1>8. ASSUME NEW m \in 1..Len(buf)  PROVE b[at + m] = buf[m] /\ at + m \in 1..Len(p)
  <2>1. /\ m \in 1..(Len(p) - at) /\ at + m \in 1..Len(p)
        /\ m \in 1..(Len(buf) + Len(wire)) /\ m <= Len(buf)
    BY <1>4
  <2>2. (buf \o wire)[m] = buf[m]
    BY <2>1, ConcatProperties
  <2>3. b[at + m] = line[p[at + m]]
    BY <1>4, <2>1
  <2> QED
    BY <1>1, <2>1, <2>2, <2>3
<1> HIDE DEF b
<1>9. ASSUME NEW len \in 1..Len(buf)
      PROVE  SubSeq(b, at + 1, at + len) = SubSeq(buf, 1, len)
  <2> DEFINE u == SubSeq(b, at + 1, at + len)
             v == SubSeq(buf, 1, len)
  <2>1. /\ at + 1 \in Int /\ at + len \in Int /\ 1 \in Int /\ len \in Int
        /\ at + len - (at + 1) + 1 = len /\ len - 1 + 1 = len
        /\ at + 1 <= at + len /\ 1 <= len
        /\ \A i \in (at + 1)..(at + len) : i \in 1..Len(b)
        /\ \A i \in 1..len : i \in 1..Len(buf)
        /\ \A i \in 1..len : at + 1 + i - 1 = at + i /\ 1 + i - 1 = i
    BY <1>4, <1>7
  <2>2. /\ \A i \in (at + 1)..(at + len) : b[i] \in Bytes
        /\ \A i \in 1..len : buf[i] \in Bytes
    BY <1>7, <2>1
  <2>3. /\ u \in Seq(Bytes) /\ Len(u) = len
        /\ \A i \in 1..len : u[i] = b[at + 1 + i - 1]
    BY <2>1, <2>2, SubSeqProperties
  <2>4. /\ v \in Seq(Bytes) /\ Len(v) = len
        /\ \A i \in 1..len : v[i] = buf[i]
    BY <2>1, <2>2
  <2> HIDE DEF u, v
  <2>5. \A i \in 1..Len(u) : u[i] = v[i]
    BY <1>8, <2>1, <2>3, <2>4
  <2>6. u = v
    BY <2>3, <2>4, <2>5, SeqEqual
  <2> QED
    BY <2>6 DEF u, v
<1>10. at + Len(buf) \in 0..Len(p)
  BY <1>4
<1> QED
  BY <1>7, <1>8, <1>9, <1>10 DEF b, line

\* A frame of this length, behind the stream's first at bytes, is one of the
\* script, and a byte of it is in its place.
SentAt(p, at, frame, len) ==
  \E j \in DOMAIN script :
    /\ script[j].says = SaidBy(frame) /\ Len(script[j].bytes) = len
    /\ \E m \in 1..len : p[at + m] = Before(script, j) + m

\* By NoForgery that holds of each frame the parser takes.
LEMMA FrameIsSent ==
  ASSUME NoForgery, script \in Scripts, RawFree(script),
         failures \in 0..MaxFailures, buf \in Seq(Bytes), wire \in Seq(Bytes),
         NEW g, NEW p, NEW at, NEW e, GenuineAt(g, p, at, e),
         NEW len \in 8..Len(buf), len = 8 + buf[6],
         NEW frame, frame = SubSeq(buf, 1, len), WellFormed(frame),
         SaidBy(frame) # <<>>
  PROVE  SentAt(p, at, frame, len)
<1> DEFINE b == [m \in DOMAIN p |-> Line(script)[p[m]]]
<1>1. /\ g \in 0..failures /\ Arrives(p, at)
      /\ p \in Arriving(Len(Line(script)))[g]
  BY DEF GenuineAt
<1>2. /\ b \in Seq(Bytes) /\ Len(b) = Len(p) /\ at + Len(buf) \in 0..Len(p)
      /\ \A m \in 1..Len(buf) : b[at + m] = buf[m]
      /\ \A l \in 1..Len(buf) : SubSeq(b, at + 1, at + l) = SubSeq(buf, 1, l)
  BY <1>1, FrontOfStream
<1>3. at \in Nat /\ Len(p) \in Nat /\ Len(buf) \in Nat
  BY <1>1 DEF Arrives
<1> HIDE DEF b
<1>4. g \in 0..MaxFailures
  BY <1>1, ParserAssumption
<1>5. at \in 0..(Len(b) - 8) /\ 6 \in 1..Len(buf) /\ len \in 1..Len(buf)
  BY <1>2, <1>3
<1>6. b[at + 6] = buf[6] /\ SubSeq(b, at + 1, at + len) = frame
  BY <1>2, <1>5
<1>7. at + 8 + b[at + 6] = at + len /\ at + len <= Len(b)
  <2>0. buf[6] \in Bytes
    BY <1>5
  <2>1. PICK v \in 0..255 : v = buf[6]
    BY <2>0 DEF Bytes
  <2>4. at + 8 + v = at + (8 + v)
    BY <1>3
  <2>2. at + 8 + buf[6] = at + (8 + buf[6])
    BY <2>1, <2>4
  <2>3. at + len <= Len(b)
    BY <1>2, <1>3
  <2> QED
    BY <1>6, <2>2, <2>3
<1>8. \A i \in 0..(Len(b) - 8) :
        LET end == i + 8 + b[i + 6]
            f   == SubSeq(b, i + 1, end)
        IN end <= Len(b) /\ WellFormed(f) /\ SaidBy(f) # <<>> =>
             \E j \in DOMAIN script :
               /\ IsFrame(script[j]) /\ script[j].bytes = f
               /\ \E m \in DOMAIN f : p[i + m] = Before(script, j) + m
  BY <1>1, <1>4 DEF NoForgery, b
<1>9. PICK j \in DOMAIN script :
        /\ IsFrame(script[j]) /\ script[j].bytes = frame
        /\ \E m \in DOMAIN frame : p[at + m] = Before(script, j) + m
  BY <1>5, <1>6, <1>7, <1>8
<1>10. DOMAIN frame = 1..len /\ Len(frame) = len
  BY <1>3
<1> QED
  BY <1>9, <1>10 DEF IsFrame, SentAt

\* A command that is carried out is the next one of the script, or a later one.
LEMMA CameFromMore ==
  ASSUME script \in Scripts, NEW n \in Nat, NEW p \in Seq(1..n), Increasing(p),
         NEW at \in Nat, NEW e, CameFrom(e, p, at),
         NEW len \in Nat, at + len <= Len(p), NEW m \in 1..len,
         NEW j \in DOMAIN script, Len(script[j].bytes) = len,
         p[at + m] = Before(script, j) + m,
         NEW c, script[j].says = <<c>>,
         handled \in Seq(Said), handled' = Append(handled, c), script' = script
  PROVE  \E f : CameFrom(f, p, at + len)'
<1> DEFINE N == Len(handled)
           f == [i \in 1..(N + 1) |-> IF i <= N THEN e[i] ELSE j]
<1>1. /\ N \in Nat /\ DOMAIN handled = 1..N
      /\ \A i \in 1..N : e[i] \in DOMAIN script
      /\ \A i, k \in 1..N : i < k => e[i] < e[k]
      /\ \A i \in 1..N :
           /\ script[e[i]].says = <<handled[i]>>
           /\ \A k \in (at + 1)..Len(p) :
                p[k] > Before(script, e[i]) + Len(script[e[i]].bytes)
  BY DEF CameFrom
<1>2. c \in Said
  <2>1. script[j].says \in Seq(Said)
    BY ScriptTypes
  <2>2. <<c>> \in Seq(Said) /\ Len(<<c>>) = 1 /\ <<c>>[1] = c
    BY <2>1
  <2> QED
    BY <2>2, ElementOfSeq
<1>3. /\ DOMAIN handled' = 1..(N + 1) /\ handled'[N + 1] = c
      /\ \A i \in 1..N : handled'[i] = handled[i]
  BY <1>1, <1>2, AppendProperties
<1>4. /\ DOMAIN script = 1..Len(script)
      /\ \A i \in DOMAIN script : script[i].bytes \in Seq(Bytes) /\ i \in Nat
  <2>1. DOMAIN script = 1..Len(script) /\ Len(script) \in Nat
    BY ScriptTypes
  <2>2. \A i \in DOMAIN script : script[i].bytes \in Seq(Bytes)
    BY ScriptTypes
  <2> QED
    BY <2>1, <2>2
<1>5. /\ \A i \in DOMAIN script : Before(script, i) \in Nat
      /\ \A i, k \in DOMAIN script :
           i <= k => Before(script, i) + Len(script[i].bytes)
                       <= Before(script, k) + Len(script[k].bytes)
  BY ChunksInOrder
<1>6. Len(p) \in Nat /\ at + m \in 1..Len(p) /\ at + m \in (at + 1)..Len(p)
  OBVIOUS
<1>7. ASSUME NEW i \in 1..N  PROVE e[i] < j
  <2> DEFINE x == Before(script, e[i]) + Len(script[e[i]].bytes)
             y == Before(script, j)
  <2>1. e[i] \in DOMAIN script /\ e[i] \in Nat /\ j \in Nat
    BY <1>1, <1>4
  <2>2. x \in Nat /\ y \in Nat
    <3>1. Before(script, e[i]) \in Nat /\ Before(script, j) \in Nat
      BY <1>5, <2>1
    <3>2. script[e[i]].bytes \in Seq(Bytes)
      BY <1>4, <2>1
    <3>3. PICK b \in Seq(Bytes) : b = script[e[i]].bytes
      BY <3>2
    <3>4. Len(b) \in Nat
      OBVIOUS
    <3>5. PICK l \in Nat, u \in Nat, v \in Nat :
            /\ l = Len(script[e[i]].bytes) /\ u = Before(script, e[i])
            /\ v = Before(script, j)
      BY <3>1, <3>3, <3>4
    <3>6. x = u + l /\ y = v
      BY <3>5
    <3> QED
      BY <3>6
  <2>3. p[at + m] > x
    BY <1>1, <1>6
  <2>4. p[at + m] = y + m
    OBVIOUS
  <2>5. j <= e[i] => y + len <= x
    BY <1>5, <2>1
  <2> HIDE DEF x, y
  <2>6. m <= len /\ m \in Nat
    OBVIOUS
  <2>7. ~(j <= e[i])
    BY <2>2, <2>3, <2>4, <2>5, <2>6
  <2> QED
    BY <2>1, <2>7
<1>8. ASSUME NEW k \in (at + len + 1)..Len(p)
      PROVE  p[k] > Before(script, j) + Len(script[j].bytes)
  <2>1. k \in 1..Len(p) /\ k \in Nat /\ at + m <= k
    BY <1>6
  <2>2. p[k] >= p[at + m] + (k - (at + m))
    BY <1>6, <2>1, StepsApart
  <2>3. Before(script, j) \in Nat
    BY <1>5
  <2>4. p[k] \in Nat
    BY <2>1
  <2>5. p[k] >= Before(script, j) + m + (k - (at + m))
    BY <2>2
  <2>6. k >= at + len + 1 /\ m \in Nat
    OBVIOUS
  <2>7. \A y \in Nat, z \in Nat :
          z >= y + m + (k - (at + m)) => z > y + len
    BY <2>1, <2>6
  <2> QED
    BY <2>3, <2>4, <2>5, <2>7
<1>9. /\ f \in [1..(N + 1) -> DOMAIN script] /\ f[N + 1] = j
      /\ \A i \in 1..N : f[i] = e[i]
  <2>1. N + 1 \in 1..(N + 1) /\ ~(N + 1 <= N)
    BY <1>1
  <2>2. \A i \in 1..N : i \in 1..(N + 1) /\ i <= N
    BY <1>1
  <2>3. \A i \in 1..(N + 1) : i <= N => i \in 1..N
    BY <1>1
  <2> QED
    BY <1>1, <2>1, <2>2, <2>3
<1>10. \A i \in 1..(N + 1) : i \in 1..N \/ i = N + 1
  BY <1>1
<1>11. \A i, k \in 1..(N + 1) : i < k => f[i] < f[k]
  <2> SUFFICES ASSUME NEW i \in 1..(N + 1), NEW k \in 1..(N + 1), i < k
               PROVE  f[i] < f[k]
    OBVIOUS
  <2> HIDE DEF f
  <2>1. i \in 1..N
    BY <1>1
  <2>2. CASE k \in 1..N
    BY <1>1, <1>9, <2>1, <2>2
  <2>3. CASE k = N + 1
    BY <1>7, <1>9, <2>1, <2>3
  <2> QED
    BY <1>10, <2>2, <2>3
<1>12. ASSUME NEW i \in 1..(N + 1)
       PROVE  /\ script[f[i]].says = <<handled'[i]>>
              /\ \A k \in (at + len + 1)..Len(p) :
                   p[k] > Before(script, f[i]) + Len(script[f[i]].bytes)
  <2> HIDE DEF f
  <2>1. CASE i \in 1..N
    <3>1. \A k \in (at + len + 1)..Len(p) : k \in (at + 1)..Len(p)
      BY <1>6
    <3> QED
      BY <1>1, <1>3, <1>9, <2>1, <3>1
  <2>2. CASE i = N + 1
    BY <1>3, <1>8, <1>9, <2>2
  <2> QED
    BY <1>10, <2>1, <2>2
<1>13. PICK h : h = f
  OBVIOUS
<1> HIDE DEF f
<1>14. CameFrom(h, p, at + len)'
  BY <1>3, <1>9, <1>11, <1>12, <1>13 DEF CameFrom
<1> QED
  BY <1>14

\* A turn that carries out a frame, or skips one with an unknown type.
LEMMA FrameHandled ==
  ASSUME NoForgery, script \in Scripts, RawFree(script),
         failures \in 0..MaxFailures, buf \in Seq(Bytes), wire \in Seq(Bytes),
         handled \in Seq(Said), HandleFrame,
         NEW g, NEW p, NEW at, NEW e, GenuineAt(g, p, at, e)
  PROVE  handled' \in Seq(Said) /\ \E to, f : GenuineAt(g, p, to, f)'
<1>1. /\ AtFrame /\ buf[3] = EP_VER /\ CrcOK /\ handled' = CarriedOut
      /\ buf' = SubSeq(buf, FrameLen + 1, Len(buf))
      /\ wire' = wire /\ script' = script /\ failures' = failures
      /\ opened' = opened
  BY DEF HandleFrame, Consumed, portVars
<1>2. PICK len \in 8..Len(buf) : len = FrameLen
  BY <1>1, FrameTaken
<1>3. PICK frame : frame = SubSeq(buf, 1, len)
  OBVIOUS
<1>4. /\ len = 8 + buf[6] /\ WellFormed(frame)
      /\ \/ SaidBy(frame) = <<>> /\ handled' = handled
         \/ \E c : SaidBy(frame) = <<c>> /\ handled' = Append(handled, c)
  BY <1>1, <1>2, <1>3, FrameTaken
<1>5. CASE SaidBy(frame) = <<>> /\ handled' = handled
  <2>1. len \in 0..Len(buf) /\ buf' = SubSeq(buf, len + 1, Len(buf))
    BY <1>1, <1>2
  <2>2. GenuineAt(g, p, at + len, e)'
    BY <1>1, <1>5, <2>1, Skipped
  <2> QED
    BY <1>5, <2>2
<1>6. CASE \E c : SaidBy(frame) = <<c>> /\ handled' = Append(handled, c)
  <2>1. PICK c : SaidBy(frame) = <<c>> /\ handled' = Append(handled, c)
    BY <1>6
  <2>2. /\ SaidBy(frame) # <<>> /\ WellFormed(frame) /\ len = 8 + buf[6]
        /\ frame = SubSeq(buf, 1, len)
    <3>1. <<c>> # <<>>
      BY SMT
    <3>2. WellFormed(frame) /\ len = 8 + buf[6] /\ frame = SubSeq(buf, 1, len)
      BY <1>3, <1>4, Zenon
    <3> QED
      BY <2>1, <3>1, <3>2, Zenon
  <2>0. SentAt(p, at, frame, len)
    BY <2>2, FrameIsSent
  <2>3. PICK j \in DOMAIN script :
          /\ script[j].says = SaidBy(frame) /\ Len(script[j].bytes) = len
          /\ \E m \in 1..len : p[at + m] = Before(script, j) + m
    BY <2>0 DEF SentAt
  <2>4. PICK m \in 1..len : p[at + m] = Before(script, j) + m
    BY <2>3
  <2>5. /\ g \in 0..failures /\ (opened \/ g < failures)
        /\ p \in Arriving(Len(Line(script)))[g]
        /\ Arrives(p, at) /\ CameFrom(e, p, at)
    BY DEF GenuineAt
  <2>6. PICK n \in Nat : n = Len(Line(script))
    BY ParserAssumption
  <2>7. /\ p \in Seq(1..n) /\ Increasing(p) /\ at \in Nat /\ len \in Nat
        /\ at + len <= Len(p)
    <3>1. /\ p \in Seq(1..n) /\ Increasing(p) /\ at \in 0..Len(p)
      BY <2>5, <2>6 DEF Arrives
    <3>2. at + Len(buf) \in 0..Len(p)
      BY <2>5, FrontOfStream
    <3>3. Len(p) \in Nat /\ Len(buf) \in Nat
      BY <3>1
    <3> QED
      BY <3>1, <3>2, <3>3
  <2>8. script[j].says = <<c>>
    BY <2>1, <2>3
  <2>9. PICK f : CameFrom(f, p, at + len)'
    BY <1>1, <2>1, <2>3, <2>4, <2>5, <2>7, <2>8, CameFromMore
  <2>10. len \in 0..Len(buf) /\ buf' = SubSeq(buf, len + 1, Len(buf))
    BY <1>1, <1>2
  <2>11. Arrives(p, at + len)'
    BY <1>1, <2>5, <2>10, ArrivesBehind
  <2>12. GenuineAt(g, p, at + len, f)'
    BY <1>1, <2>5, <2>9, <2>11 DEF GenuineAt
  <2>13. c \in Said
    <3>1. script[j].says \in Seq(Said)
      BY ScriptTypes
    <3>2. <<c>> \in Seq(Said) /\ Len(<<c>>) = 1 /\ <<c>>[1] = c
      BY <2>8, <3>1
    <3> QED
      BY <3>2, ElementOfSeq
  <2> QED
    BY <2>1, <2>12, <2>13
<1> QED
  BY <1>4, <1>5, <1>6

\* Where no byte of the script is a raw command, none is at the front.
LEMMA NoRawInFront ==
  ASSUME script \in Scripts, RawFree(script), buf \in Seq(Bytes),
         wire \in Seq(Bytes), NEW p, NEW at, Arrives(p, at)
  PROVE  ~AtRawCommand
<1> SUFFICES ASSUME buf # <<>>, buf[1] \in DOMAIN RawCommand  PROVE FALSE
  BY DEF AtRawCommand
<1>1. /\ p \in Seq(1..Len(Line(script))) /\ at \in 0..Len(p)
      /\ Len(buf \o wire) = Len(p) - at
      /\ \A m \in 1..(Len(p) - at) : (buf \o wire)[m] = Line(script)[p[at + m]]
  BY DEF Arrives
<1>2. /\ Len(buf) \in Nat /\ Len(buf) >= 1 /\ Len(wire) \in Nat
      /\ Len(buf \o wire) = Len(buf) + Len(wire) /\ (buf \o wire)[1] = buf[1]
  BY ConcatProperties
<1>3. at + 1 \in 1..Len(p) /\ 1 \in 1..(Len(p) - at)
  BY <1>1, <1>2
<1>4. p[at + 1] \in 1..Len(Line(script)) /\ buf[1] = Line(script)[p[at + 1]]
  BY <1>1, <1>2, <1>3
<1>5. PICK j \in DOMAIN script : buf[1] \in Range(script[j].bytes)
  BY <1>4, BytesOfChunks
<1> QED
  BY <1>5 DEF RawFree

\* A turn of one of the two loops.
LEMMA ParseGenuine ==
  ASSUME NoForgery, script \in Scripts, RawFree(script),
         failures \in 0..MaxFailures, buf \in Seq(Bytes), wire \in Seq(Bytes),
         handled \in Seq(Said), Parse,
         NEW g, NEW p, NEW at, NEW e, GenuineAt(g, p, at, e)
  PROVE  handled' \in Seq(Said) /\ \E to, f : GenuineAt(g, p, to, f)'
<1>1. /\ wire' = wire /\ script' = script /\ failures' = failures
      /\ opened' = opened
  BY DEF Parse, HandleRaw, LeaveRaw, SkipToSof, WaitForMore, BadVersion,
         BadCrc, HandleFrame, portVars
<1>2. ~HandleRaw
  <2>1. Arrives(p, at)
    BY DEF GenuineAt
  <2> QED
    BY <2>1, NoRawInFront DEF HandleRaw
<1>3. CASE LeaveRaw \/ WaitForMore
  <2>1. buf' = buf /\ handled' = handled
    BY <1>3 DEF LeaveRaw, WaitForMore
  <2>2. /\ buf' \o wire' = buf \o wire /\ failures \in Nat /\ failures' \in Nat
        /\ failures <= failures' /\ ~(failures < failures')
    BY <1>1, <2>1, ParserAssumption
  <2>3. opened' = opened \/ failures < failures'
    BY <1>1
  <2>4. GenuineAt(g, p, at, e)'
    BY <1>1, <2>1, <2>2, <2>3, NothingTaken
  <2> QED
    BY <2>1, <2>4
<1>4. CASE SkipToSof \/ BadVersion \/ BadCrc
  <2>1. handled' = handled
    BY <1>4 DEF SkipToSof, BadVersion, BadCrc
  <2>2. \E k \in 0..Len(buf) : buf' = SubSeq(buf, k + 1, Len(buf))
    <3>1. CASE SkipToSof
      <4>1. FindSof \in 0..Len(buf)
        BY FindSofInBuffer
      <4> QED
        BY <3>1, <4>1 DEF SkipToSof, Consumed
    <3>2. CASE BadVersion \/ BadCrc
      <4>1. Len(buf) >= 8
        BY <3>2 DEF BadVersion, BadCrc, AtFrame, AtHeader
      <4>2. 1 \in 0..Len(buf) /\ 2 \in 0..Len(buf)
        BY <4>1
      <4>3. \/ buf' = SubSeq(buf, 1 + 1, Len(buf))
            \/ buf' = SubSeq(buf, 2 + 1, Len(buf))
        BY <3>2 DEF BadVersion, BadCrc, Consumed
      <4> QED
        BY <4>2, <4>3
    <3> QED
      BY <1>4, <3>1, <3>2
  <2>3. PICK k \in 0..Len(buf) : buf' = SubSeq(buf, k + 1, Len(buf))
    BY <2>2
  <2>4. GenuineAt(g, p, at + k, e)'
    BY <1>1, <2>1, <2>3, Skipped
  <2> QED
    BY <2>1, <2>4
<1>5. CASE HandleFrame
  BY <1>5, FrameHandled
<1> QED
  BY <1>2, <1>3, <1>4, <1>5 DEF Parse

LEMMA NextGenuine ==
  ASSUME NoForgery, Genuine, TypeOK, NeverDropped, [Next]_vars  PROVE Genuine'
<1>1. script' = script /\ script \in Scripts /\ RawFree(script)' = RawFree(script)
  BY DEF Genuine, Next, ReadSome, ReadNothing, Parse, HandleRaw, LeaveRaw,
         SkipToSof, WaitForMore, BadVersion, BadCrc, HandleFrame, WriteState,
         WriteFails, Reopen, StayClosed, vars, RawFree, RawCommand
<1> SUFFICES ASSUME RawFree(script)
             PROVE  /\ handled' \in Seq(Said)
                    /\ \E h, q, to, f : GenuineAt(h, q, to, f)'
  BY <1>1 DEF Genuine
<1>2. PICK g, p, at, e : GenuineAt(g, p, at, e)
  BY DEF Genuine
<1>3. /\ handled \in Seq(Said) /\ buf \in Seq(Bytes) /\ wire \in Seq(Bytes)
      /\ failures \in 0..MaxFailures /\ failures \in Nat /\ failures + 1 \in Nat
      /\ ~(failures < failures) /\ failures < failures + 1 /\ opened \in BOOLEAN
  BY ParserAssumption DEF Genuine, TypeOK
\* Steps that carry nothing out and leave the stream as it is.
<1>4. ASSUME buf' \o wire' = buf \o wire, handled' = handled,
             \/ failures' = failures /\ opened' = opened
             \/ failures' = failures + 1 /\ opened' = FALSE
      PROVE  GenuineAt(g, p, at, e)' /\ handled' \in Seq(Said)
  <2>1. /\ failures \in Nat /\ failures' \in Nat /\ failures <= failures'
    BY <1>3, <1>4
  <2>2. CASE failures' = failures /\ opened' = opened
    <3>1. opened' = opened \/ failures < failures'
      BY <2>2
    <3> QED
      BY <1>1, <1>2, <1>3, <1>4, <2>1, <3>1, NothingTaken
  <2>3. CASE failures' = failures + 1 /\ opened' = FALSE
    <3>1. opened' = opened \/ failures < failures'
      BY <1>3, <2>3
    <3> QED
      BY <1>1, <1>2, <1>3, <1>4, <2>1, <3>1, NothingTaken
  <2> QED
    BY <1>4, <2>2, <2>3
<1>5. CASE ReadSome
  <2>1. Kept = buf
    BY <1>5 DEF ReadSome, NeverDropped
  <2>2. PICK m \in 1..Len(wire) : /\ buf' = Kept \o SubSeq(wire, 1, m)
                                  /\ wire' = SubSeq(wire, m + 1, Len(wire))
    BY <1>5 DEF ReadSome
  <2>3. buf' \o wire' = buf \o wire
    BY <1>3, <2>1, <2>2, ReadMoves
  <2>4. handled' = handled /\ failures' = failures /\ opened' = opened
    BY <1>5 DEF ReadSome, portVars
  <2>5. GenuineAt(g, p, at, e)' /\ handled' \in Seq(Said)
    BY <1>4, <2>3, <2>4
  <2> QED
    BY <2>5
<1>6. CASE ReadNothing
  <2>1. Kept = buf
    BY <1>6 DEF ReadNothing, NeverDropped
  <2>2. /\ buf' = buf /\ wire' = wire /\ handled' = handled
        /\ failures' = failures /\ opened' = opened
    BY <1>6, <2>1 DEF ReadNothing, portVars
  <2>3. GenuineAt(g, p, at, e)' /\ handled' \in Seq(Said)
    BY <1>4, <2>2
  <2> QED
    BY <2>3
<1>7. CASE Parse
  <2>1. handled' \in Seq(Said) /\ \E to, f : GenuineAt(g, p, to, f)'
    BY <1>1, <1>2, <1>3, <1>7, ParseGenuine
  <2> QED
    BY <2>1
<1>8. CASE WriteState \/ WriteFails \/ StayClosed \/ UNCHANGED vars
  <2>1. /\ buf' = buf /\ wire' = wire /\ handled' = handled
        /\ \/ failures' = failures /\ opened' = opened
           \/ failures' = failures + 1 /\ opened' = FALSE
    BY <1>8 DEF WriteState, WriteFails, StayClosed, vars, portVars
  <2>2. GenuineAt(g, p, at, e)' /\ handled' \in Seq(Said)
    BY <1>4, <2>1
  <2> QED
    BY <2>2
<1>9. CASE Reopen
  <2>1. /\ ~opened /\ opened' /\ buf' = buf /\ handled' = handled
        /\ failures' = failures
        /\ \E n \in 0..Len(wire) : wire' = SubSeq(wire, n + 1, Len(wire))
    BY <1>9 DEF Reopen
  <2>2. PICK lost \in 0..Len(wire) : wire' = SubSeq(wire, lost + 1, Len(wire))
    BY <2>1
  <2>3. \E q : GenuineAt(g + 1, q, at, e)'
    BY <1>1, <1>2, <1>3, <2>1, <2>2, GapOpens
  <2> QED
    BY <1>3, <2>1, <2>3
<1> QED
  BY <1>5, <1>6, <1>7, <1>8, <1>9 DEF Next

LEMMA AlwaysGenuine ==
  ASSUME NoForgery  PROVE Spec => []Genuine
<1>1. Genuine /\ TypeOK /\ NeverDropped /\ [Next]_vars => Genuine'
  BY NextGenuine
<1> QED
  BY <1>1, GenuineAtFirst, TypeCorrect, NothingIsDropped, PTL DEF Spec

\* A chunk that says one command has its place in the whole.
LEMMA SaysOnce ==
  ASSUME script \in Scripts, NEW done, NEW rest,
         IsSplit(done, rest, SaysOf, Len(script), Said),
         done[Len(script)] = Sent,
         NEW i \in DOMAIN script, NEW c, script[i].says = <<c>>
  PROVE  /\ Len(done[i]) \in DOMAIN Sent /\ Sent[Len(done[i])] = c
         /\ Len(done[i]) = Len(done[i - 1]) + 1
<1>1. /\ Len(script) \in Nat /\ i \in 1..Len(script)
      /\ SaysOf[i] = <<c>> /\ script[i].says \in Seq(Said)
  BY ScriptTypes
<1>2. c \in Said
  <2>1. <<c>> \in Seq(Said) /\ Len(<<c>>) = 1 /\ <<c>>[1] = c
    BY <1>1
  <2> QED
    BY <2>1, ElementOfSeq
<1>3. /\ i - 1 \in 0..Len(script) /\ i \in 0..Len(script)
      /\ Len(script) \in 0..Len(script)
  BY <1>1
<1>4. PICK u \in Seq(Said), v \in Seq(Said), w \in Seq(Said) :
        /\ u = done[i - 1] /\ v = done[i] /\ w = rest[i]
        /\ v = u \o <<c>> /\ v \o w = Sent
  <2>1. /\ done[i - 1] \in Seq(Said) /\ done[i] \in Seq(Said)
        /\ rest[i] \in Seq(Said)
    BY <1>3 DEF IsSplit
  <2>2. done[i] = done[i - 1] \o <<c>> /\ done[i] \o rest[i] = Sent
    BY <1>1, <1>3 DEF IsSplit
  <2> QED
    BY <2>1, <2>2
<1>5. Len(u) \in Nat /\ Len(v) = Len(u) + 1 /\ v[Len(v)] = c
  BY <1>2, <1>4
<1>6. /\ Len(v) \in DOMAIN (v \o w) /\ (v \o w)[Len(v)] = v[Len(v)]
  <2>1. PICK m \in Nat : m = Len(v) /\ m >= 1
    BY <1>5
  <2>2. Len(v \o w) = Len(v) + Len(w) /\ Len(w) \in Nat /\ v \o w \in Seq(Said)
    BY <1>4, ConcatProperties
  <2>3. m \in 1..(Len(v) + Len(w)) /\ m <= Len(v)
    BY <2>1, <2>2
  <2>4. (v \o w)[m] = v[m]
    BY <1>4, <2>3, ConcatProperties
  <2>5. DOMAIN (v \o w) = 1..(Len(v) + Len(w))
    BY <2>2
  <2> QED
    BY <2>1, <2>3, <2>4, <2>5
<1> QED
  BY <1>4, <1>5, <1>6

LEMMA GenuineInventsNothing ==
  ASSUME Genuine, RawFree(script)  PROVE NothingInvented
<1>0. script \in Scripts /\ handled \in Seq(Said)
  BY DEF Genuine
<1>1. PICK g, p, at, e : GenuineAt(g, p, at, e)
  BY DEF Genuine
<1>2. PICK n \in Nat : n = Len(handled) /\ DOMAIN handled = 1..n
  BY <1>0
<1>3. /\ \A i \in 1..n : e[i] \in DOMAIN script
      /\ \A i, j \in 1..n : i < j => e[i] < e[j]
      /\ \A i \in 1..n : script[e[i]].says = <<handled[i]>>
  BY <1>1, <1>2 DEF GenuineAt, CameFrom
<1>4. PICK done, rest : /\ IsSplit(done, rest, SaysOf, Len(script), Said)
                        /\ done[Len(script)] = Sent
  <2>1. Sent = FlattenSeq(SaysOf)
    BY DEF Sent, SaysOf
  <2>2. SaysOf \in Seq(Seq(Said)) /\ Len(SaysOf) = Len(script)
    BY <1>0, ScriptTypes
  <2>3. PICK done, rest :
          /\ IsSplit(done, rest, SaysOf, Len(SaysOf), Said)
          /\ done[Len(SaysOf)] = FlattenSeq(SaysOf)
    BY <2>2, FlattenSplits
  <2> QED
    BY <2>1, <2>2, <2>3
<1> DEFINE f == [i \in 1..n |-> Len(done[e[i]])]
<1>5. \A i \in 1..n : /\ Len(done[e[i]]) \in DOMAIN Sent
                      /\ Sent[Len(done[e[i]])] = handled[i]
                      /\ Len(done[e[i]]) = Len(done[e[i] - 1]) + 1
  <2> TAKE i \in 1..n
  <2>1. PICK k \in DOMAIN script : k = e[i] /\ script[k].says = <<handled[i]>>
    BY <1>3
  <2>2. PICK c : c = handled[i]
    OBVIOUS
  <2>3. script[k].says = <<c>>
    BY <2>1, <2>2
  <2> HIDE DEF f
  <2>4. /\ Len(done[k]) \in DOMAIN Sent /\ Sent[Len(done[k])] = c
        /\ Len(done[k]) = Len(done[k - 1]) + 1
    BY <1>0, <1>4, <2>3, SaysOnce
  <2> QED
    BY <2>1, <2>2, <2>4
<1>6. ASSUME NEW i \in 1..n, NEW j \in 1..n, i < j
      PROVE  Len(done[e[i]]) < Len(done[e[j]])
  <2>1. /\ Len(script) \in Nat /\ DOMAIN script = 1..Len(script)
        /\ SaysOf \in [1..Len(script) -> Seq(Said)]
    BY <1>0, ScriptTypes
  <2>2. /\ e[i] \in 0..Len(script) /\ e[j] - 1 \in 0..Len(script)
        /\ e[i] <= e[j] - 1
    BY <1>3, <1>6, <2>1
  <2>3. Len(done[e[i]]) <= Len(done[e[j] - 1])
    BY <1>4, <2>1, <2>2, SplitIsMonotone
  <2>4. PICK x \in Nat, y \in Nat :
          x = Len(done[e[i]]) /\ y = Len(done[e[j] - 1])
    <3>1. done[e[i]] \in Seq(Said) /\ done[e[j] - 1] \in Seq(Said)
      BY <1>4, <2>2 DEF IsSplit
    <3> QED
      BY <3>1
  <2>5. Len(done[e[j]]) = y + 1
    BY <1>5, <2>4
  <2> QED
    BY <2>3, <2>4, <2>5
<1>7. f \in [DOMAIN handled -> DOMAIN Sent]
  BY <1>2, <1>5
<1>8. /\ \A i, j \in DOMAIN handled : i < j => f[i] < f[j]
      /\ \A i \in DOMAIN handled : handled[i] = Sent[f[i]]
  BY <1>2, <1>5, <1>6
<1> HIDE DEF f
<1> QED
  BY <1>7, <1>8 DEF NothingInvented

\* Whatever damaged frames are on the line, whenever the port fails and
\* however much is lost then: as long as the checksum does what it is for,
\* readSerialCommands carries out nothing that was not sent.
THEOREM NothingInventedUnforged ==
  ASSUME NoForgery  PROVE Spec => []NothingInvented
<1>1. InStep /\ Genuine => NothingInvented
  <2> SUFFICES ASSUME InStep, Genuine  PROVE NothingInvented
    OBVIOUS
  <2>1. CASE RawFree(script)
    BY <2>1, GenuineInventsNothing
  <2>2. CASE Undisturbed
    BY <2>2, InStepInventsNothing
  <2>3. CASE ~RawFree(script) /\ ~Undisturbed
    BY <2>3 DEF NothingInvented
  <2> QED
    BY <2>1, <2>2, <2>3
<1>2. Spec => []Genuine
  BY AlwaysGenuine
<1> QED
  BY <1>1, <1>2, AlwaysInStep, PTL
=============================================================================

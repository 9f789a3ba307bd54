--------------------------- MODULE ReceiverProofs ---------------------------
(***************************************************************************)
(* The receiver delivers the packets of every stream, however it is cut.   *)
(* What a chunk does is stated over the buffer alone (Processed), then     *)
(* carried over to the stream, of which the buffer is a slice.             *)
(***************************************************************************)
EXTENDS Receiver, Foundations

Bytes == 0 .. 255

USE DEF BINARY_PKT_START, TEXT_PKT_FINISH, SizeLen

\* A terminator ends with the e-th byte of s.
Terminates(s, e) == s[e - 3] = 13 /\ s[e - 2] = 10 /\ s[e - 1] = 13 /\ s[e] = 10

\* The first terminator after the i-th byte of s ends with the e-th.
FirstEnd(s, i, e) ==
    /\ e \in i + 4 .. Len(s)
    /\ Terminates(s, e)
    /\ \A f \in i + 4 .. Len(s) : Terminates(s, f) => e <= f

NoEnd(s, i) == \A e \in i + 4 .. Len(s) : ~ Terminates(s, e)

-----------------------------------------------------------------------------
(* Terminators and sizes.                                                  *)

LEMMA TerminatorSlice ==
    ASSUME NEW s \in Seq(Bytes), NEW e \in 4 .. Len(s)
    PROVE  SubSeq(s, e - 3, e) = <<13, 10, 13, 10>> <=> Terminates(s, e)
<1> DEFINE t == SubSeq(s, e - 3, e)
           u == <<13, 10, 13, 10>>
<1>1. Len(s) \in Nat
  BY LenProperties
<1>2. /\ t \in Seq(Bytes) /\ Len(t) = e - (e - 3) + 1
      /\ \A k \in 1 .. e - (e - 3) + 1 : t[k] = s[(e - 3) + k - 1]
  BY <1>1, Slice
<1>3. e - (e - 3) + 1 = 4 /\ (e - 3) + 1 - 1 = e - 3 /\ (e - 3) + 2 - 1 = e - 2 /\ (e - 3) + 3 - 1 = e - 1
      /\ (e - 3) + 4 - 1 = e
  OBVIOUS
<1>4. Len(t) = 4 /\ t[1] = s[e - 3] /\ t[2] = s[e - 2] /\ t[3] = s[e - 1] /\ t[4] = s[e]
  BY <1>2, <1>3
<1>5. u \in Seq(Bytes) /\ Len(u) = 4 /\ u[1] = 13 /\ u[2] = 10 /\ u[3] = 13 /\ u[4] = 10
  BY DEF Bytes
<1> HIDE DEF t, u
<1>6. Terminates(s, e) => t = u
  <2>1. SUFFICES ASSUME Terminates(s, e) PROVE t = u
    OBVIOUS
  <2>2. \A k \in 1 .. Len(t) : t[k] = u[k]
    BY <1>4, <1>5, <2>1 DEF Terminates
  <2>3. QED
    BY <1>2, <1>4, <1>5, <2>2, SeqEqual
<1>7. t = u => Terminates(s, e)
  BY <1>4, <1>5 DEF Terminates
<1>8. QED
  BY <1>6, <1>7 DEF t, u

LEMMA NumberNat ==
    ASSUME NEW s \in Seq(Bytes), NEW i \in Nat, i + 4 <= Len(s)
    PROVE  /\ Number(SubSeq(s, i + 1, i + 4)) \in Nat
           /\ Number(SubSeq(s, i + 1, i + 4))
                = s[i + 1] + ByteBase * (s[i + 2] + ByteBase * (s[i + 3] + ByteBase * s[i + 4]))
<1> DEFINE t == SubSeq(s, i + 1, i + 4)
<1>1. Len(s) \in Nat /\ ByteBase \in Nat
  BY LenProperties, StreamsAssumption
<1>2. /\ t \in Seq(Bytes)
      /\ \A k \in 1 .. (i + 4) - (i + 1) + 1 : t[k] = s[(i + 1) + k - 1]
  BY <1>1, Slice
<1>3. t[1] = s[i + 1] /\ t[2] = s[i + 2] /\ t[3] = s[i + 3] /\ t[4] = s[i + 4]
  BY <1>2
<1>4. s[i + 1] \in Nat /\ s[i + 2] \in Nat /\ s[i + 3] \in Nat /\ s[i + 4] \in Nat
  <2>1. \A k \in 1 .. Len(s) : s[k] \in Bytes
    BY ElementOfSeq
  <2>2. i + 1 \in 1 .. Len(s) /\ i + 2 \in 1 .. Len(s) /\ i + 3 \in 1 .. Len(s) /\ i + 4 \in 1 .. Len(s)
    BY <1>1
  <2>3. Bytes \subseteq Nat
    BY DEF Bytes
  <2>4. QED
    BY <2>1, <2>2, <2>3
<1> HIDE DEF t
<1>5. \A x, y \in Nat : x + ByteBase * y \in Nat
  BY <1>1
<1>6. s[i + 3] + ByteBase * s[i + 4] \in Nat
  BY <1>4, <1>5
<1>7. s[i + 2] + ByteBase * (s[i + 3] + ByteBase * s[i + 4]) \in Nat
  BY <1>4, <1>5, <1>6
<1>8. s[i + 1] + ByteBase * (s[i + 2] + ByteBase * (s[i + 3] + ByteBase * s[i + 4])) \in Nat
  BY <1>4, <1>5, <1>7
<1>9. Number(t) = s[i + 1] + ByteBase * (s[i + 2] + ByteBase * (s[i + 3] + ByteBase * s[i + 4]))
  BY <1>3 DEF Number
<1>10. QED
  BY <1>8, <1>9 DEF t

\* The search finds the first terminator, or there is none.
LEMMA MemmemFinds ==
    ASSUME NEW s \in Seq(Bytes)
    PROVE  \/ memmem(s, TEXT_PKT_FINISH) = -1 /\ NoEnd(s, 0)
           \/ memmem(s, TEXT_PKT_FINISH) \in Nat /\ FirstEnd(s, 0, memmem(s, TEXT_PKT_FINISH) + 4)
<1> DEFINE At == {i \in 0 .. Len(s) - 4 : SubSeq(s, i + 1, i + 4) = <<13, 10, 13, 10>>}
           m == memmem(s, TEXT_PKT_FINISH)
<1>1. Len(s) \in Nat /\ Len(<<13, 10, 13, 10>>) = 4
  BY LenProperties
<1>2. m = IF At = {} THEN -1 ELSE CHOOSE i \in At : \A j \in At : i <= j
  BY <1>1 DEF memmem
<1>3. ASSUME NEW i \in 0 .. Len(s) - 4
      PROVE  i \in At <=> Terminates(s, i + 4)
  <2>1. i + 4 \in 4 .. Len(s) /\ (i + 4) - 3 = i + 1
    BY <1>1
  <2>2. QED
    BY <2>1, TerminatorSlice
<1>4. \A e \in 4 .. Len(s) : e - 4 \in 0 .. Len(s) - 4 /\ (e - 4) + 4 = e
  BY <1>1
<1>5. At \in SUBSET Nat
  BY <1>1
<1>6. At \subseteq 0 .. Len(s) - 4
  OBVIOUS
<1> HIDE DEF At, m
<1>7. CASE At = {}
  <2>1. \A e \in 4 .. Len(s) : ~ Terminates(s, e)
    BY <1>3, <1>4, <1>7
  <2>2. m = -1
    BY <1>2, <1>7
  <2>3. QED
    BY <2>1, <2>2 DEF m, NoEnd
<1>8. CASE At # {}
  <2>1. \E i \in At : \A j \in At : i <= j
    BY <1>5, <1>8, LeastNat
  <2>2. m \in At /\ \A j \in At : m <= j
    BY <1>2, <1>8, <2>1
  <2>3. m \in 0 .. Len(s) - 4 /\ m + 4 \in 4 .. Len(s)
    BY <1>1, <1>6, <2>2
  <2>4. Terminates(s, m + 4)
    BY <1>3, <2>2, <2>3
  <2>5. ASSUME NEW f \in 4 .. Len(s), Terminates(s, f)
        PROVE  m + 4 <= f
    <3>1. f - 4 \in At
      BY <1>3, <1>4, <2>5
    <3>2. QED
      BY <1>1, <2>2, <2>3, <3>1
  <2>6. QED
    BY <2>3, <2>4, <2>5 DEF m, FirstEnd
<1>9. QED
  BY <1>7, <1>8

-----------------------------------------------------------------------------
(* Where a packet ends.                                                    *)

LEMMA EndOfBinary ==
    ASSUME NEW s \in Seq(Bytes), NEW i \in Nat, i < Len(s), s[i + 1] = 36
    PROVE  PacketEnd(s, i) = IF i + 5 <= Len(s) THEN i + 5 + Number(SubSeq(s, i + 2, i + 5)) ELSE Len(s) + 1
BY DEF PacketEnd

LEMMA EndOfText ==
    ASSUME NEW s \in Seq(Bytes), NEW i \in Nat, i < Len(s), s[i + 1] # 36
    PROVE  /\ NoEnd(s, i) => PacketEnd(s, i) = Len(s) + 1
           /\ \A e : FirstEnd(s, i, e) => PacketEnd(s, i) = e
<1> DEFINE T == {e \in i + 4 .. Len(s) : SubSeq(s, e - 3, e) = TEXT_PKT_FINISH}
<1>1. PacketEnd(s, i) = IF T # {} THEN Min(T) ELSE Len(s) + 1
  BY DEF PacketEnd
<1>2. Len(s) \in Nat
  BY LenProperties
<1>3. ASSUME NEW e \in i + 4 .. Len(s)
      PROVE  e \in T <=> Terminates(s, e)
  BY <1>2, TerminatorSlice
<1>4. T \subseteq i + 4 .. Len(s) /\ T \subseteq Int
  BY <1>2
<1> HIDE DEF T
<1>5. NoEnd(s, i) => T = {}
  BY <1>3, <1>4 DEF NoEnd
<1>6. ASSUME NEW e, FirstEnd(s, i, e)
      PROVE  T # {} /\ Min(T) = e
  <2>1. e \in T /\ \A f \in T : e <= f
    BY <1>3, <1>4, <1>6 DEF FirstEnd
  <2>2. Min(T) \in T /\ \A f \in T : Min(T) <= f
    BY <2>1 DEF Min
  <2>3. e \in Int /\ Min(T) \in Int
    BY <1>4, <2>1, <2>2
  <2>4. QED
    BY <2>1, <2>2, <2>3
<1>7. QED
  BY <1>1, <1>5, <1>6

LEMMA FirstOrNone ==
    ASSUME NEW s \in Seq(Bytes), NEW i \in Nat
    PROVE  NoEnd(s, i) \/ \E e \in Nat : FirstEnd(s, i, e)
<1> DEFINE T == {e \in i + 4 .. Len(s) : Terminates(s, e)}
<1>1. Len(s) \in Nat
  BY LenProperties
<1>2. T \in SUBSET Nat
  BY <1>1
<1>3. CASE T = {}
  BY <1>3 DEF NoEnd
<1>4. CASE T # {}
  <2>1. PICK e \in T : \A f \in T : e <= f
    BY <1>2, <1>4, LeastNat
  <2>2. e \in Nat /\ FirstEnd(s, i, e)
    BY <1>2, <2>1 DEF FirstEnd
  <2>3. QED
    BY <2>2
<1>5. QED
  BY <1>3, <1>4

\* A packet is not empty.
LEMMA EndIsAhead ==
    ASSUME NEW s \in Seq(Bytes), NEW i \in Nat
    PROVE  PacketEnd(s, i) \in Nat /\ (i <= Len(s) => i < PacketEnd(s, i))
<1>1. Len(s) \in Nat
  BY LenProperties
<1>2. CASE i >= Len(s)
  BY <1>1, <1>2 DEF PacketEnd
<1>3. CASE i < Len(s) /\ s[i + 1] = 36
  <2>1. CASE i + 5 <= Len(s)
    <3>1. i + 1 \in Nat /\ (i + 1) + 1 = i + 2 /\ (i + 1) + 4 = i + 5
      OBVIOUS
    <3>2. Number(SubSeq(s, i + 2, i + 5)) \in Nat
      BY <2>1, <3>1, NumberNat
    <3>3. QED
      BY <1>3, <2>1, <3>2, EndOfBinary
  <2>2. CASE ~ (i + 5 <= Len(s))
    BY <1>1, <1>3, <2>2, EndOfBinary
  <2>3. QED
    BY <2>1, <2>2
<1>4. CASE i < Len(s) /\ s[i + 1] # 36
  <2>1. CASE NoEnd(s, i)
    BY <1>1, <1>4, <2>1, EndOfText
  <2>2. ASSUME NEW e \in Nat, FirstEnd(s, i, e)
        PROVE  PacketEnd(s, i) \in Nat /\ i < PacketEnd(s, i)
    <3>1. PacketEnd(s, i) = e
      BY <1>4, <2>2, EndOfText
    <3>2. QED
      BY <1>1, <2>2, <3>1 DEF FirstEnd
  <2>3. QED
    BY <2>1, <2>2, FirstOrNone
<1>5. QED
  BY <1>1, <1>2, <1>3, <1>4

\* The packet after the i-th byte of s is in its first n bytes just when d begins
\* with a whole packet, and they are the same.
SamePacket(s, i, n, d) ==
    /\ PacketEnd(d, 0) <= Len(d) <=> PacketEnd(s, i) <= n
    /\ PacketEnd(d, 0) <= Len(d) =>
          /\ PacketEnd(s, i) = i + PacketEnd(d, 0)
          /\ PacketIn(s, i, PacketEnd(s, i)) = PacketIn(d, 0, PacketEnd(d, 0))

\* The end of a packet, and what is in it, can be told from the part of the
\* stream that begins with it, as soon as that part contains it.
LEMMA EndInSlice ==
    ASSUME NEW s \in Seq(Bytes), NEW i \in Nat, NEW n \in Nat, i <= n, n <= Len(s)
    PROVE  SamePacket(s, i, n, SubSeq(s, i + 1, n))
<1> DEFINE d == SubSeq(s, i + 1, n)
<1>1. Len(s) \in Nat
  BY LenProperties
<1>2. d \in Seq(Bytes) /\ Len(d) = n - i /\ \A k \in 1 .. n - i : d[k] = s[i + k]
  <2>1. n - (i + 1) + 1 = n - i /\ \A k \in 1 .. n - i : (i + 1) + k - 1 = i + k
    OBVIOUS
  <2>2. QED
    BY <1>1, <2>1, Slice
<1>d. d = SubSeq(s, i + 1, n)
  OBVIOUS
<1> SUFFICES /\ PacketEnd(d, 0) <= Len(d) <=> PacketEnd(s, i) <= n
             /\ PacketEnd(d, 0) <= Len(d) =>
                   /\ PacketEnd(s, i) = i + PacketEnd(d, 0)
                   /\ PacketIn(s, i, PacketEnd(s, i)) = PacketIn(d, 0, PacketEnd(d, 0))
  BY DEF SamePacket
<1> HIDE DEF d
<1>3. CASE i = n
  <2>1. PacketEnd(d, 0) \in Nat /\ 0 < PacketEnd(d, 0)
    <3>1. 0 \in Nat /\ 0 <= Len(d)
      BY <1>2
    <3>2. QED
      BY <1>2, <3>1, EndIsAhead
  <2>2. PacketEnd(s, i) \in Nat /\ i < PacketEnd(s, i)
    <3>1. i <= Len(s)
      BY <1>1
    <3>2. QED
      BY <3>1, EndIsAhead
  <2>3. QED
    BY <1>2, <1>3, <2>1, <2>2
<1>4. CASE i < n /\ s[i + 1] = 36
  <2>1. d[1] = 36
    BY <1>2, <1>4
  <2>2. PacketEnd(s, i) = IF i + 5 <= Len(s) THEN i + 5 + Number(SubSeq(s, i + 2, i + 5)) ELSE Len(s) + 1
    BY <1>4, EndOfBinary
  <2>3. PacketEnd(d, 0) = IF 5 <= Len(d) THEN 5 + Number(SubSeq(d, 2, 5)) ELSE Len(d) + 1
    <3>1. 0 \in Nat /\ 0 < Len(d) /\ 0 + 1 = 1 /\ 0 + 5 = 5 /\ 0 + 2 = 2
      BY <1>2, <1>4
    <3>2. d[0 + 1] = 36
      BY <2>1, <3>1
    <3>3. PacketEnd(d, 0) = IF 0 + 5 <= Len(d) THEN 0 + 5 + Number(SubSeq(d, 0 + 2, 0 + 5)) ELSE Len(d) + 1
      BY <1>2, <3>1, <3>2, EndOfBinary
    <3>4. QED
      BY <3>1, <3>3
  <2>4. CASE i + 5 <= n
    <3>1. SubSeq(d, 2, 5) = SubSeq(s, (i + 1) + 2 - 1, (i + 1) + 5 - 1)
      BY <1>1, <2>4, <1>d, SliceOfSlice
    <3>2. (i + 1) + 2 - 1 = i + 2 /\ (i + 1) + 5 - 1 = i + 5
      OBVIOUS
    <3>3. SubSeq(d, 2, 5) = SubSeq(s, i + 2, i + 5)
      BY <3>1, <3>2
    <3> DEFINE m == Number(SubSeq(d, 2, 5))
    <3>4. m \in Nat
      <4>1. 1 + 4 <= Len(d) /\ 1 + 1 = 2 /\ 1 + 4 = 5
        BY <1>2, <2>4
      <4>2. QED
        BY <1>2, <4>1, NumberNat
    <3>5. PacketEnd(s, i) = i + 5 + m /\ PacketEnd(d, 0) = 5 + m
      <4>1. i + 5 <= Len(s) /\ 5 <= Len(d)
        BY <1>1, <1>2, <2>4
      <4>2. QED
        BY <2>2, <2>3, <3>3, <4>1
    <3> HIDE DEF m
    <3>6. ASSUME PacketEnd(d, 0) <= Len(d)
          PROVE  PacketIn(s, i, PacketEnd(s, i)) = PacketIn(d, 0, PacketEnd(d, 0))
      <4>1. SubSeq(d, 6, 5 + m) = SubSeq(s, (i + 1) + 6 - 1, (i + 1) + (5 + m) - 1)
        BY <1>1, <1>2, <3>4, <3>5, <3>6, <1>d, SliceOfSlice
      <4>2. (i + 1) + 6 - 1 = i + 6 /\ (i + 1) + (5 + m) - 1 = i + 5 + m /\ 0 + 6 = 6 /\ 0 + 1 = 1
        BY <3>4
      <4>3. QED
        BY <1>4, <2>1, <3>5, <4>1, <4>2 DEF PacketIn
    <3>7. PacketEnd(d, 0) <= Len(d) <=> PacketEnd(s, i) <= n
      BY <1>2, <3>4, <3>5
    <3>8. PacketEnd(s, i) = i + PacketEnd(d, 0)
      BY <3>4, <3>5
    <3>9. QED
      BY <3>6, <3>7, <3>8
  <2>5. CASE ~ (i + 5 <= n)
    <3>1. PacketEnd(d, 0) = Len(d) + 1
      BY <1>2, <2>3, <2>5
    <3>2. PacketEnd(s, i) > n
      <4>1. CASE i + 5 <= Len(s)
        <5>1. (i + 1) + 4 <= Len(s) /\ (i + 1) + 1 = i + 2 /\ (i + 1) + 4 = i + 5 /\ i + 1 \in Nat
          BY <4>1
        <5>2. Number(SubSeq(s, i + 2, i + 5)) \in Nat
          BY <5>1, NumberNat
        <5>3. QED
          BY <2>2, <2>5, <4>1, <5>2
      <4>2. QED
        BY <1>1, <2>2, <4>1
    <3>3. PacketEnd(s, i) \in Nat
      BY EndIsAhead
    <3>4. QED
      BY <1>1, <1>2, <3>1, <3>2, <3>3
  <2>6. QED
    BY <2>4, <2>5
<1>5. CASE i < n /\ s[i + 1] # 36
  <2>1. d[1] # 36
    BY <1>2, <1>5
  <2>2. ASSUME NEW e \in 4 .. n - i
        PROVE  Terminates(d, e) <=> Terminates(s, i + e)
    <3> DEFINE J == {e - 3, e - 2, e - 1, e}
    <3>0. \A j \in J : j \in 1 .. n - i
      OBVIOUS
    <3>1. \A j \in J : d[j] = s[i + j]
      BY <1>2, <3>0
    <3>2. i + (e - 3) = (i + e) - 3 /\ i + (e - 2) = (i + e) - 2 /\ i + (e - 1) = (i + e) - 1
      OBVIOUS
    <3>3. QED
      BY <3>1, <3>2 DEF Terminates
  <2>3. ASSUME NEW e \in Nat, FirstEnd(d, 0, e)
        PROVE  FirstEnd(s, i, i + e)
    <3>1. e \in 4 .. n - i /\ Terminates(d, e) /\ \A f \in 4 .. n - i : Terminates(d, f) => e <= f
      BY <1>2, <2>3 DEF FirstEnd
    <3>2. i + e \in i + 4 .. Len(s) /\ Terminates(s, i + e)
      BY <1>1, <2>2, <3>1
    <3>3. ASSUME NEW f \in i + 4 .. Len(s), Terminates(s, f)
          PROVE  i + e <= f
      <4>1. CASE f <= n
        <5>1. f - i \in 4 .. n - i /\ i + (f - i) = f
          BY <1>1, <4>1
        <5>2. Terminates(d, f - i)
          BY <2>2, <3>3, <5>1
        <5>3. e <= f - i
          BY <3>1, <5>1, <5>2
        <5>4. QED
          BY <1>1, <3>1, <5>3
      <4>2. CASE ~ (f <= n)
        BY <1>1, <3>1, <4>2
      <4>3. QED
        BY <4>1, <4>2
    <3>4. QED
      BY <3>2, <3>3 DEF FirstEnd
  <2>4. ASSUME NoEnd(d, 0), NEW e \in Nat, FirstEnd(s, i, e)
        PROVE  e > n
    <3>1. SUFFICES ASSUME e <= n PROVE FALSE
      BY <2>4
    <3>2. e - i \in 4 .. n - i /\ i + (e - i) = e /\ Terminates(s, e)
      BY <1>1, <2>4, <3>1 DEF FirstEnd
    <3>3. Terminates(d, e - i)
      BY <2>2, <3>2
    <3>4. \A f \in 4 .. n - i : ~ Terminates(d, f)
      BY <1>2, <2>4 DEF NoEnd
    <3>5. QED
      BY <3>2, <3>3, <3>4
  <2>5. 0 < Len(d) /\ d[0 + 1] # 36 /\ i < Len(s)
    BY <1>1, <1>2, <1>5, <2>1
  <2>6. CASE NoEnd(d, 0)
    <3>1. PacketEnd(d, 0) = Len(d) + 1
      BY <1>2, <2>5, <2>6, EndOfText
    <3>2. PacketEnd(s, i) > n
      <4>1. CASE NoEnd(s, i)
        BY <1>1, <1>5, <2>5, <4>1, EndOfText
      <4>2. ASSUME NEW e \in Nat, FirstEnd(s, i, e)
            PROVE  PacketEnd(s, i) > n
        BY <1>5, <2>4, <2>5, <2>6, <4>2, EndOfText
      <4>3. QED
        BY <4>1, <4>2, FirstOrNone
    <3>3. PacketEnd(s, i) \in Nat
      BY EndIsAhead
    <3>4. QED
      BY <1>1, <1>2, <3>1, <3>2, <3>3
  <2>7. ASSUME NEW e \in Nat, FirstEnd(d, 0, e)
        PROVE  /\ PacketEnd(d, 0) = e /\ e \in 4 .. n - i /\ PacketEnd(s, i) = i + e
               /\ PacketIn(s, i, i + e) = PacketIn(d, 0, e)
    <3>1. PacketEnd(d, 0) = e /\ PacketEnd(s, i) = i + e
      BY <1>2, <1>5, <2>3, <2>5, <2>7, EndOfText
    <3>2. e \in 4 .. n - i
      BY <1>2, <2>7 DEF FirstEnd
    <3>3. SubSeq(d, 1, e - 4) = SubSeq(s, (i + 1) + 1 - 1, (i + 1) + (e - 4) - 1)
      BY <1>1, <3>2, <1>d, SliceOfSlice
    <3>4. (i + 1) + 1 - 1 = i + 1 /\ (i + 1) + (e - 4) - 1 = (i + e) - 4 /\ 0 + 1 = 1
      OBVIOUS
    <3>5. PacketIn(s, i, i + e) = PacketIn(d, 0, e)
      BY <1>5, <2>1, <3>3, <3>4 DEF PacketIn
    <3>6. QED
      BY <3>1, <3>2, <3>5
  <2>8. ASSUME NEW e \in Nat, FirstEnd(d, 0, e)
        PROVE  /\ PacketEnd(d, 0) <= Len(d) /\ PacketEnd(s, i) <= n
               /\ PacketEnd(s, i) = i + PacketEnd(d, 0)
               /\ PacketIn(s, i, PacketEnd(s, i)) = PacketIn(d, 0, PacketEnd(d, 0))
    BY <1>2, <2>7, <2>8
  <2>9. QED
    BY <1>2, <2>6, <2>8, FirstOrNone
<1>6. QED
  BY <1>3, <1>4, <1>5

-----------------------------------------------------------------------------
(* What a chunk does to the buffer.                                        *)

PacketType ==
    [type : {"NONE", "BINARY", "TEXT"}, bps : {"NONE", "HEADER", "DATA"}, packetSize : Nat,
     data : Seq(Bytes), reserved : Nat, offset : Nat]

\* A buffer in order.  Of a binary packet the header or the header and the size
\* have been read; of a text a part that no terminator begins in.
Buffered(p) ==
    /\ p \in PacketType
    /\ p.offset <= Len(p.data)
    /\ Len(p.data) <= p.reserved
    /\ p.type = "NONE" => p.offset = 0
    /\ p.type = "BINARY" =>
          /\ 0 < Len(p.data) /\ p.data[1] = 36
          /\ \/ p.bps = "HEADER" /\ p.offset = 1
             \/ p.bps = "DATA" /\ p.offset = 5 /\ p.packetSize = Number(SubSeq(p.data, 2, 5))
    /\ p.type = "TEXT" =>
          /\ 0 < Len(p.data) /\ p.data[1] # 36
          /\ p.offset = 0 \/ p.offset + 4 <= Len(p.data)
          /\ \A e \in 4 .. p.offset + 3 : ~ Terminates(p.data, e)

\* r is what must come of a buffer with the bytes d: the packet that they begin
\* with is delivered and taken out, if they hold all of it.
Processed(d, r) ==
    /\ Buffered(r.packet)
    /\ PacketEnd(d, 0) <= Len(d) =>
          /\ r.packet.data = SubSeq(d, PacketEnd(d, 0) + 1, Len(d))
          /\ r.delivered = <<PacketIn(d, 0, PacketEnd(d, 0))>>
    /\ ~ (PacketEnd(d, 0) <= Len(d)) => r.packet.data = d /\ r.delivered = <<>>

LEMMA AppendBuffered ==
    ASSUME NEW p, Buffered(p), NEW chunk \in Seq(Bytes)
    PROVE  Buffered(append(p, chunk)) /\ append(p, chunk).data = p.data \o chunk
<1> DEFINE q == append(p, chunk)
<1>1. p \in PacketType /\ p.data \in Seq(Bytes)
  BY DEF Buffered, PacketType
<1>2. Len(p.data) \in Nat /\ Len(chunk) \in Nat
  BY <1>1, LenProperties
<1>3. /\ p.data \o chunk \in Seq(Bytes) /\ Len(p.data \o chunk) = Len(p.data) + Len(chunk)
      /\ \A k \in 1 .. Len(p.data) : (p.data \o chunk)[k] = p.data[k]
  <2>1. /\ p.data \o chunk \in Seq(Bytes) /\ Len(p.data \o chunk) = Len(p.data) + Len(chunk)
        /\ \A k \in 1 .. Len(p.data) + Len(chunk) :
              (p.data \o chunk)[k] = IF k <= Len(p.data) THEN p.data[k] ELSE chunk[k - Len(p.data)]
    BY <1>1, ConcatProperties
  <2>2. QED
    BY <1>2, <2>1
<1>4. /\ q \in PacketType /\ q.data = p.data \o chunk
      /\ q.type = p.type /\ q.bps = p.bps /\ q.packetSize = p.packetSize /\ q.offset = p.offset
      /\ Len(p.data) + Len(chunk) <= q.reserved
  <2> DEFINE c == p.data \o chunk
             n == IF p.reserved < Len(p.data) + Len(chunk) THEN Len(p.data) + Len(chunk) ELSE p.reserved
  <2>1. n \in Nat /\ Len(p.data) + Len(chunk) <= n
    BY <1>1, <1>2 DEF PacketType
  <2>2. q = [p EXCEPT !.data = c, !.reserved = n]
    BY DEF append
  <2> HIDE DEF n, c, q
  <2>3. c \in Seq(Bytes)
    BY <1>3 DEF c
  <2>4. /\ q \in PacketType /\ q.data = c /\ q.reserved = n
        /\ q.type = p.type /\ q.bps = p.bps /\ q.packetSize = p.packetSize /\ q.offset = p.offset
    BY <1>1, <2>1, <2>2, <2>3 DEF PacketType
  <2>5. QED
    BY <2>1, <2>4 DEF c
<1> HIDE DEF q
<1>5. q.offset <= Len(q.data) /\ Len(q.data) <= q.reserved
  BY <1>1, <1>2, <1>3, <1>4 DEF Buffered, PacketType
<1>6. ASSUME q.type = "BINARY"
      PROVE  /\ 0 < Len(q.data) /\ q.data[1] = 36
             /\ \/ q.bps = "HEADER" /\ q.offset = 1
                \/ q.bps = "DATA" /\ q.offset = 5 /\ q.packetSize = Number(SubSeq(q.data, 2, 5))
  <2>1. 0 < Len(q.data) /\ q.data[1] = 36
    BY <1>2, <1>3, <1>4, <1>6 DEF Buffered
  <2>2. CASE p.bps = "HEADER" /\ p.offset = 1
    BY <1>4, <2>1, <2>2
  <2>3. CASE p.bps = "DATA" /\ p.offset = 5 /\ p.packetSize = Number(SubSeq(p.data, 2, 5))
    <3>1. 5 <= Len(p.data)
      BY <2>3 DEF Buffered
    <3>2. SubSeq(p.data \o chunk, 2, 5) = SubSeq(p.data, 2, 5)
      BY <1>1, <1>2, <3>1, SubSeqOfConcat1
    <3>3. QED
      BY <1>4, <2>1, <2>3, <3>2
  <2>4. QED
    BY <1>4, <1>6, <2>2, <2>3 DEF Buffered
<1>7. ASSUME q.type = "TEXT"
      PROVE  /\ 0 < Len(q.data) /\ q.data[1] # 36
             /\ q.offset = 0 \/ q.offset + 4 <= Len(q.data)
             /\ \A e \in 4 .. q.offset + 3 : ~ Terminates(q.data, e)
  <2>1. /\ 0 < Len(p.data) /\ p.data[1] # 36
        /\ p.offset = 0 \/ p.offset + 4 <= Len(p.data)
        /\ \A e \in 4 .. p.offset + 3 : ~ Terminates(p.data, e)
    BY <1>4, <1>7 DEF Buffered
  <2>2. p.offset \in Nat
    BY <1>1 DEF PacketType
  <2>3. ASSUME NEW e \in 4 .. p.offset + 3
        PROVE  ~ Terminates(p.data \o chunk, e)
    <3> DEFINE J == {e - 3, e - 2, e - 1, e}
    <3>1. \A j \in J : j \in 1 .. Len(p.data)
      BY <1>2, <2>1, <2>2
    <3>2. \A j \in J : (p.data \o chunk)[j] = p.data[j]
      BY <1>3, <3>1
    <3>3. QED
      BY <2>1, <3>2 DEF Terminates
  <2>4. QED
    BY <1>2, <1>3, <1>4, <2>1, <2>2, <2>3
<1>8. q.type = "NONE" => q.offset = 0
  BY <1>4 DEF Buffered
<1>9. QED
  BY <1>4, <1>5, <1>6, <1>7, <1>8 DEF Buffered, q

\* A packet that the processors have found whole.
LEMMA FinishedProcessed ==
    ASSUME NEW p \in PacketType, NEW data, NEW size \in Nat,
           p.offset + size <= Len(p.data), Len(p.data) <= p.reserved,
           PacketEnd(p.data, 0) = p.offset + size,
           PacketIn(p.data, 0, p.offset + size) = Delivered(p.type, data)
    PROVE  Processed(p.data, packetFinished(p, data, size))
<1> DEFINE r == packetFinished(p, data, size)
           e == p.offset + size
<1>1. p.data \in Seq(Bytes) /\ Len(p.data) \in Nat /\ e \in Nat /\ p.reserved \in Nat
  BY LenProperties DEF PacketType
<1>2. SubSeq(p.data, e + 1, Len(p.data)) \in Seq(Bytes) /\ Len(SubSeq(p.data, e + 1, Len(p.data))) = Len(p.data) - e
  <2>1. 1 <= e + 1 /\ e + 1 <= Len(p.data) + 1 /\ Len(p.data) - (e + 1) + 1 = Len(p.data) - e
    BY <1>1
  <2>2. QED
    BY <1>1, <2>1, Slice
<1>3. /\ r.packet \in PacketType
      /\ r.packet.data = SubSeq(p.data, e + 1, Len(p.data))
      /\ r.packet.type = "NONE" /\ r.packet.offset = 0 /\ r.packet.reserved = p.reserved
  BY <1>2 DEF packetFinished, shift, dataRead, getData, PacketType
<1>4. r.delivered = <<PacketIn(p.data, 0, e)>>
  BY DEF packetFinished
<1> HIDE DEF r, e
<1>5. Buffered(r.packet)
  <2>1. 0 <= Len(r.packet.data) /\ Len(r.packet.data) <= r.packet.reserved
    BY <1>1, <1>2, <1>3
  <2>2. QED
    BY <1>3, <2>1 DEF Buffered
<1>6. QED
  BY <1>3, <1>4, <1>5 DEF Processed, r, e

LEMMA BinaryDataProcessed ==
    ASSUME NEW p, Buffered(p), p.type = "BINARY", p.bps = "DATA"
    PROVE  Processed(p.data, binaryPacketData(p))
<1> DEFINE d == p.data
<1>1. /\ p \in PacketType /\ d \in Seq(Bytes) /\ Len(d) \in Nat /\ p.packetSize \in Nat
      /\ p.offset = 5 /\ 5 <= Len(d) /\ d[1] = 36 /\ p.packetSize = Number(SubSeq(d, 2, 5))
  BY LenProperties DEF Buffered, PacketType
<1>2. PacketEnd(d, 0) = 5 + p.packetSize
  <2>1. 0 < Len(d) /\ d[0 + 1] = 36 /\ 0 + 5 = 5 /\ 0 + 2 = 2
    BY <1>1
  <2>2. QED
    BY <1>1, <2>1, EndOfBinary
<1>3. CASE Len(d) - 5 < p.packetSize
  <2>1. binaryPacketData(p) = [packet |-> p, delivered |-> <<>>]
    BY <1>1, <1>3 DEF binaryPacketData, dataAvailable, Waiting
  <2>2. ~ (PacketEnd(d, 0) <= Len(d))
    BY <1>1, <1>2, <1>3
  <2>3. QED
    BY <2>1, <2>2 DEF Processed
<1>4. CASE ~ (Len(d) - 5 < p.packetSize)
  <2> DEFINE data == SubSeq(d, 6, 5 + p.packetSize)
  <2>1. binaryPacketData(p) = packetFinished(p, data, p.packetSize)
    BY <1>1, <1>4 DEF binaryPacketData, dataAvailable
  <2>2. PacketIn(d, 0, 5 + p.packetSize) = Delivered("BINARY", data)
    BY <1>1 DEF PacketIn
  <2>3. p.offset + p.packetSize <= Len(d) /\ Len(d) <= p.reserved
    BY <1>1, <1>4 DEF Buffered
  <2>4. QED
    BY <1>1, <1>2, <2>1, <2>2, <2>3, FinishedProcessed
<1>5. QED
  BY <1>3, <1>4

LEMMA BinaryHeaderProcessed ==
    ASSUME NEW p, Buffered(p), p.type = "BINARY", p.bps = "HEADER"
    PROVE  Processed(p.data, binaryPacketHeader(p))
<1> DEFINE d == p.data
<1>1. /\ p \in PacketType /\ d \in Seq(Bytes) /\ Len(d) \in Nat
      /\ p.offset = 1 /\ 1 <= Len(d) /\ d[1] = 36 /\ Len(d) <= p.reserved
  BY LenProperties DEF Buffered, PacketType
<1>2. CASE Len(d) - 1 < 4
  <2>1. binaryPacketHeader(p) = [packet |-> p, delivered |-> <<>>]
    BY <1>1, <1>2 DEF binaryPacketHeader, dataAvailable, Waiting
  <2>2. PacketEnd(d, 0) = Len(d) + 1
    BY <1>1, <1>2, EndOfBinary
  <2>3. ~ (PacketEnd(d, 0) <= Len(d))
    BY <1>1, <2>2
  <2>4. QED
    BY <2>1, <2>3 DEF Processed
<1>3. CASE ~ (Len(d) - 1 < 4)
  <2> DEFINE m == Number(SubSeq(d, 2, 5))
             q == [dataRead(p, 4) EXCEPT !.packetSize = m, !.bps = "DATA"]
  <2>1. m \in Nat
    <3>1. 1 + 4 <= Len(d) /\ 1 + 1 = 2 /\ 1 + 4 = 5
      BY <1>1, <1>3
    <3>2. QED
      BY <1>1, <3>1, NumberNat
  <2>2. SubSeq(getData(p), 1, 4) = SubSeq(d, 2, 5)
    <3>1. SubSeq(SubSeq(d, 2, Len(d)), 1, 4) = SubSeq(d, 2 + 1 - 1, 2 + 4 - 1)
      BY <1>1, <1>3, SliceOfSlice
    <3>2. getData(p) = SubSeq(d, 2, Len(d)) /\ 2 + 1 - 1 = 2 /\ 2 + 4 - 1 = 5
      BY <1>1 DEF getData
    <3>3. QED
      BY <3>1, <3>2
  <2>3. binaryPacketHeader(p) = binaryPacketData(q)
    BY <1>1, <1>3, <2>2 DEF binaryPacketHeader, dataAvailable
  <2> HIDE DEF m
  <2>4. /\ q \in PacketType /\ q.data = d /\ q.offset = 5 /\ q.packetSize = m /\ q.bps = "DATA"
        /\ q.type = "BINARY" /\ q.reserved = p.reserved
    <3> DEFINE o == dataRead(p, 4)
    <3>1. /\ o \in PacketType /\ o.data = d /\ o.offset = 5 /\ o.type = "BINARY" /\ o.reserved = p.reserved
      BY <1>1 DEF PacketType, dataRead
    <3> HIDE DEF o
    <3>2. q = [o EXCEPT !.packetSize = m, !.bps = "DATA"]
      BY DEF o
    <3> HIDE DEF q
    <3>3. QED
      BY <2>1, <3>1, <3>2 DEF PacketType
  <2> HIDE DEF q
  <2>5. Buffered(q)
    BY <1>1, <1>3, <2>4 DEF Buffered, m
  <2>6. QED
    BY <2>3, <2>4, <2>5, BinaryDataProcessed
<1>4. QED
  BY <1>2, <1>3

LEMMA TextProcessed ==
    ASSUME NEW p, Buffered(p), p.type = "TEXT"
    PROVE  Processed(p.data, packetContinueText(p))
<1> DEFINE d == p.data
           rest == getData(p)
           found == memmem(rest, TEXT_PKT_FINISH)
<1>1. /\ p \in PacketType /\ d \in Seq(Bytes) /\ Len(d) \in Nat /\ p.offset \in 0 .. Len(d)
      /\ 0 < Len(d) /\ d[1] # 36 /\ Len(d) <= p.reserved
      /\ \A e \in 4 .. p.offset + 3 : ~ Terminates(d, e)
  BY LenProperties DEF Buffered, PacketType
<1>2. /\ rest \in Seq(Bytes) /\ Len(rest) = Len(d) - p.offset
      /\ \A k \in 1 .. Len(d) - p.offset : rest[k] = d[p.offset + k]
  <2>1. /\ 1 <= p.offset + 1 /\ p.offset + 1 <= Len(d) + 1 /\ Len(d) - (p.offset + 1) + 1 = Len(d) - p.offset
        /\ \A k \in 1 .. Len(d) - p.offset : (p.offset + 1) + k - 1 = p.offset + k
    <3> DEFINE o == p.offset
               l == Len(d)
    <3>1. o \in Nat /\ l \in Nat /\ o <= l
      BY <1>1
    <3> HIDE DEF o, l
    <3>2. /\ 1 <= o + 1 /\ o + 1 <= l + 1 /\ l - (o + 1) + 1 = l - o
          /\ \A k \in 1 .. l - o : (o + 1) + k - 1 = o + k
      BY <3>1
    <3>3. QED
      BY <3>2 DEF o, l
  <2>2. /\ SubSeq(d, p.offset + 1, Len(d)) \in Seq(Bytes)
        /\ Len(SubSeq(d, p.offset + 1, Len(d))) = Len(d) - (p.offset + 1) + 1
        /\ \A k \in 1 .. Len(d) - (p.offset + 1) + 1 :
              SubSeq(d, p.offset + 1, Len(d))[k] = d[(p.offset + 1) + k - 1]
    <3>1. p.offset + 1 \in Int /\ Len(d) \in Int /\ Len(d) <= Len(d)
      BY <1>1
    <3> HIDE DEF d
    <3>2. QED
      BY <1>1, <2>1, <3>1, Slice
  <2>3. rest = SubSeq(d, p.offset + 1, Len(d))
    BY DEF getData
  <2> HIDE DEF d, rest
  <2>4. QED
    BY <2>1, <2>2, <2>3
<1>3. ASSUME NEW e \in 4 .. Len(d) - p.offset
      PROVE  Terminates(rest, e) <=> Terminates(d, p.offset + e)
  <2> DEFINE J == {e - 3, e - 2, e - 1, e}
  <2> HIDE DEF rest
  <2>1. \A j \in J : j \in 1 .. Len(d) - p.offset
    BY <1>1
  <2>2. \A j \in J : rest[j] = d[p.offset + j]
    BY <1>2, <2>1
  <2>3. /\ p.offset + (e - 3) = (p.offset + e) - 3 /\ p.offset + (e - 2) = (p.offset + e) - 2
        /\ p.offset + (e - 1) = (p.offset + e) - 1
    <3> DEFINE o == p.offset
    <3>1. o \in Int /\ e \in Int
      BY <1>1
    <3> HIDE DEF o
    <3>2. o + (e - 3) = (o + e) - 3 /\ o + (e - 2) = (o + e) - 2 /\ o + (e - 1) = (o + e) - 1
      BY <3>1
    <3>3. QED
      BY <3>2 DEF o
  <2>4. QED
    BY <2>2, <2>3 DEF Terminates
<1>4. 0 < Len(d) /\ d[0 + 1] # 36
  BY <1>1
<1>5. \/ found = -1 /\ NoEnd(rest, 0)
      \/ found \in Nat /\ FirstEnd(rest, 0, found + 4)
  BY <1>2, MemmemFinds
<1> HIDE DEF rest, found
<1>6. CASE found # -1
  <2> DEFINE e == p.offset + (found + 4)
  <2>1. found \in Nat /\ found + 4 \in 4 .. Len(d) - p.offset /\ Terminates(rest, found + 4)
        /\ \A f \in 4 .. Len(d) - p.offset : Terminates(rest, f) => found + 4 <= f
    BY <1>2, <1>5, <1>6 DEF FirstEnd
  <2>2. e \in 4 .. Len(d) /\ Terminates(d, e)
    BY <1>1, <1>3, <2>1
  <2>3. ASSUME NEW f \in 4 .. Len(d), Terminates(d, f)
        PROVE  e <= f
    <3>1. ~ (f <= p.offset + 3)
      BY <1>1, <2>3
    <3>2. f - p.offset \in 4 .. Len(d) - p.offset /\ p.offset + (f - p.offset) = f
      BY <1>1, <3>1
    <3>3. found + 4 <= f - p.offset
      BY <1>3, <2>1, <2>3, <3>2
    <3>4. QED
      BY <1>1, <2>1, <3>3
  <2>4. FirstEnd(d, 0, e)
    BY <2>2, <2>3 DEF FirstEnd
  <2>5. PacketEnd(d, 0) = e
    BY <1>1, <1>4, <2>4, EndOfText
  <2> DEFINE data == SubSeq(d, 1, p.offset + found)
  <2>6. packetContinueText(p) = packetFinished(p, data, found + 4)
    BY <1>6 DEF packetContinueText, rest, found
  <2>7. e - 4 = p.offset + found
    <3>1. p.offset \in Int /\ found \in Int
      BY <1>1, <2>1
    <3>2. QED
      BY <3>1
  <2>8. PacketIn(d, 0, e) = Delivered("TEXT", data)
    BY <1>4, <2>7 DEF PacketIn
  <2>9. QED
    BY <1>1, <2>1, <2>2, <2>5, <2>6, <2>8, FinishedProcessed
<1>7. CASE found = -1
  <2>1. ASSUME NEW e \in 4 .. Len(d)
        PROVE  ~ Terminates(d, e)
    <3>1. CASE e <= p.offset + 3
      BY <1>1, <3>1
    <3>2. CASE ~ (e <= p.offset + 3)
      <4>1. e - p.offset \in 4 .. Len(d) - p.offset /\ p.offset + (e - p.offset) = e
        BY <1>1, <3>2
      <4>2. ~ Terminates(rest, e - p.offset)
        BY <1>2, <1>5, <1>7, <4>1 DEF NoEnd
      <4>3. QED
        BY <1>3, <4>1, <4>2
    <3>3. QED
      BY <3>1, <3>2
  <2>2. ~ (PacketEnd(d, 0) <= Len(d))
    <3>1. NoEnd(d, 0)
      BY <2>1 DEF NoEnd
    <3>2. PacketEnd(d, 0) = Len(d) + 1
      BY <1>1, <1>4, <3>1, EndOfText
    <3>3. QED
      BY <1>1, <3>2
  <2>3. CASE dataAvailable(p) >= 4
    <3> DEFINE q == [p EXCEPT !.offset = Len(d) - 4]
    <3>1. Len(d) - 4 \in Nat /\ p.offset + ((Len(d) - p.offset) - 4) = Len(d) - 4
      BY <1>1, <2>3 DEF dataAvailable
    <3>2. packetContinueText(p) = [packet |-> q, delivered |-> <<>>]
      BY <1>1, <1>7, <2>3, <3>1 DEF packetContinueText, dataAvailable, dataRead, Waiting, rest, found
    <3>3. /\ q \in PacketType /\ q.data = d /\ q.offset = Len(d) - 4 /\ q.type = "TEXT"
          /\ q.reserved = p.reserved
      BY <1>1, <3>1 DEF PacketType
    <3> HIDE DEF q
    <3>4. Buffered(q)
      BY <1>1, <2>1, <3>1, <3>3 DEF Buffered
    <3>5. QED
      BY <2>2, <3>2, <3>3, <3>4 DEF Processed
  <2>4. CASE ~ (dataAvailable(p) >= 4)
    <3>1. packetContinueText(p) = [packet |-> p, delivered |-> <<>>]
      BY <1>7, <2>4 DEF packetContinueText, Waiting, rest, found
    <3>2. QED
      BY <2>2, <3>1 DEF Processed
  <2>5. QED
    BY <2>3, <2>4
<1>8. QED
  BY <1>6, <1>7

\* One call of the processors does to the buffer what it must.
LEMMA ImplProcessed ==
    ASSUME NEW p, Buffered(p), 0 < Len(p.data)
    PROVE  Processed(p.data, anotherChunkReceivedImpl(p))
<1>1. p \in PacketType
  BY DEF Buffered
<1>2. CASE p.type = "BINARY"
  <2>1. anotherChunkReceivedImpl(p) = packetContinueBinary(p)
    BY <1>2 DEF anotherChunkReceivedImpl
  <2>2. CASE p.bps = "HEADER"
    BY <1>2, <2>1, <2>2, BinaryHeaderProcessed DEF packetContinueBinary
  <2>3. CASE p.bps # "HEADER"
    <3>1. p.bps = "DATA"
      BY <1>2, <2>3 DEF Buffered
    <3>2. QED
      BY <1>2, <2>1, <3>1, BinaryDataProcessed DEF packetContinueBinary
  <2>4. QED
    BY <2>2, <2>3
<1>3. CASE p.type = "TEXT"
  <2>1. anotherChunkReceivedImpl(p) = packetContinueText(p)
    BY <1>3 DEF anotherChunkReceivedImpl
  <2>2. QED
    BY <1>3, <2>1, TextProcessed
<1>4. CASE p.type = "NONE"
  <2>1. anotherChunkReceivedImpl(p) = packetStarted(p)
    BY <1>4 DEF anotherChunkReceivedImpl
  <2>2. p.offset = 0 /\ Len(p.data) <= p.reserved /\ Len(p.data) \in Nat
    BY <1>1, <1>4, LenProperties DEF Buffered, PacketType
  <2>3. CASE p.data[1] = 36
    <3> DEFINE o == dataRead(p, 1)
               q == [o EXCEPT !.type = "BINARY", !.bps = "HEADER"]
    <3>1. o \in PacketType /\ o.data = p.data /\ o.offset = 1 /\ o.reserved = p.reserved
      BY <1>1, <2>2 DEF PacketType, dataRead
    <3>2. packetStarted(p) = packetContinueBinary(q)
      BY <2>3 DEF packetStarted
    <3> HIDE DEF o
    <3>3. /\ q \in PacketType /\ q.data = p.data /\ q.offset = 1 /\ q.reserved = p.reserved
          /\ q.type = "BINARY" /\ q.bps = "HEADER"
      BY <3>1 DEF PacketType
    <3> HIDE DEF q
    <3>4. Buffered(q)
      BY <2>2, <2>3, <3>3 DEF Buffered
    <3>5. packetContinueBinary(q) = binaryPacketHeader(q)
      BY <3>3 DEF packetContinueBinary
    <3>6. QED
      BY <2>1, <3>2, <3>3, <3>4, <3>5, BinaryHeaderProcessed
  <2>4. CASE p.data[1] # 36
    <3> DEFINE q == [p EXCEPT !.type = "TEXT"]
    <3>1. packetStarted(p) = packetContinueText(q)
      BY <2>4 DEF packetStarted
    <3>2. q \in PacketType /\ q.data = p.data /\ q.offset = 0 /\ q.reserved = p.reserved /\ q.type = "TEXT"
      BY <1>1, <2>2 DEF PacketType
    <3> HIDE DEF q
    <3>3. Buffered(q)
      BY <2>2, <2>4, <3>2 DEF Buffered
    <3>4. QED
      BY <2>1, <3>1, <3>2, <3>3, TextProcessed
  <2>5. QED
    BY <2>3, <2>4
<1>5. QED
  BY <1>1, <1>2, <1>3, <1>4 DEF PacketType

-----------------------------------------------------------------------------
(* The stream.                                                             *)

LEMMA CutRecursion ==
    ASSUME NEW s \in Seq(Bytes)
    PROVE  /\ Cut(s) \in [Nat -> Nat]
           /\ Cut(s)[0] = 0
           /\ \A k \in Nat : Cut(s)[k + 1] = PacketEnd(s, Cut(s)[k])
<1> DEFINE step == [n \in Nat |-> [i \in Nat |-> PacketEnd(s, i)]]
           Is(f) == f = [k \in Nat |-> IF k = 0 THEN 0 ELSE PacketEnd(s, f[k - 1])]
           cut == CHOOSE f : Is(f)
<1>1. Cut(s) = cut
  BY DEF Cut
<1>2. \A i \in Nat : PacketEnd(s, i) \in Nat
  BY EndIsAhead
<1>3. step \in [Nat -> [Nat -> Nat]]
  BY <1>2
<1>4. \A k \in Nat, v \in Nat : step[k][v] = PacketEnd(s, v)
  OBVIOUS
<1> HIDE DEF step
<1>5. PICK f : Iterates(f, Nat, 0, step)
  BY <1>3, RecursionExists
<1>6. Is(f)
  <2>1. f \in [Nat -> Nat] /\ f[0] = 0
    BY <1>5 DEF Iterates
  <2>2. ASSUME NEW n \in Nat, n # 0
        PROVE  f[n] = PacketEnd(s, f[n - 1])
    <3>1. n - 1 \in Nat /\ (n - 1) + 1 = n
      BY <2>2
    <3>2. f[n] = step[n - 1][f[n - 1]]
      BY <1>5, <3>1 DEF Iterates
    <3>3. f[n - 1] \in Nat
      BY <2>1, <3>1
    <3>4. QED
      BY <1>4, <3>1, <3>2, <3>3
  <2>3. QED
    BY <2>1, <2>2
<1> HIDE DEF Is
<1>7. Is(cut)
  BY <1>6
<1> HIDE DEF cut
<1> USE DEF Is
<1>8. cut[0] = 0 /\ \A k \in Nat : cut[k + 1] = PacketEnd(s, cut[k])
  BY <1>7
<1>9. \A k \in Nat : cut[k] \in Nat
  <2> DEFINE T == {k \in Nat : cut[k] \in Nat}
  <2>1. 0 \in T
    BY <1>8
  <2>2. ASSUME NEW k \in Nat, k \in T
        PROVE  k + 1 \in T
    <3>1. cut[k + 1] = PacketEnd(s, cut[k]) /\ cut[k] \in Nat
      BY <1>8, <2>2
    <3>2. cut[k + 1] \in Nat
      BY <1>2, <3>1, Zenon
    <3>3. QED
      BY <3>2
  <2> HIDE DEF T
  <2>3. \A k \in Nat : k \in T
    BY <2>1, <2>2, SetInduction
  <2>4. QED
    BY <2>3 DEF T
<1>10. cut \in [Nat -> Nat]
  BY <1>7, <1>9
<1>11. QED
  BY <1>1, <1>8, <1>10

PacketsOf(s) == {PacketIn(s, i, e) : i \in Nat, e \in Nat}

\* The inductive invariant: the buffer is in order and is what the stream holds
\* between the last packet delivered and the last byte that came.
IInv ==
    /\ stream \in Seq(Bytes)
    /\ fed \in 0 .. Len(stream)
    /\ Buffered(packet)
    /\ out \in Seq(PacketsOf(stream))
    /\ Cut(stream)[Len(out)] <= fed
    /\ KeepsTheRest
    /\ DeliversPackets

LEMMA InitIInv == Init => IInv
<1> SUFFICES ASSUME Init PROVE IInv
  OBVIOUS
<1>1. stream \in Seq(Bytes) /\ Len(stream) \in Nat
  BY StreamsAssumption, LenProperties DEF Init, Bytes
<1>2. packet.data = <<>> /\ out = <<>> /\ fed = 0
  BY DEF Init
<1>3. <<>> \in Seq(Bytes) /\ Len(<<>>) = 0
  OBVIOUS
<1>4. Buffered(packet)
  BY <1>3 DEF Init, Buffered, PacketType
<1>5. Cut(stream)[0] = 0
  BY <1>1, CutRecursion
<1>6. out \in Seq(PacketsOf(stream)) /\ Len(out) = 0 /\ DOMAIN out = {}
  BY <1>2
<1>7. KeepsTheRest
  <2>1. SubSeq(stream, 0 + 1, 0) = <<>>
    BY SubSeqEmpty
  <2>2. QED
    BY <1>2, <1>5, <1>6, <2>1 DEF KeepsTheRest
<1>8. DeliversPackets
  BY <1>6 DEF DeliversPackets
<1>9. QED
  BY <1>1, <1>2, <1>4, <1>5, <1>6, <1>7, <1>8 DEF IInv

\* A chunk keeps the invariant, and delivers a packet just when there is one.
LEMMA ReceiveStep ==
    ASSUME IInv, NEW size \in 1 .. Len(stream) - fed, Receive(size)
    PROVE  /\ IInv'
           /\ Len(out') = Len(out) + IF Cut(stream)[Len(out) + 1] <= fed' THEN 1 ELSE 0
<1> DEFINE n == fed + size
           cut == Cut(stream)
           K == Len(out)
           i == cut[K]
           chunk == SubSeq(stream, fed + 1, n)
           p == append(packet, chunk)
           d == SubSeq(stream, i + 1, n)
           res == anotherChunkReceivedImpl(p)
           X == PacketsOf(stream)
<1>1. /\ stream \in Seq(Bytes) /\ Len(stream) \in Nat /\ fed \in Nat /\ n \in Nat /\ fed < n /\ n <= Len(stream)
      /\ out \in Seq(X) /\ K \in Nat
  BY LenProperties DEF IInv
<1>2. /\ cut \in [Nat -> Nat] /\ cut[0] = 0 /\ \A k \in Nat : cut[k + 1] = PacketEnd(stream, cut[k])
  BY <1>1, CutRecursion
<1>3. i \in Nat /\ i <= fed /\ packet.data = SubSeq(stream, i + 1, fed) /\ Buffered(packet)
  BY <1>1, <1>2 DEF IInv, KeepsTheRest
<1>4. stream' = stream /\ fed' = n /\ packet' = res.packet /\ out' = out \o res.delivered
  BY DEF Receive
<1>5. \A k \in 1 .. K : cut[k] <= fed /\ out[k] = PacketIn(stream, cut[k - 1], cut[k])
  <2>1. DOMAIN out = 1 .. K
    BY <1>1, LenProperties
  <2>2. QED
    BY <2>1 DEF IInv, DeliversPackets
<1> HIDE DEF n, cut, K, i, X
<1>6. chunk \in Seq(Bytes)
  BY <1>1, Slice
<1>7. packet.data \o chunk = d
  BY <1>1, <1>3, ConcatAdjacentSubSeq
<1>8. d \in Seq(Bytes) /\ Len(d) = n - i
  <2>1. n - (i + 1) + 1 = n - i /\ 1 <= i + 1 /\ i + 1 <= n + 1
    BY <1>1, <1>3
  <2>2. QED
    BY <1>1, <1>3, <2>1, Slice
<1>9. Buffered(p) /\ p.data = d
  BY <1>3, <1>6, <1>7, AppendBuffered
<1> HIDE DEF chunk, p, d
<1>10. Processed(d, res)
  <2>1. 0 < Len(p.data)
    BY <1>1, <1>3, <1>8, <1>9
  <2>2. QED
    BY <1>9, <2>1, ImplProcessed
<1> HIDE DEF res
<1>11. /\ PacketEnd(d, 0) <= Len(d) <=> PacketEnd(stream, i) <= n
       /\ PacketEnd(d, 0) <= Len(d) =>
             /\ PacketEnd(stream, i) = i + PacketEnd(d, 0)
             /\ PacketIn(stream, i, PacketEnd(stream, i)) = PacketIn(d, 0, PacketEnd(d, 0))
  <2>1. i <= n
    BY <1>1, <1>3
  <2>2. SamePacket(stream, i, n, d)
    BY <1>1, <1>3, <2>1, EndInSlice DEF d
  <2>3. QED
    BY <2>2 DEF SamePacket
<1>12. cut[K + 1] = PacketEnd(stream, i) /\ cut[K + 1] \in Nat
  <2>1. cut[K + 1] = PacketEnd(stream, cut[K])
    BY <1>1, <1>2, Zenon
  <2>2. PacketEnd(stream, i) \in Nat
    BY <1>1, <1>3, EndIsAhead
  <2>3. QED
    BY <2>1, <2>2 DEF i
<1>13. fed' \in 0 .. Len(stream') /\ stream' \in Seq(Bytes)
  BY <1>1, <1>4
<1>14. Buffered(packet')
  BY <1>4, <1>10 DEF Processed
<1>15. CASE PacketEnd(d, 0) <= Len(d)
  <2> DEFINE e == PacketEnd(d, 0)
             pkt == PacketIn(stream, i, i + e)
  <2>1. e \in Nat
    BY <1>8, EndIsAhead
  <2>2. cut[K + 1] = i + e /\ i + e <= n /\ pkt = PacketIn(d, 0, e)
    BY <1>11, <1>12, <1>15
  <2>3. packet'.data = SubSeq(d, e + 1, Len(d)) /\ out' = out \o <<pkt>>
    BY <1>4, <1>10, <1>15, <2>2 DEF Processed
  <2>4. pkt \in X
    BY <1>3, <2>1 DEF X, PacketsOf
  <2> HIDE DEF pkt, e
  <2>5. /\ out' \in Seq(X) /\ Len(out') = K + 1 /\ DOMAIN out' = 1 .. K + 1
        /\ \A k \in 1 .. K : out'[k] = out[k]
        /\ out'[K + 1] = pkt
    <3>1. Append(out, pkt) = out \o <<pkt>>
      BY <1>1, <2>4, AppendIsConcat
    <3>2. /\ out' \in Seq(X) /\ Len(out') = K + 1 /\ \A k \in 1 .. K : out'[k] = out[k]
          /\ out'[K + 1] = pkt
      BY <1>1, <2>3, <2>4, <3>1, AppendProperties DEF K
    <3>3. QED
      BY <3>2, LenProperties
  <2>6. SubSeq(d, e + 1, Len(d)) = SubSeq(stream, (i + e) + 1, n)
    <3> DEFINE a == i + 1
               c == e + 1
               m == n - i
    <3>1. /\ a \in Int /\ c \in Int /\ m \in Int /\ n \in Int
          /\ 1 <= a /\ a <= n + 1 /\ n <= Len(stream) /\ 1 <= c /\ c <= m + 1 /\ m <= n - a + 1
      BY <1>1, <1>3, <1>8, <2>1, <2>2
    <3>2. a + c - 1 = (i + e) + 1 /\ a + m - 1 = n
      BY <1>1, <1>3, <2>1
    <3> HIDE DEF a, c, m
    <3>3. SubSeq(SubSeq(stream, a, n), c, m) = SubSeq(stream, a + c - 1, a + m - 1)
      BY <1>1, <3>1, SliceOfSlice
    <3>4. QED
      BY <1>8, <3>2, <3>3 DEF d, a, c, m
  <2>7. KeepsTheRest'
    <3>1. packet'.data = SubSeq(stream, cut[K + 1] + 1, n)
      BY <2>2, <2>3, <2>6
    <3>2. QED
      BY <1>4, <2>5, <3>1 DEF KeepsTheRest, cut
  <2>8. DeliversPackets'
    <3>1. ASSUME NEW k \in 1 .. K + 1
          PROVE  cut[k] <= n /\ out'[k] = PacketIn(stream, cut[k - 1], cut[k])
      <4>1. CASE k \in 1 .. K
        <5>1. cut[k] <= fed /\ out[k] = PacketIn(stream, cut[k - 1], cut[k])
          BY <1>5, <4>1
        <5>2. out'[k] = out[k]
          BY <2>5, <4>1
        <5>3. k \in Nat
          BY <4>1
        <5>4. cut[k] \in Nat
          BY <1>2, <5>3
        <5>5. cut[k] <= n
          BY <1>1, <5>1, <5>4
        <5>6. QED
          BY <5>1, <5>2, <5>5
      <4>2. CASE k = K + 1
        <5>1. k - 1 = K
          BY <1>1, <4>2
        <5>2. QED
          BY <2>2, <2>5, <4>2, <5>1 DEF pkt, i
      <4>3. QED
        BY <1>1, <4>1, <4>2
    <3>2. QED
      BY <1>4, <2>5, <3>1 DEF DeliversPackets, cut
  <2>9. Cut(stream')[Len(out')] <= fed'
    BY <1>4, <2>2, <2>5 DEF cut
  <2>10. out' \in Seq(PacketsOf(stream'))
    BY <1>4, <2>5 DEF X
  <2>11. IInv'
    BY <1>13, <1>14, <2>7, <2>8, <2>9, <2>10 DEF IInv
  <2>12. Len(out') = K + 1 /\ cut[K + 1] <= fed'
    BY <1>4, <2>2, <2>5
  <2>13. QED
    BY <2>11, <2>12 DEF K, cut
<1>16. CASE ~ (PacketEnd(d, 0) <= Len(d))
  <2>1. packet'.data = d /\ out' = out
    <3>1. packet'.data = d /\ out' = out \o <<>>
      BY <1>4, <1>10, <1>16 DEF Processed
    <3>2. QED
      BY <1>1, <3>1, ConcatEmptySeq
  <2>2. KeepsTheRest'
    BY <1>4, <2>1 DEF KeepsTheRest, d, i, cut, K
  <2>3. DeliversPackets'
    <3>1. ASSUME NEW k \in 1 .. K
          PROVE  cut[k] <= n /\ out[k] = PacketIn(stream, cut[k - 1], cut[k])
      <4>1. cut[k] <= fed /\ out[k] = PacketIn(stream, cut[k - 1], cut[k])
        BY <1>5
      <4>2. k \in Nat
        OBVIOUS
      <4>3. cut[k] \in Nat
        BY <1>2, <4>2
      <4>4. cut[k] <= n
        BY <1>1, <4>1, <4>3
      <4>5. QED
        BY <4>1, <4>4
    <3>2. DOMAIN out = 1 .. K
      BY <1>1, LenProperties DEF K
    <3>3. QED
      BY <1>4, <2>1, <3>1, <3>2 DEF DeliversPackets, cut
  <2>4. Cut(stream')[Len(out')] <= fed'
    BY <1>1, <1>3, <1>4, <2>1 DEF i, cut, K
  <2>5. IInv'
    BY <1>1, <1>4, <1>13, <1>14, <2>1, <2>2, <2>3, <2>4 DEF IInv, X
  <2>6. ~ (cut[K + 1] <= fed')
    BY <1>4, <1>11, <1>12, <1>16
  <2>7. Len(out') = K + 0
    BY <1>1, <2>1 DEF K
  <2>8. QED
    BY <2>5, <2>6, <2>7 DEF K, cut
<1>17. QED
  BY <1>15, <1>16

LEMMA NextIInv == IInv /\ [Next]_vars => IInv'
<1> SUFFICES ASSUME IInv, [Next]_vars PROVE IInv'
  OBVIOUS
<1>1. CASE Next
  BY <1>1, ReceiveStep DEF Next
<1>2. CASE UNCHANGED vars
  BY <1>2 DEF vars, IInv, KeepsTheRest, DeliversPackets
<1>3. QED
  BY <1>1, <1>2

\* The inductive invariant holds.
THEOREM Invariance == Spec => []IInv
  BY InitIInv, NextIInv, PTL DEF Spec

\* For every stream and every way to cut it into chunks, no processor reads beyond
\* what append has written, and the buffer never holds more than it reserved.
THEOREM BufferSafe == Spec => []BufferFits
<1>1. IInv => BufferFits
  <2> SUFFICES ASSUME IInv PROVE BufferFits
    OBVIOUS
  <2>1. packet \in PacketType /\ Len(packet.data) \in Nat /\ packet.offset <= Len(packet.data)
    BY LenProperties DEF IInv, Buffered, PacketType
  <2>2. QED
    BY <2>1 DEF IInv, Buffered, PacketType, BufferFits
<1>2. QED
  BY <1>1, Invariance, PTL

\* For every stream and every way to cut it into chunks, the callback gets the
\* packets of the stream, whole, in order, of the right type and without headers.
THEOREM PacketsDelivered == Spec => []DeliversPackets
<1>1. IInv => DeliversPackets
  BY DEF IInv
<1>2. QED
  BY <1>1, Invariance, PTL

\* For every stream and every way to cut it into chunks, the buffer holds just the
\* bytes that came after the last packet delivered.
THEOREM RestKept == Spec => []KeepsTheRest
<1>1. IInv => KeepsTheRest
  BY DEF IInv
<1>2. QED
  BY <1>1, Invariance, PTL

\* For every stream and every way to cut it into chunks, a chunk delivers one packet
\* if one is complete, and none otherwise.
THEOREM ChunkDelivers == Spec => OnePacketPerChunk
<1>1. IInv /\ [Next]_vars =>
        [Len(out') = Len(out) + IF Cut(stream)[Len(out) + 1] <= fed' THEN 1 ELSE 0]_vars
  <2> SUFFICES ASSUME IInv, Next
               PROVE  Len(out') = Len(out) + IF Cut(stream)[Len(out) + 1] <= fed' THEN 1 ELSE 0
    OBVIOUS
  <2>1. QED
    BY ReceiveStep DEF Next
<1>2. QED
  BY <1>1, Invariance, PTL DEF Spec, OnePacketPerChunk
=============================================================================

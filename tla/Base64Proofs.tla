---------------------------- MODULE Base64Proofs ----------------------------
(***************************************************************************)
(* Base64 encodes the bits, and decodes what it encoded, for data of any   *)
(* length and although the accumulator overflows.                          *)
(***************************************************************************)
EXTENDS CodecsProofs
-----------------------------------------------------------------------------
(* The accumulator keeps the twelve bits that are read again.              *)

\* The overflow of val keeps its low twelve bits.
LEMMA WordKeeps12 ==
  ASSUME NEW x \in Nat
  PROVE  x % Word \in Nat /\ (x % Word) % 4096 = x % 4096
<1>1. Word \in Nat /\ Word > 0 /\ Word % 4096 = 0
  BY WordAssumption
<1>2. PICK k \in Nat : Word = 4096 * k
  <2>1. Word \div 4096 \in Nat /\ Word = 4096 * (Word \div 4096)
    BY <1>1
  <2> QED
    BY <2>1
<1>3. PICK q \in Nat, r \in Nat : x = Word * q + r /\ r = x % Word
  <2>1. x \div Word \in Nat /\ x % Word \in Nat
    BY <1>1
  <2>2. x = Word * (x \div Word) + (x % Word)
    BY <1>1
  <2> QED
    BY <2>1, <2>2
<1>4. PICK p \in Nat : Word * q = 4096 * p
  <2>1. k * q \in Nat /\ (4096 * k) * q = 4096 * (k * q)
    OBVIOUS
  <2> QED
    BY <1>2, <2>1
<1>5. x = 4096 * p + r
  BY <1>3, <1>4
<1>6. x % 4096 = r % 4096
  BY <1>5
<1> QED
  BY <1>3, <1>6

\* The low twelve bits of val after a shift, as if it had not overflowed.
LEMMA ShiftedBits ==
  ASSUME NEW v \in Nat, NEW n \in Nat
  PROVE  /\ Shifted(v, 8, n) \in Nat /\ Shifted(v, 8, n) % 4096 = (256 * v + n) % 4096
         /\ Shifted(v, 6, n) \in Nat /\ Shifted(v, 6, n) % 4096 = (64 * v + n) % 4096
<1>1. /\ v * 2^8 + n = 256 * v + n /\ 256 * v + n \in Nat
      /\ v * 2^6 + n = 64 * v + n /\ 64 * v + n \in Nat
  OBVIOUS
<1> QED
  BY <1>1, WordKeeps12 DEF Shifted
-----------------------------------------------------------------------------
(* The characters.                                                         *)

\* base64_chars is one-to-one, and no character of it is the padding.
LEMMA CharOfSextet ==
  ASSUME NEW n \in 0 .. 63
  PROVE  /\ Base64Char(n) \in Byte /\ IsBase64Char(Base64Char(n)) /\ Base64Char(n) # Pad
         /\ (CHOOSE k \in 0 .. 63 : Base64Char(k) = Base64Char(n)) = n
<1> USE DEF Base64Char
<1>1. Base64Char(n) \in Byte /\ IsBase64Char(Base64Char(n)) /\ Base64Char(n) # Pad
  BY DEF IsBase64Char, Byte, Pad, Digits, UpperCase, LowerCase
<1>2. \A k \in 0 .. 63 : Base64Char(k) = Base64Char(n) => k = n
  OBVIOUS
<1> HIDE DEF Base64Char
<1> QED
  BY <1>1, <1>2

\* The bits b to b + 5 of the low twelve are those of any number with the same low twelve.
Low12(v) == v % 4096

\* The bits that are read of val are among its low twelve.
LEMMA LowBits ==
  ASSUME NEW v \in Nat, NEW x \in Nat, Low12(v) = Low12(x)
  PROVE  /\ Bits(v, 0, 6) = x % 64 /\ Bits(v, 2, 6) = (x % 256) \div 4
         /\ Bits(v, 4, 6) = (x % 1024) \div 16 /\ Bits(v, 6, 6) = (x % 4096) \div 64
         /\ Bits(v, 0, 8) = x % 256 /\ Bits(v, 2, 8) = (x % 1024) \div 4
         /\ Bits(v, 4, 8) = (x % 4096) \div 16
         /\ v % 256 = x % 256 /\ v % 64 = x % 64
<1> DEFINE r == v % 4096
<1>0. r \in 0 .. 4095 /\ v % 4096 = r /\ x % 4096 = r
  BY DEF Low12
<1> HIDE DEF r
<1>a. PICK a \in Nat : v = 4096 * a + r
  BY <1>0
<1>b. PICK b \in Nat : x = 4096 * b + r
  BY <1>0
<1>1. v = 4096 * a + r /\ x = 4096 * b + r /\ r \in 0 .. 4095
  BY <1>0, <1>a, <1>b
<1>2. v % 256 = x % 256 /\ v % 64 = x % 64
  BY <1>1
<1>3. /\ (v \div 2^0) % 2^6 = x % 64 /\ (v \div 2^2) % 2^6 = (x % 256) \div 4
      /\ (v \div 2^4) % 2^6 = (x % 1024) \div 16 /\ (v \div 2^6) % 2^6 = (x % 4096) \div 64
  <2>1. 2^0 = 1 /\ 2^2 = 4 /\ 2^4 = 16 /\ 2^6 = 64
    OBVIOUS
  <2>2. (v \div 1) % 64 = x % 64
    BY <1>1
  <2>3. (v \div 4) % 64 = (x % 256) \div 4
    BY <1>1
  <2>4. (v \div 16) % 64 = (x % 1024) \div 16
    BY <1>1
  <2>5. (v \div 64) % 64 = (x % 4096) \div 64
    BY <1>1
  <2> QED
    BY <2>1, <2>2, <2>3, <2>4, <2>5
<1>4. /\ (v \div 2^0) % 2^8 = x % 256 /\ (v \div 2^2) % 2^8 = (x % 1024) \div 4
      /\ (v \div 2^4) % 2^8 = (x % 4096) \div 16
  <2>1. 2^0 = 1 /\ 2^2 = 4 /\ 2^4 = 16 /\ 2^8 = 256
    OBVIOUS
  <2>2. (v \div 1) % 256 = x % 256
    BY <1>1
  <2>3. (v \div 4) % 256 = (x % 1024) \div 4
    BY <1>1
  <2>4. (v \div 16) % 256 = (x % 4096) \div 16
    BY <1>1
  <2> QED
    BY <2>1, <2>2, <2>3, <2>4
<1> QED
  BY <1>2, <1>3, <1>4 DEF Bits
-----------------------------------------------------------------------------
(* The loop of Encode.                                                     *)

EncodeStates == [val : Nat, valb : {-6, -4, -2}, out : Seq(Byte)]

\* Six bits are a number below 64.
LEMMA BitsAreSextets ==
  ASSUME NEW v \in Nat, NEW b \in {0, 2, 4, 6}
  PROVE  Bits(v, b, 6) \in 0 .. 63
<1>1. b = 0 \/ b = 2 \/ b = 4 \/ b = 6
  OBVIOUS
<1>2. 2^0 = 1 /\ 2^2 = 4 /\ 2^4 = 16 /\ 2^6 = 64
  OBVIOUS
<1>3. /\ (v \div 1) % 64 \in 0 .. 63 /\ (v \div 4) % 64 \in 0 .. 63
      /\ (v \div 16) % 64 \in 0 .. 63 /\ (v \div 64) % 64 \in 0 .. 63
  OBVIOUS
<1> QED
  BY <1>1, <1>2, <1>3 DEF Bits

\* What a round of the loop does, by the number of bits that are left over.
LEMMA EncodeRound ==
  ASSUME NEW st \in EncodeStates, NEW byte \in Byte
  PROVE  LET v == Shifted(st.val, 8, byte) IN
         /\ st.valb = -6 => EncodeByte(st, byte)
              = [val |-> v, valb |-> -4, out |-> st.out \o <<Base64Char(Bits(v, 2, 6))>>]
         /\ st.valb = -4 => EncodeByte(st, byte)
              = [val |-> v, valb |-> -2, out |-> st.out \o <<Base64Char(Bits(v, 4, 6))>>]
         /\ st.valb = -2 => EncodeByte(st, byte)
              = [val |-> v, valb |-> -6,
                 out |-> st.out \o <<Base64Char(Bits(v, 6, 6)), Base64Char(Bits(v, 0, 6))>>]
<1> DEFINE v == Shifted(st.val, 8, byte)
<1>1. /\ 2 \div 6 = 0 /\ 4 \div 6 = 0 /\ 6 \div 6 = 1
      /\ 1 .. 0 + 1 = {1} /\ 1 .. 1 + 1 = {1, 2} /\ 1 .. 1 = {1}
  OBVIOUS
<1>2. CASE st.valb = -6
  <2>1. st.valb + 8 = 2
    BY <1>2
  <2>2. [k \in 1 .. 0 + 1 |-> Base64Char(Bits(v, 2 - 6 * (k - 1), 6))]
          = <<Base64Char(Bits(v, 2, 6))>>
    <3> HIDE DEF v
    <3> QED
      OBVIOUS
  <2>3. EncodeByte(st, byte)
          = [val |-> v, valb |-> 2 - 6 * (0 + 1),
             out |-> st.out \o [k \in 1 .. 0 + 1 |-> Base64Char(Bits(v, 2 - 6 * (k - 1), 6))]]
    BY <1>1, <2>1 DEF EncodeByte
  <2>4. 2 - 6 * (0 + 1) = -4
    OBVIOUS
  <2> HIDE DEF v
  <2>5. EncodeByte(st, byte)
          = [val |-> v, valb |-> -4, out |-> st.out \o <<Base64Char(Bits(v, 2, 6))>>]
    BY <2>2, <2>3, <2>4
  <2> QED
    BY <1>2, <2>5 DEF v
<1>3. CASE st.valb = -4
  <2>1. st.valb + 8 = 4
    BY <1>3
  <2>2. [k \in 1 .. 0 + 1 |-> Base64Char(Bits(v, 4 - 6 * (k - 1), 6))]
          = <<Base64Char(Bits(v, 4, 6))>>
    <3> HIDE DEF v
    <3> QED
      OBVIOUS
  <2>3. EncodeByte(st, byte)
          = [val |-> v, valb |-> 4 - 6 * (0 + 1),
             out |-> st.out \o [k \in 1 .. 0 + 1 |-> Base64Char(Bits(v, 4 - 6 * (k - 1), 6))]]
    BY <1>1, <2>1 DEF EncodeByte
  <2>4. 4 - 6 * (0 + 1) = -2
    OBVIOUS
  <2> HIDE DEF v
  <2>5. EncodeByte(st, byte)
          = [val |-> v, valb |-> -2, out |-> st.out \o <<Base64Char(Bits(v, 4, 6))>>]
    BY <2>2, <2>3, <2>4
  <2> QED
    BY <1>3, <2>5 DEF v
<1>4. CASE st.valb = -2
  <2>1. st.valb + 8 = 6
    BY <1>4
  <2>2. [k \in 1 .. 1 + 1 |-> Base64Char(Bits(v, 6 - 6 * (k - 1), 6))]
          = <<Base64Char(Bits(v, 6, 6)), Base64Char(Bits(v, 0, 6))>>
    <3> HIDE DEF v
    <3> QED
      OBVIOUS
  <2>3. EncodeByte(st, byte)
          = [val |-> v, valb |-> 6 - 6 * (1 + 1),
             out |-> st.out \o [k \in 1 .. 1 + 1 |-> Base64Char(Bits(v, 6 - 6 * (k - 1), 6))]]
    BY <1>1, <2>1 DEF EncodeByte
  <2>4. 6 - 6 * (1 + 1) = -6
    OBVIOUS
  <2> HIDE DEF v
  <2>5. EncodeByte(st, byte)
          = [val |-> v, valb |-> -6,
             out |-> st.out \o <<Base64Char(Bits(v, 6, 6)), Base64Char(Bits(v, 0, 6))>>]
    BY <2>2, <2>3, <2>4
  <2> QED
    BY <1>4, <2>5 DEF v
<1> QED
  BY <1>2, <1>3, <1>4 DEF EncodeStates

\* A round of Encode leaves 0, 2 or 4 bits to be written.
LEMMA EncodeByteType ==
  ASSUME NEW st \in EncodeStates, NEW byte \in Byte
  PROVE  EncodeByte(st, byte) \in EncodeStates
<1> DEFINE v == Shifted(st.val, 8, byte)
<1>1. v \in Nat
  <2>1. PICK w \in Nat, d \in Nat : w = st.val /\ d = byte
    BY DEF EncodeStates, Byte
  <2>2. Shifted(w, 8, d) \in Nat
    BY ShiftedBits
  <2> QED
    BY <2>1, <2>2
<1> HIDE DEF v
<1>2. \A b \in {0, 2, 4, 6} : Base64Char(Bits(v, b, 6)) \in Byte
  BY <1>1, BitsAreSextets, CharOfSextet
<1>3. \A b, c \in {0, 2, 4, 6} :
        /\ st.out \o <<Base64Char(Bits(v, b, 6))>> \in Seq(Byte)
        /\ st.out \o <<Base64Char(Bits(v, b, 6)), Base64Char(Bits(v, c, 6))>> \in Seq(Byte)
  <2> SUFFICES ASSUME NEW b \in {0, 2, 4, 6}, NEW c \in {0, 2, 4, 6}
               PROVE  /\ st.out \o <<Base64Char(Bits(v, b, 6))>> \in Seq(Byte)
                      /\ st.out \o <<Base64Char(Bits(v, b, 6)), Base64Char(Bits(v, c, 6))>>
                           \in Seq(Byte)
    OBVIOUS
  <2>1. Base64Char(Bits(v, b, 6)) \in Byte /\ Base64Char(Bits(v, c, 6)) \in Byte
    BY <1>2
  <2>2. /\ <<Base64Char(Bits(v, b, 6))>> \in Seq(Byte)
        /\ <<Base64Char(Bits(v, b, 6)), Base64Char(Bits(v, c, 6))>> \in Seq(Byte)
    BY <2>1
  <2>3. st.out \in Seq(Byte)
    BY DEF EncodeStates
  <2> QED
    BY <2>2, <2>3, ConcatProperties
<1>4. st.valb \in {-6, -4, -2}
  BY DEF EncodeStates
<1>5. CASE st.valb = -6
  <2>1. EncodeByte(st, byte)
          = [val |-> v, valb |-> -4, out |-> st.out \o <<Base64Char(Bits(v, 2, 6))>>]
    BY <1>5, EncodeRound DEF v
  <2> QED
    BY <1>1, <1>3, <2>1 DEF EncodeStates
<1>6. CASE st.valb = -4
  <2>1. EncodeByte(st, byte)
          = [val |-> v, valb |-> -2, out |-> st.out \o <<Base64Char(Bits(v, 4, 6))>>]
    BY <1>6, EncodeRound DEF v
  <2> QED
    BY <1>1, <1>3, <2>1 DEF EncodeStates
<1>7. CASE st.valb = -2
  <2>1. EncodeByte(st, byte)
          = [val |-> v, valb |-> -6,
             out |-> st.out \o <<Base64Char(Bits(v, 6, 6)), Base64Char(Bits(v, 0, 6))>>]
    BY <1>7, EncodeRound DEF v
  <2> QED
    BY <1>1, <1>3, <2>1 DEF EncodeStates
<1> QED
  BY <1>4, <1>5, <1>6, <1>7

\* The loop has the states that its rounds make.
LEMMA EncodeLoopUnfolds ==
  ASSUME NEW data \in Seq(Byte)
  PROVE  /\ EncodeLoop(data)[0] = [val |-> 0, valb |-> -6, out |-> <<>>]
         /\ \A i \in 1 .. Len(data) :
              EncodeLoop(data)[i] = EncodeByte(EncodeLoop(data)[i - 1], data[i])
<1>1. PICK n : n = Len(data)
  OBVIOUS
<1>2. n \in Nat
  BY <1>1, LenProperties
<1>3. \A i \in 1 .. n : data[i] \in Byte
  BY <1>1, ElementOfSeq
<1> DEFINE c == [val |-> 0, valb |-> -6, out |-> <<>>]
           Unfolds(f) ==
             f = [i \in 0 .. n |-> IF i = 0 THEN c ELSE EncodeByte(f[i - 1], data[i])]
           loop == CHOOSE f : Unfolds(f)
<1>4. c \in EncodeStates
  BY EmptySeq DEF EncodeStates
<1> HIDE DEF c
<1>5. PICK step \in Steps(n, EncodeStates) :
        \A i \in 1 .. n, v \in EncodeStates : step[i][v] = EncodeByte(v, data[i])
  <2> DEFINE step == [i \in 1 .. n |-> [v \in EncodeStates |-> EncodeByte(v, data[i])]]
  <2>1. \A i \in 1 .. n, v \in EncodeStates : EncodeByte(v, data[i]) \in EncodeStates
    BY <1>3, EncodeByteType
  <2>2. step \in Steps(n, EncodeStates)
    BY <2>1 DEF Steps
  <2>3. \A i \in 1 .. n, v \in EncodeStates : step[i][v] = EncodeByte(v, data[i])
    OBVIOUS
  <2> HIDE DEF step
  <2> QED
    BY <2>2, <2>3
<1>6. PICK g : g \in Loops(n, EncodeStates, c, step)
  BY <1>2, <1>4, LoopExists
<1>7. /\ g \in [0 .. n -> EncodeStates] /\ g[0] = c
      /\ \A i \in 1 .. n : g[i] = step[i][g[i - 1]]
  BY <1>6 DEF Loops
<1>8. \A i \in 1 .. n : g[i] = EncodeByte(g[i - 1], data[i])
  <2>1. \A i \in 1 .. n : g[i - 1] \in EncodeStates
    BY <1>2, <1>7
  <2> QED
    BY <1>5, <1>7, <2>1
<1>9. Unfolds(g)
  BY <1>7, <1>8
<1>10. Unfolds(loop)
  <2> HIDE DEF Unfolds
  <2> QED
    BY <1>9
<1> HIDE DEF loop
<1>11. loop[0] = c /\ \A i \in 1 .. n : loop[i] = EncodeByte(loop[i - 1], data[i])
  BY <1>2, <1>10
<1>12. EncodeLoop(data) = loop
  BY <1>1 DEF EncodeLoop, loop, c
<1> QED
  BY <1>1, <1>11, <1>12 DEF c

\* The byte at p, 0 behind the end.
ByteAt(s, p) == IF p <= Len(s) THEN s[p] ELSE 0

\* The j-th sextet of the bits of s.
Sextet(s, j) ==
  LET p == 3 * ((j - 1) \div 4) + 1
  IN  CASE j % 4 = 1 -> ByteAt(s, p) \div 4
        [] j % 4 = 2 -> 16 * (ByteAt(s, p) % 4) + (ByteAt(s, p + 1) \div 16)
        [] j % 4 = 3 -> 4 * (ByteAt(s, p + 1) % 16) + (ByteAt(s, p + 2) \div 64)
        [] j % 4 = 0 -> ByteAt(s, p + 2) % 64

\* The last byte of the accumulator.
Tail8(v) == v % 256

\* After i bytes: the accumulator ends with the last byte, the sextets that are
\* complete are written.
EncodeInv(data, i) ==
  LET st == EncodeLoop(data)[i]
  IN  /\ st \in EncodeStates
      /\ st.valb = -6 + 2 * (i % 3)
      /\ i > 0 => Tail8(st.val) = data[i]
      /\ Len(st.out) = (4 * i) \div 3
      /\ \A j \in 1 .. (4 * i) \div 3 : st.out[j] = Base64Char(Sextet(data, j))

\* A sextet is a number below 64.
LEMMA SextetRange ==
  ASSUME NEW s \in Seq(Byte), NEW j \in Nat \ {0}
  PROVE  Sextet(s, j) \in 0 .. 63
<1>1. \A p \in Nat \ {0} : ByteAt(s, p) \in 0 .. 255
  <2>1. \A p \in Nat \ {0} : p <= Len(s) => p \in 1 .. Len(s)
    BY LenProperties
  <2> QED
    BY <2>1, ElementOfSeq DEF ByteAt, Byte
<1> DEFINE p == 3 * ((j - 1) \div 4) + 1
<1>2. p \in Nat \ {0} /\ p + 1 \in Nat \ {0} /\ p + 2 \in Nat \ {0}
  OBVIOUS
<1>3. PICK a, b, c \in 0 .. 255 : a = ByteAt(s, p) /\ b = ByteAt(s, p + 1) /\ c = ByteAt(s, p + 2)
  BY <1>1, <1>2
<1>4. j % 4 \in {0, 1, 2, 3}
  OBVIOUS
<1>5. /\ a \div 4 \in 0 .. 63 /\ 16 * (a % 4) + (b \div 16) \in 0 .. 63
      /\ 4 * (b % 16) + (c \div 64) \in 0 .. 63 /\ c % 64 \in 0 .. 63
  OBVIOUS
<1>6. Sextet(s, j) = CASE j % 4 = 1 -> a \div 4
                       [] j % 4 = 2 -> 16 * (a % 4) + (b \div 16)
                       [] j % 4 = 3 -> 4 * (b % 16) + (c \div 64)
                       [] j % 4 = 0 -> c % 64
  BY <1>3 DEF Sextet
<1> HIDE DEF p
<1> QED
  BY <1>4, <1>5, <1>6

\* What a byte d adds to the accumulator w, and the sextets that are then read.
LEMMA EncodedByte ==
  ASSUME NEW w \in Nat, NEW d \in Byte
  PROVE  LET v == Shifted(w, 8, d) IN
         /\ v \in Nat /\ Tail8(v) = d
         /\ Bits(v, 2, 6) = d \div 4 /\ Bits(v, 0, 6) = d % 64
         /\ \A e \in Byte : Tail8(w) = e => /\ Bits(v, 4, 6) = 16 * (e % 4) + (d \div 16)
                                         /\ Bits(v, 6, 6) = 4 * (e % 16) + (d \div 64)
         /\ \A b \in {0, 2, 4, 6} : Base64Char(Bits(v, b, 6)) \in Byte
<1>1. d \in 0 .. 255
  BY DEF Byte
<1>2. PICK x \in Nat : x = 256 * w + d
  BY <1>1
<1>3. PICK v \in Nat : v = Shifted(w, 8, d) /\ Low12(v) = Low12(x)
  <2>1. PICK c \in Nat : c = d
    BY <1>1
  <2>2. Shifted(w, 8, c) \in Nat /\ Shifted(w, 8, c) % 4096 = (256 * w + c) % 4096
    BY ShiftedBits
  <2> QED
    BY <1>2, <2>1, <2>2 DEF Low12
<1>4. /\ Bits(v, 2, 6) = (x % 256) \div 4 /\ Bits(v, 4, 6) = (x % 1024) \div 16
      /\ Bits(v, 6, 6) = (x % 4096) \div 64 /\ Bits(v, 0, 6) = x % 64
      /\ v % 256 = x % 256
  BY <1>3, LowBits
<1>5. /\ x % 256 = d /\ x % 64 = d % 64 /\ (x % 256) \div 4 = d \div 4
  BY <1>1, <1>2
<1>8. ASSUME NEW e \in 0 .. 255, w % 256 = e
      PROVE  /\ (x % 1024) \div 16 = 16 * (e % 4) + (d \div 16)
             /\ (x % 4096) \div 64 = 4 * (e % 16) + (d \div 64)
  <2>1. PICK a \in Nat : w = 256 * a + e
    BY <1>8
  <2>2. x % 1024 = 256 * (e % 4) + d
    BY <1>1, <1>2, <2>1
  <2>3. x % 4096 = 256 * (e % 16) + d
    BY <1>1, <1>2, <2>1
  <2>4. (256 * (e % 4) + d) \div 16 = 16 * (e % 4) + (d \div 16)
    BY <1>1
  <2>5. (256 * (e % 16) + d) \div 64 = 4 * (e % 16) + (d \div 64)
    BY <1>1
  <2> QED
    BY <2>2, <2>3, <2>4, <2>5
<1>6. \A b \in {0, 2, 4, 6} : Base64Char(Bits(v, b, 6)) \in Byte
  BY BitsAreSextets, CharOfSextet
<1>7. /\ Tail8(v) = d /\ Bits(v, 2, 6) = d \div 4 /\ Bits(v, 0, 6) = d % 64
      /\ \A e \in Byte : Tail8(w) = e => /\ Bits(v, 4, 6) = 16 * (e % 4) + (d \div 16)
                                      /\ Bits(v, 6, 6) = 4 * (e % 16) + (d \div 64)
  BY <1>4, <1>5, <1>8 DEF Tail8, Byte
<1> QED
  BY <1>3, <1>6, <1>7

\* A character pushed back to the output.
LEMMA AddedCharacter ==
  ASSUME NEW out \in Seq(Byte), NEW n \in Nat, Len(out) = n, NEW a \in Byte
  PROVE  /\ out \o <<a>> \in Seq(Byte)
         /\ Len(out \o <<a>>) = n + 1 /\ (out \o <<a>>)[n + 1] = a
         /\ \A j \in 1 .. n : (out \o <<a>>)[j] = out[j]
<1>1. <<a>> \in Seq(Byte) /\ Len(<<a>>) = 1
  OBVIOUS
<1> QED
  BY <1>1, ConcatProperties

\* Two characters pushed back to the output.
LEMMA AddedCharacters ==
  ASSUME NEW out \in Seq(Byte), NEW n \in Nat, Len(out) = n, NEW a \in Byte, NEW b \in Byte
  PROVE  /\ Len(out \o <<a, b>>) = n + 2
         /\ (out \o <<a, b>>)[n + 1] = a /\ (out \o <<a, b>>)[n + 2] = b
         /\ \A j \in 1 .. n : (out \o <<a, b>>)[j] = out[j]
<1>1. <<a, b>> \in Seq(Byte) /\ Len(<<a, b>>) = 2
  OBVIOUS
<1> QED
  BY <1>1, ConcatProperties

\* Before the first round nothing is written.
LEMMA EncodeStart ==
  ASSUME NEW data \in Seq(Byte)
  PROVE  EncodeInv(data, 0)
<1>1. EncodeLoop(data)[0] = [val |-> 0, valb |-> -6, out |-> <<>>]
  BY EncodeLoopUnfolds
<1>2. (4 * 0) \div 3 = 0 /\ -6 + 2 * (0 % 3) = -6 /\ 1 .. 0 = {}
  OBVIOUS
<1>3. <<>> \in Seq(Byte) /\ Len(<<>>) = 0
  OBVIOUS
<1> QED
  BY <1>1, <1>2, <1>3 DEF EncodeInv, EncodeStates

\* The numbers of bytes read and of sextets written, by the place in a group of three.
LEMMA Thirds ==
  ASSUME NEW i \in Nat
  PROVE  \E q \in Nat :
           \/ /\ i % 3 = 0 /\ (i + 1) % 3 = 1 /\ i + 1 = 3 * q + 1
              /\ (4 * i) \div 3 = 4 * q /\ (4 * (i + 1)) \div 3 = 4 * q + 1
           \/ /\ i % 3 = 1 /\ (i + 1) % 3 = 2 /\ i > 0 /\ i = 3 * q + 1
              /\ (4 * i) \div 3 = 4 * q + 1 /\ (4 * (i + 1)) \div 3 = 4 * q + 2
           \/ /\ i % 3 = 2 /\ (i + 1) % 3 = 0 /\ i > 0 /\ i = (3 * q + 1) + 1
              /\ (4 * i) \div 3 = 4 * q + 2 /\ (4 * (i + 1)) \div 3 = 4 * q + 4
<1>1. PICK q \in Nat : q = i \div 3
  OBVIOUS
<1>2. i = 3 * q \/ i = 3 * q + 1 \/ i = 3 * q + 2
  BY <1>1
<1> QED
  BY <1>2

\* The four sextets of a group of three bytes.
LEMMA SextetCases ==
  ASSUME NEW s, NEW q \in Nat
  PROVE  /\ Sextet(s, 4 * q + 1) = ByteAt(s, 3 * q + 1) \div 4
         /\ Sextet(s, 4 * q + 2)
              = 16 * (ByteAt(s, 3 * q + 1) % 4) + (ByteAt(s, (3 * q + 1) + 1) \div 16)
         /\ Sextet(s, 4 * q + 3)
              = 4 * (ByteAt(s, (3 * q + 1) + 1) % 16) + (ByteAt(s, (3 * q + 1) + 2) \div 64)
         /\ Sextet(s, 4 * q + 4) = ByteAt(s, (3 * q + 1) + 2) % 64
<1>1. /\ (4 * q + 1) % 4 = 1 /\ 3 * (((4 * q + 1) - 1) \div 4) + 1 = 3 * q + 1
      /\ (4 * q + 2) % 4 = 2 /\ 3 * (((4 * q + 2) - 1) \div 4) + 1 = 3 * q + 1
      /\ (4 * q + 3) % 4 = 3 /\ 3 * (((4 * q + 3) - 1) \div 4) + 1 = 3 * q + 1
      /\ (4 * q + 4) % 4 = 0 /\ 3 * (((4 * q + 4) - 1) \div 4) + 1 = 3 * q + 1
  OBVIOUS
<1> QED
  BY <1>1 DEF Sextet

\* A round of Encode writes the sextets that the next byte completes.
LEMMA EncodeStep ==
  ASSUME NEW data \in Seq(Byte), NEW i \in 0 .. Len(data) - 1, EncodeInv(data, i)
  PROVE  EncodeInv(data, i + 1)
<1>1. i \in Nat /\ i + 1 \in 1 .. Len(data) /\ (i + 1) - 1 = i /\ i + 1 > 0
      /\ (i > 0 => i \in 1 .. Len(data))
  BY LenProperties
<1>2. PICK st, new : st = EncodeLoop(data)[i] /\ new = EncodeLoop(data)[i + 1]
  OBVIOUS
<1>3. PICK d \in Byte : d = data[i + 1]
  BY <1>1, ElementOfSeq
<1>4. PICK e : e = data[i] /\ (i > 0 => e \in Byte)
  BY <1>1, ElementOfSeq
<1>5. new = EncodeByte(st, d)
  BY <1>1, <1>2, <1>3, EncodeLoopUnfolds
<1>6. /\ st \in EncodeStates /\ st.val \in Nat /\ st.out \in Seq(Byte)
      /\ st.valb = -6 + 2 * (i % 3)
      /\ i > 0 => Tail8(st.val) = e
      /\ Len(st.out) = (4 * i) \div 3
      /\ \A j \in 1 .. (4 * i) \div 3 : st.out[j] = Base64Char(Sextet(data, j))
  BY <1>2, <1>4 DEF EncodeInv, EncodeStates
<1>6a. st.out \in Seq(Byte) /\ Len(st.out) = (4 * i) \div 3 /\ st.valb = -6 + 2 * (i % 3)
  BY <1>6
<1>7. PICK v : v = Shifted(st.val, 8, d)
  OBVIOUS
<1>8. /\ v \in Nat /\ Tail8(v) = d
      /\ Bits(v, 2, 6) = d \div 4 /\ Bits(v, 0, 6) = d % 64
      /\ i > 0 => /\ Bits(v, 4, 6) = 16 * (e % 4) + (d \div 16)
                  /\ Bits(v, 6, 6) = 4 * (e % 16) + (d \div 64)
      /\ \A b \in {0, 2, 4, 6} : Base64Char(Bits(v, b, 6)) \in Byte
  BY <1>4, <1>6, <1>7, EncodedByte, ZenonT(60)
<1>8a. \A b \in {0, 2, 4, 6} : Base64Char(Bits(v, b, 6)) \in Byte
  BY <1>8
<1>9. new \in EncodeStates
  BY <1>5, <1>6, EncodeByteType
<1>10. ByteAt(data, i + 1) = d /\ (i > 0 => ByteAt(data, i) = e)
  BY <1>1, <1>3, <1>4 DEF ByteAt
<1>11. PICK q \in Nat :
         \/ /\ i % 3 = 0 /\ (i + 1) % 3 = 1 /\ i + 1 = 3 * q + 1
            /\ (4 * i) \div 3 = 4 * q /\ (4 * (i + 1)) \div 3 = 4 * q + 1
         \/ /\ i % 3 = 1 /\ (i + 1) % 3 = 2 /\ i > 0 /\ i = 3 * q + 1
            /\ (4 * i) \div 3 = 4 * q + 1 /\ (4 * (i + 1)) \div 3 = 4 * q + 2
         \/ /\ i % 3 = 2 /\ (i + 1) % 3 = 0 /\ i > 0 /\ i = (3 * q + 1) + 1
            /\ (4 * i) \div 3 = 4 * q + 2 /\ (4 * (i + 1)) \div 3 = 4 * q + 4
  BY <1>1, Thirds
<1>12. new.val = v => Tail8(new.val) = data[i + 1]
  BY <1>3, <1>8
\* The invariant from the characters that are added.
<1>13. ASSUME NEW a \in Nat, NEW b \in Nat,
              (4 * i) \div 3 = a, (4 * (i + 1)) \div 3 = b,
              new.val = v, new.valb = -6 + 2 * ((i + 1) % 3), Len(new.out) = b,
              \A j \in 1 .. a : new.out[j] = st.out[j],
              \A j \in a + 1 .. b : new.out[j] = Base64Char(Sextet(data, j))
       PROVE  EncodeInv(data, i + 1)
  <2>1. \A j \in 1 .. b : new.out[j] = Base64Char(Sextet(data, j))
    <3>1. \A j \in 1 .. b : j \in 1 .. a \/ j \in a + 1 .. b
      OBVIOUS
    <3>2. \A j \in 1 .. a : new.out[j] = Base64Char(Sextet(data, j))
      BY <1>6, <1>13
    <3> QED
      BY <1>13, <3>1, <3>2
  <2> QED
    BY <1>2, <1>9, <1>12, <1>13, <2>1 DEF EncodeInv
<1>16. CASE /\ i % 3 = 0 /\ (i + 1) % 3 = 1 /\ i + 1 = 3 * q + 1
            /\ (4 * i) \div 3 = 4 * q /\ (4 * (i + 1)) \div 3 = 4 * q + 1
  <2>1. st.valb = -6
    BY <1>6a, <1>16
  <2>2. new = [val |-> v, valb |-> -4, out |-> st.out \o <<Base64Char(Bits(v, 2, 6))>>]
    BY <1>5, <1>6, <1>7, <2>1, EncodeRound
  <2>3. Sextet(data, 4 * q + 1) = Bits(v, 2, 6)
    BY <1>8, <1>10, <1>16, SextetCases
  <2>4. /\ Len(new.out) = 4 * q + 1 /\ new.out[4 * q + 1] = Base64Char(Bits(v, 2, 6))
        /\ \A j \in 1 .. 4 * q : new.out[j] = st.out[j]
    <3>1. new.out = st.out \o <<Base64Char(Bits(v, 2, 6))>>
      BY <2>2
    <3>2. PICK out \in Seq(Byte), n \in Nat, a \in Byte :
            out = st.out /\ n = 4 * q /\ Len(out) = n /\ a = Base64Char(Bits(v, 2, 6))
      BY <1>6a, <1>8a, <1>16
    <3>3. /\ Len(out \o <<a>>) = n + 1 /\ (out \o <<a>>)[n + 1] = a
          /\ \A j \in 1 .. n : (out \o <<a>>)[j] = out[j]
      BY <3>2, AddedCharacter, ZenonT(60)
    <3> QED
      BY <3>1, <3>2, <3>3
  <2>5. new.val = v /\ new.valb = -6 + 2 * ((i + 1) % 3)
    BY <1>16, <2>2
  <2>6. 4 * q \in Nat /\ 4 * q + 1 \in Nat /\ \A j \in 4 * q + 1 .. 4 * q + 1 : j = 4 * q + 1
    OBVIOUS
  <2> QED
    BY <1>13, <1>16, <2>3, <2>4, <2>5, <2>6
<1>17. CASE /\ i % 3 = 1 /\ (i + 1) % 3 = 2 /\ i > 0 /\ i = 3 * q + 1
            /\ (4 * i) \div 3 = 4 * q + 1 /\ (4 * (i + 1)) \div 3 = 4 * q + 2
  <2>1. st.valb = -4
    BY <1>6a, <1>17
  <2>2. new = [val |-> v, valb |-> -2, out |-> st.out \o <<Base64Char(Bits(v, 4, 6))>>]
    BY <1>5, <1>6, <1>7, <2>1, EncodeRound
  <2>3. Sextet(data, 4 * q + 2) = Bits(v, 4, 6)
    BY <1>8, <1>10, <1>17, SextetCases
  <2>4. /\ Len(new.out) = 4 * q + 2 /\ new.out[4 * q + 2] = Base64Char(Bits(v, 4, 6))
        /\ \A j \in 1 .. 4 * q + 1 : new.out[j] = st.out[j]
    <3>1. new.out = st.out \o <<Base64Char(Bits(v, 4, 6))>>
      BY <2>2
    <3>2. PICK out \in Seq(Byte), n \in Nat, a \in Byte :
            out = st.out /\ n = 4 * q + 1 /\ Len(out) = n /\ a = Base64Char(Bits(v, 4, 6))
      BY <1>6a, <1>8a, <1>17
    <3>3. /\ Len(out \o <<a>>) = n + 1 /\ (out \o <<a>>)[n + 1] = a
          /\ \A j \in 1 .. n : (out \o <<a>>)[j] = out[j]
      BY <3>2, AddedCharacter, ZenonT(60)
    <3>4. n + 1 = 4 * q + 2
      BY <3>2
    <3> QED
      BY <3>1, <3>2, <3>3, <3>4
  <2>5. new.val = v /\ new.valb = -6 + 2 * ((i + 1) % 3)
    BY <1>17, <2>2
  <2>6. /\ 4 * q + 1 \in Nat /\ 4 * q + 2 \in Nat
        /\ \A j \in (4 * q + 1) + 1 .. 4 * q + 2 : j = 4 * q + 2
    OBVIOUS
  <2> QED
    BY <1>13, <1>17, <2>3, <2>4, <2>5, <2>6
<1>18. CASE /\ i % 3 = 2 /\ (i + 1) % 3 = 0 /\ i > 0 /\ i = (3 * q + 1) + 1
            /\ (4 * i) \div 3 = 4 * q + 2 /\ (4 * (i + 1)) \div 3 = 4 * q + 4
  <2>1. st.valb = -2 /\ (3 * q + 1) + 2 = i + 1
    BY <1>6a, <1>18
  <2>2. new = [val |-> v, valb |-> -6,
               out |-> st.out \o <<Base64Char(Bits(v, 6, 6)), Base64Char(Bits(v, 0, 6))>>]
    BY <1>5, <1>6, <1>7, <2>1, EncodeRound
  <2>3. Sextet(data, 4 * q + 3) = Bits(v, 6, 6) /\ Sextet(data, 4 * q + 4) = Bits(v, 0, 6)
    BY <1>8, <1>10, <1>18, <2>1, SextetCases
  <2>4. /\ Len(new.out) = 4 * q + 4
        /\ new.out[4 * q + 3] = Base64Char(Bits(v, 6, 6))
        /\ new.out[4 * q + 4] = Base64Char(Bits(v, 0, 6))
        /\ \A j \in 1 .. 4 * q + 2 : new.out[j] = st.out[j]
    <3>1. new.out = st.out \o <<Base64Char(Bits(v, 6, 6)), Base64Char(Bits(v, 0, 6))>>
      BY <2>2
    <3>2. PICK out \in Seq(Byte), n \in Nat, a \in Byte, b \in Byte :
            /\ out = st.out /\ n = 4 * q + 2 /\ Len(out) = n
            /\ a = Base64Char(Bits(v, 6, 6)) /\ b = Base64Char(Bits(v, 0, 6))
      BY <1>6a, <1>8a, <1>18
    <3>3. /\ Len(out \o <<a, b>>) = n + 2
          /\ (out \o <<a, b>>)[n + 1] = a /\ (out \o <<a, b>>)[n + 2] = b
          /\ \A j \in 1 .. n : (out \o <<a, b>>)[j] = out[j]
      <4>1. Len(out) = n
        BY <3>2
      <4> QED
        BY <4>1, AddedCharacters
    <3>4. n + 1 = 4 * q + 3 /\ n + 2 = 4 * q + 4
      BY <3>2
    <3> QED
      BY <3>1, <3>2, <3>3, <3>4
  <2>5. new.val = v /\ new.valb = -6 + 2 * ((i + 1) % 3)
    BY <1>18, <2>2
  <2>6. /\ 4 * q + 2 \in Nat /\ 4 * q + 4 \in Nat
        /\ \A j \in (4 * q + 2) + 1 .. 4 * q + 4 : j = 4 * q + 3 \/ j = 4 * q + 4
    OBVIOUS
  <2> QED
    BY <1>13, <1>18, <2>3, <2>4, <2>5, <2>6
<1> QED
  BY <1>11, <1>16, <1>17, <1>18

\* After the last round all complete sextets are written.
LEMMA EncodeInvHolds ==
  ASSUME NEW data \in Seq(Byte)
  PROVE  EncodeInv(data, Len(data))
<1>1. PICK n \in Nat : n = Len(data)
  BY LenProperties
<1> DEFINE S == {i \in 0 .. n : EncodeInv(data, i)}
<1>2. 0 \in S
  BY EncodeStart
<1>3. \A i \in 0 .. n - 1 : i \in S => i + 1 \in S
  BY <1>1, EncodeStep
<1> HIDE DEF S
<1>4. \A i \in 0 .. n : i \in S
  BY <1>2, <1>3, UpwardInduction
<1> QED
  BY <1>1, <1>4 DEF S
-----------------------------------------------------------------------------
(* What Encode returns.                                                    *)

CodeLength(s) == (8 * Len(s) + 5) \div 6

Code(s) == [j \in 1 .. CodeLength(s) |-> Base64Char(Sextet(s, j))]

\* The sextets of the data, as characters, are a text.
LEMMA CodeIsText ==
  ASSUME NEW s \in Seq(Byte)
  PROVE  /\ CodeLength(s) \in Nat /\ Code(s) \in Seq(Byte) /\ Len(Code(s)) = CodeLength(s)
         /\ \A j \in 1 .. CodeLength(s) :
              Sextet(s, j) \in 0 .. 63 /\ Code(s)[j] = Base64Char(Sextet(s, j))
<1>1. PICK n \in Nat : n = Len(s)
  BY LenProperties
<1>2. CodeLength(s) \in Nat
  BY <1>1 DEF CodeLength
<1>3. PICK m \in Nat : m = CodeLength(s)
  BY <1>2
<1>4. \A j \in 1 .. m : Sextet(s, j) \in 0 .. 63 /\ Base64Char(Sextet(s, j)) \in Byte
  <2> TAKE j \in 1 .. m
  <2>1. PICK i \in Nat \ {0} : i = j
    OBVIOUS
  <2>2. Sextet(s, i) \in 0 .. 63
    BY SextetRange
  <2>3. Base64Char(Sextet(s, i)) \in Byte
    BY <2>2, CharOfSextet
  <2> QED
    BY <2>1, <2>2, <2>3
<1>5. Code(s) = [j \in 1 .. m |-> Base64Char(Sextet(s, j))]
  BY <1>3 DEF Code
<1>6. /\ Code(s) \in Seq(Byte) /\ Len(Code(s)) = m
      /\ \A j \in 1 .. m : Code(s)[j] = Base64Char(Sextet(s, j))
  BY <1>4, <1>5
<1> QED
  BY <1>3, <1>4, <1>6

\* How many sextets the last round leaves incomplete: none or one.
LEMMA CodeLengths ==
  ASSUME NEW n \in Nat
  PROVE  \E q \in Nat :
           \/ n % 3 = 0 /\ (4 * n) \div 3 = (8 * n + 5) \div 6
           \/ /\ n % 3 = 1 /\ n > 0 /\ n = 3 * q + 1 /\ n + 1 = (3 * q + 1) + 1
              /\ (4 * n) \div 3 = 4 * q + 1 /\ (8 * n + 5) \div 6 = 4 * q + 2
           \/ /\ n % 3 = 2 /\ n > 0 /\ n = (3 * q + 1) + 1 /\ n + 1 = (3 * q + 1) + 2
              /\ (4 * n) \div 3 = 4 * q + 2 /\ (8 * n + 5) \div 6 = 4 * q + 3
<1>1. PICK q \in Nat : q = n \div 3
  OBVIOUS
<1>2. n = 3 * q \/ n = 3 * q + 1 \/ n = 3 * q + 2
  BY <1>1
<1> QED
  BY <1>2

\* The sextets of the data, filled up with zeros, as characters.
THEOREM EncodeIsSextets ==
  \A s \in Seq(Byte) : Encode(s) = Code(s) \o Padding(CodeLength(s))
<1> SUFFICES ASSUME NEW s \in Seq(Byte)
             PROVE  Encode(s) = Code(s) \o Padding(CodeLength(s))
  OBVIOUS
<1>1. PICK n \in Nat : n = Len(s)
  BY LenProperties
<1> DEFINE last(st) == IF st.valb > -6
                       THEN <<Base64Char(Bits(Shifted(st.val, 8, 0), st.valb + 8, 6))>>
                       ELSE <<>>
<1>2. PICK st : st = EncodeLoop(s)[n]
  OBVIOUS
<1>3. Encode(s) = (st.out \o last(st)) \o Padding(Len(st.out \o last(st)))
  BY <1>1, <1>2 DEF Encode
<1>4. PICK e : e = s[n] /\ (n > 0 => e \in Byte)
  <2>1. n > 0 => n \in 1 .. Len(s)
    BY <1>1
  <2> QED
    BY <2>1, ElementOfSeq
<1>5. /\ st.val \in Nat /\ st.out \in Seq(Byte)
      /\ st.valb = -6 + 2 * (n % 3)
      /\ n > 0 => Tail8(st.val) = e
      /\ Len(st.out) = (4 * n) \div 3
      /\ \A j \in 1 .. (4 * n) \div 3 : st.out[j] = Base64Char(Sextet(s, j))
  <2>1. EncodeInv(s, n)
    BY <1>1, EncodeInvHolds
  <2> QED
    BY <1>2, <1>4, <2>1 DEF EncodeInv, EncodeStates
<1>6. PICK v : v = Shifted(st.val, 8, 0)
  OBVIOUS
<1>7. /\ n > 0 => /\ Bits(v, 4, 6) = 16 * (e % 4) + (0 \div 16)
                  /\ Bits(v, 6, 6) = 4 * (e % 16) + (0 \div 64)
      /\ \A b \in {0, 2, 4, 6} : Base64Char(Bits(v, b, 6)) \in Byte
  <2>1. PICK w \in Nat, d \in Byte : w = st.val /\ d = 0
    BY <1>5 DEF Byte
  <2>2. v = Shifted(w, 8, d)
    BY <1>6, <2>1
  <2>3. /\ \A x \in Byte : Tail8(w) = x => /\ Bits(v, 4, 6) = 16 * (x % 4) + (d \div 16)
                                        /\ Bits(v, 6, 6) = 4 * (x % 16) + (d \div 64)
        /\ \A b \in {0, 2, 4, 6} : Base64Char(Bits(v, b, 6)) \in Byte
    BY <2>2, EncodedByte
  <2>4. n > 0 => Tail8(w) = e
    BY <1>5, <2>1
  <2> QED
    BY <1>4, <2>1, <2>3, <2>4
<1>8. ByteAt(s, n + 1) = 0 /\ (n > 0 => ByteAt(s, n) = e)
  <2>1. ~ (n + 1 <= n) /\ n <= n
    OBVIOUS
  <2> QED
    BY <1>1, <1>4, <2>1 DEF ByteAt
<1>9. /\ CodeLength(s) = (8 * n + 5) \div 6
      /\ CodeLength(s) \in Nat /\ Code(s) \in Seq(Byte) /\ Len(Code(s)) = CodeLength(s)
      /\ \A j \in 1 .. CodeLength(s) : Code(s)[j] = Base64Char(Sextet(s, j))
  BY <1>1, CodeIsText DEF CodeLength
<1>10. PICK q \in Nat :
         \/ n % 3 = 0 /\ (4 * n) \div 3 = (8 * n + 5) \div 6
         \/ /\ n % 3 = 1 /\ n > 0 /\ n = 3 * q + 1 /\ n + 1 = (3 * q + 1) + 1
            /\ (4 * n) \div 3 = 4 * q + 1 /\ (8 * n + 5) \div 6 = 4 * q + 2
         \/ /\ n % 3 = 2 /\ n > 0 /\ n = (3 * q + 1) + 1 /\ n + 1 = (3 * q + 1) + 2
            /\ (4 * n) \div 3 = 4 * q + 2 /\ (8 * n + 5) \div 6 = 4 * q + 3
  BY CodeLengths
\* The code from the characters of the loop and the last one.
<1>11. ASSUME NEW c \in Seq(Byte), Len(c) = CodeLength(s),
              \A j \in 1 .. CodeLength(s) : c[j] = Base64Char(Sextet(s, j))
       PROVE  c = Code(s)
  <2>1. \A j \in 1 .. Len(c) : c[j] = Code(s)[j]
    BY <1>9, <1>11
  <2> QED
    BY <1>9, <1>11, <2>1, SeqEqual
<1>12. ASSUME NEW a \in Nat, (4 * n) \div 3 = a, CodeLength(s) = a + 1,
              NEW c \in Byte, c = Base64Char(Sextet(s, a + 1))
       PROVE  st.out \o <<c>> = Code(s)
  <2>1. PICK out \in Seq(Byte) : out = st.out /\ Len(out) = a
    BY <1>5, <1>12
  <2>2. /\ out \o <<c>> \in Seq(Byte) /\ Len(out \o <<c>>) = a + 1
        /\ (out \o <<c>>)[a + 1] = c
        /\ \A j \in 1 .. a : (out \o <<c>>)[j] = out[j]
    <3>1. Len(out) = a
      BY <2>1
    <3> QED
      BY <3>1, AddedCharacter
  <2>3. \A j \in 1 .. a + 1 : j \in 1 .. a \/ j = a + 1
    OBVIOUS
  <2>4. \A j \in 1 .. a : out[j] = Base64Char(Sextet(s, j))
    BY <1>5, <1>12, <2>1
  <2>5. \A j \in 1 .. a + 1 : (out \o <<c>>)[j] = Base64Char(Sextet(s, j))
    BY <1>12, <2>2, <2>3, <2>4
  <2> QED
    BY <1>11, <1>12, <2>1, <2>2, <2>5
<1>13. st.out \o last(st) = Code(s)
  <2>1. CASE n % 3 = 0 /\ (4 * n) \div 3 = (8 * n + 5) \div 6
    <3>1. st.valb = -6
      BY <1>5, <2>1
    <3>2. last(st) = <<>>
      BY <3>1
    <3>3. st.out \o <<>> = st.out
      BY <1>5, ConcatEmptySeq
    <3>4. st.out = Code(s)
      BY <1>5, <1>9, <1>11, <2>1
    <3> QED
      BY <3>2, <3>3, <3>4
  <2>2. CASE /\ n % 3 = 1 /\ n > 0 /\ n = 3 * q + 1 /\ n + 1 = (3 * q + 1) + 1
             /\ (4 * n) \div 3 = 4 * q + 1 /\ (8 * n + 5) \div 6 = 4 * q + 2
    <3>1. st.valb = -4 /\ st.valb + 8 = 4 /\ st.valb > -6
      BY <1>5, <2>2
    <3>2. last(st) = <<Base64Char(Bits(v, 4, 6))>>
      BY <1>6, <3>1
    <3>3. Sextet(s, 4 * q + 2) = Bits(v, 4, 6)
      BY <1>7, <1>8, <2>2, SextetCases
    <3>4. PICK a \in Nat, c \in Byte :
            a = 4 * q + 1 /\ a + 1 = 4 * q + 2 /\ c = Base64Char(Bits(v, 4, 6))
      BY <1>7
    <3>5. st.out \o <<c>> = Code(s)
      <4>1. (4 * n) \div 3 = a /\ CodeLength(s) = a + 1
        BY <1>9, <2>2, <3>4
      <4>2. c = Base64Char(Sextet(s, a + 1))
        BY <3>3, <3>4
      <4> QED
        BY <1>12, <4>1, <4>2
    <3> QED
      BY <3>2, <3>4, <3>5
  <2>3. CASE /\ n % 3 = 2 /\ n > 0 /\ n = (3 * q + 1) + 1 /\ n + 1 = (3 * q + 1) + 2
             /\ (4 * n) \div 3 = 4 * q + 2 /\ (8 * n + 5) \div 6 = 4 * q + 3
    <3>1. st.valb = -2 /\ st.valb + 8 = 6 /\ st.valb > -6
      <4>1. -6 + 2 * 2 = -2 /\ -2 + 8 = 6 /\ -2 > -6
        OBVIOUS
      <4>2. st.valb = -6 + 2 * 2
        BY <1>5, <2>3
      <4> QED
        BY <4>1, <4>2
    <3>2. last(st) = <<Base64Char(Bits(v, 6, 6))>>
      BY <1>6, <3>1
    <3>3. Sextet(s, 4 * q + 3) = Bits(v, 6, 6)
      BY <1>7, <1>8, <2>3, SextetCases
    <3>4. PICK a \in Nat, c \in Byte :
            a = 4 * q + 2 /\ a + 1 = 4 * q + 3 /\ c = Base64Char(Bits(v, 6, 6))
      BY <1>7
    <3>5. st.out \o <<c>> = Code(s)
      <4>1. (4 * n) \div 3 = a /\ CodeLength(s) = a + 1
        BY <1>9, <2>3, <3>4
      <4>2. c = Base64Char(Sextet(s, a + 1))
        BY <3>3, <3>4
      <4> QED
        BY <1>12, <4>1, <4>2
    <3> QED
      BY <3>2, <3>4, <3>5
  <2> QED
    BY <1>10, <2>1, <2>2, <2>3
<1> QED
  BY <1>3, <1>9, <1>13
-----------------------------------------------------------------------------
(* The sextets are the bits of the data, six at a time.                    *)

BitOf(d, x) == (d \div 2^x) % 2

\* The parts of a byte that go into different sextets, bit by bit.
LEMMA BitsOfByte ==
  ASSUME NEW d \in 0 .. 255
  PROVE  /\ d \div 4 = 32 * BitOf(d, 7) + 16 * BitOf(d, 6) + 8 * BitOf(d, 5)
                        + 4 * BitOf(d, 4) + 2 * BitOf(d, 3) + BitOf(d, 2)
         /\ d % 4 = 2 * BitOf(d, 1) + BitOf(d, 0)
         /\ d \div 16 = 8 * BitOf(d, 7) + 4 * BitOf(d, 6) + 2 * BitOf(d, 5) + BitOf(d, 4)
         /\ d % 16 = 8 * BitOf(d, 3) + 4 * BitOf(d, 2) + 2 * BitOf(d, 1) + BitOf(d, 0)
         /\ d \div 64 = 2 * BitOf(d, 7) + BitOf(d, 6)
         /\ d % 64 = 32 * BitOf(d, 5) + 16 * BitOf(d, 4) + 8 * BitOf(d, 3)
                      + 4 * BitOf(d, 2) + 2 * BitOf(d, 1) + BitOf(d, 0)
         /\ \A x \in 0 .. 7 : BitOf(d, x) \in Nat
<1>1. /\ 2^0 = 1 /\ 2^1 = 2 /\ 2^2 = 4 /\ 2^3 = 8
      /\ 2^4 = 16 /\ 2^5 = 32 /\ 2^6 = 64 /\ 2^7 = 128
  OBVIOUS
<1>2. /\ BitOf(d, 0) = d % 2 /\ BitOf(d, 1) = (d \div 2) % 2 /\ BitOf(d, 2) = (d \div 4) % 2
      /\ BitOf(d, 3) = (d \div 8) % 2 /\ BitOf(d, 4) = (d \div 16) % 2
      /\ BitOf(d, 5) = (d \div 32) % 2 /\ BitOf(d, 6) = (d \div 64) % 2
      /\ BitOf(d, 7) = (d \div 128) % 2
  BY <1>1 DEF BitOf
<1>3. PICK b0, b1, b2, b3, b4, b5, b6, b7 \in {0, 1} :
        /\ b0 = BitOf(d, 0) /\ b1 = BitOf(d, 1) /\ b2 = BitOf(d, 2) /\ b3 = BitOf(d, 3)
        /\ b4 = BitOf(d, 4) /\ b5 = BitOf(d, 5) /\ b6 = BitOf(d, 6) /\ b7 = BitOf(d, 7)
  <2>1. \A k \in Nat : k % 2 \in {0, 1}
    OBVIOUS
  <2>2. /\ d \in Nat /\ d \div 2 \in Nat /\ d \div 4 \in Nat /\ d \div 8 \in Nat
        /\ d \div 16 \in Nat /\ d \div 32 \in Nat /\ d \div 64 \in Nat /\ d \div 128 \in Nat
    OBVIOUS
  <2> QED
    BY <1>2, <2>1, <2>2
<1>4. d = 128 * b7 + 64 * b6 + 32 * b5 + 16 * b4 + 8 * b3 + 4 * b2 + 2 * b1 + b0
  <2>0. /\ b0 = d % 2 /\ b1 = (d \div 2) % 2 /\ b2 = (d \div 4) % 2 /\ b3 = (d \div 8) % 2
        /\ b4 = (d \div 16) % 2 /\ b5 = (d \div 32) % 2 /\ b6 = (d \div 64) % 2
        /\ b7 = (d \div 128) % 2
    BY <1>2, <1>3
  <2>1. d = 2 * (d \div 2) + b0
    BY <2>0
  <2>2. d \div 2 = 2 * (d \div 4) + b1
    <3>1. d \div 2 = 2 * (d \div 4) + ((d \div 2) % 2)
      OBVIOUS
    <3> QED
      BY <2>0, <3>1
  <2>3. d \div 4 = 2 * (d \div 8) + b2
    <3>1. d \div 4 = 2 * (d \div 8) + ((d \div 4) % 2)
      OBVIOUS
    <3> QED
      BY <2>0, <3>1
  <2>4. d \div 8 = 2 * (d \div 16) + b3
    <3>1. d \div 8 = 2 * (d \div 16) + ((d \div 8) % 2)
      OBVIOUS
    <3> QED
      BY <2>0, <3>1
  <2>5. d \div 16 = 2 * (d \div 32) + b4
    <3>1. d \div 16 = 2 * (d \div 32) + ((d \div 16) % 2)
      OBVIOUS
    <3> QED
      BY <2>0, <3>1
  <2>6. d \div 32 = 2 * (d \div 64) + b5
    <3>1. d \div 32 = 2 * (d \div 64) + ((d \div 32) % 2)
      OBVIOUS
    <3> QED
      BY <2>0, <3>1
  <2>7. d \div 64 = 2 * (d \div 128) + b6
    <3>1. d \div 64 = 2 * (d \div 128) + ((d \div 64) % 2)
      OBVIOUS
    <3> QED
      BY <2>0, <3>1
  <2>8. d \div 128 = b7
    <3>1. d \div 128 \in {0, 1}
      OBVIOUS
    <3> QED
      BY <1>2, <1>3, <3>1
  <2> QED
    BY <2>1, <2>2, <2>3, <2>4, <2>5, <2>6, <2>7, <2>8
<1>5. /\ d \div 4 = 32 * b7 + 16 * b6 + 8 * b5 + 4 * b4 + 2 * b3 + b2
      /\ d % 4 = 2 * b1 + b0
      /\ d \div 16 = 8 * b7 + 4 * b6 + 2 * b5 + b4
      /\ d % 16 = 8 * b3 + 4 * b2 + 2 * b1 + b0
      /\ d \div 64 = 2 * b7 + b6
      /\ d % 64 = 32 * b5 + 16 * b4 + 8 * b3 + 4 * b2 + 2 * b1 + b0
  BY <1>4
<1>6. \A x \in 0 .. 7 : BitOf(d, x) \in Nat
  <2> TAKE x \in 0 .. 7
  <2>1. x = 0 \/ x = 1 \/ x = 2 \/ x = 3 \/ x = 4 \/ x = 5 \/ x = 6 \/ x = 7
    OBVIOUS
  <2> QED
    BY <1>3, <2>1
<1> QED
  BY <1>3, <1>5, <1>6

\* The powers of two that are used are positive.
LEMMA PowerOfTwo ==
  ASSUME NEW x \in 0 .. 7
  PROVE  2^x \in Nat \ {0}
<1>1. x = 0 \/ x = 1 \/ x = 2 \/ x = 3 \/ x = 4 \/ x = 5 \/ x = 6 \/ x = 7
  OBVIOUS
<1>2. /\ 2^0 \in Nat \ {0} /\ 2^1 \in Nat \ {0} /\ 2^2 \in Nat \ {0} /\ 2^3 \in Nat \ {0}
      /\ 2^4 \in Nat \ {0} /\ 2^5 \in Nat \ {0} /\ 2^6 \in Nat \ {0} /\ 2^7 \in Nat \ {0}
  OBVIOUS
<1> QED
  BY <1>1, <1>2, Zenon

\* The bits of the data, and the five zeros behind them.
LEMMA BitsAt ==
  ASSUME NEW s \in Seq(Byte), NEW n \in Nat, n = Len(s)
  PROVE  /\ Len(BitsOf(s) \o <<0, 0, 0, 0, 0>>) = 8 * n + 5
         /\ \A p \in Nat, x \in 0 .. 7 :
              p > 0 /\ 8 * p - x <= 8 * n + 5
              => (BitsOf(s) \o <<0, 0, 0, 0, 0>>)[8 * p - x] = BitOf(ByteAt(s, p), x)
<1> DEFINE zeros == <<0, 0, 0, 0, 0>>
           bit(b) == (s[(b + 7) \div 8] \div 2^((8 * n - b) % 8)) % 2
<1>1. BitsOf(s) = [b \in 1 .. 8 * n |-> bit(b)]
  BY DEF BitsOf
<1>2. BitsOf(s) \in Seq(Int) /\ Len(BitsOf(s)) = 8 * n
  <2>1. \A b \in 1 .. 8 * n : bit(b) \in Int
    <3> TAKE b \in 1 .. 8 * n
    <3>1. (b + 7) \div 8 \in 1 .. n
      OBVIOUS
    <3>2. s[(b + 7) \div 8] \in Nat
      <4>1. PICK i \in 1 .. Len(s) : i = (b + 7) \div 8
        BY <3>1
      <4>2. s[i] \in Byte
        BY ElementOfSeq
      <4>3. s[i] \in Nat
        <5>1. \A e \in Byte : e \in Nat
          BY DEF Byte
        <5> QED
          BY <4>2, <5>1
      <4> QED
        BY <4>1, <4>3, Zenon
    <3>3. PICK d \in Nat, y \in 0 .. 7 : d = s[(b + 7) \div 8] /\ y = (8 * n - b) % 8
      BY <3>2
    <3>4. 2^y \in Nat \ {0}
      BY PowerOfTwo
    <3>5. PICK z \in Nat \ {0} : z = 2^y
      BY <3>4
    <3>6. (d \div z) % 2 \in Int
      OBVIOUS
    <3> QED
      BY <3>3, <3>5, <3>6
  <2>2. 8 * n \in Nat
    OBVIOUS
  <2> HIDE DEF bit
  <2> QED
    BY <1>1, <2>1, <2>2
<1>3. zeros \in Seq(Int) /\ Len(zeros) = 5 /\ \A k \in 1 .. 5 : zeros[k] = 0
  OBVIOUS
<1> HIDE DEF zeros
<1>4. /\ Len(BitsOf(s) \o zeros) = 8 * n + 5
      /\ \A b \in 1 .. 8 * n + 5 :
           (BitsOf(s) \o zeros)[b] = IF b <= 8 * n THEN BitsOf(s)[b] ELSE zeros[b - 8 * n]
  <2>1. PICK bits \in Seq(Int) : bits = BitsOf(s) /\ Len(bits) = 8 * n
    BY <1>2
  <2>2. /\ Len(bits \o zeros) = Len(bits) + Len(zeros)
        /\ \A b \in 1 .. Len(bits) + Len(zeros) :
             (bits \o zeros)[b] = IF b <= Len(bits) THEN bits[b] ELSE zeros[b - Len(bits)]
    BY <1>3, ConcatProperties
  <2> QED
    BY <1>3, <2>1, <2>2
<1>5. ASSUME NEW p \in Nat, NEW x \in 0 .. 7, p > 0, 8 * p - x <= 8 * n + 5
      PROVE  (BitsOf(s) \o zeros)[8 * p - x] = BitOf(ByteAt(s, p), x)
  <2>1. 8 * p - x \in 1 .. 8 * n + 5
    BY <1>5
  <2>2. CASE p <= n
    <3>1. 8 * p - x <= 8 * n /\ 8 * p - x \in 1 .. 8 * n
      BY <1>5, <2>2
    <3>2. ((8 * p - x) + 7) \div 8 = p /\ (8 * n - (8 * p - x)) % 8 = x
      BY <1>5, <2>2
    <3>3. BitsOf(s)[8 * p - x] = (s[p] \div 2^x) % 2
      <4>1. BitsOf(s)[8 * p - x] = bit(8 * p - x)
        BY <1>1, <3>1
      <4> QED
        BY <3>2, <4>1
    <3>4. ByteAt(s, p) = s[p]
      BY <2>2 DEF ByteAt
    <3> QED
      BY <1>4, <2>1, <3>1, <3>3, <3>4 DEF BitOf
  <2>3. CASE ~ (p <= n)
    <3>1. ~ (8 * p - x <= 8 * n) /\ (8 * p - x) - 8 * n \in 1 .. 5
      BY <1>5, <2>3
    <3>2. (BitsOf(s) \o zeros)[8 * p - x] = 0
      BY <1>3, <1>4, <2>1, <3>1
    <3>3. ByteAt(s, p) = 0
      BY <2>3 DEF ByteAt
    <3>4. BitOf(0, x) = 0
      <4>1. PICK z \in Nat \ {0} : z = 2^x
        BY PowerOfTwo
      <4>2. (0 \div z) % 2 = 0
        OBVIOUS
      <4> QED
        BY <4>1, <4>2 DEF BitOf
    <3> QED
      BY <3>2, <3>3, <3>4
  <2> QED
    BY <2>2, <2>3
<1> QED
  BY <1>4, <1>5 DEF zeros

\* A byte of the data, or the zero behind it.
LEMMA ByteAtRange ==
  ASSUME NEW s \in Seq(Byte), NEW p \in Nat, p > 0
  PROVE  ByteAt(s, p) \in 0 .. 255
<1>1. CASE p <= Len(s)
  <2>1. p \in 1 .. Len(s)
    BY <1>1, LenProperties
  <2>2. s[p] \in Byte
    BY <2>1, ElementOfSeq
  <2> QED
    BY <1>1, <2>2 DEF ByteAt, Byte
<1>2. CASE ~ (p <= Len(s))
  BY <1>2 DEF ByteAt
<1> QED
  BY <1>1, <1>2

\* Six bits of the text as a number.
SixBits(bits, j) ==
  32 * bits[6 * j - 5] + 16 * bits[6 * j - 4] + 8 * bits[6 * j - 3]
    + 4 * bits[6 * j - 2] + 2 * bits[6 * j - 1] + bits[6 * j]

\* Six bits of the data in a row, filled up with zeros, are a sextet.
LEMMA SextetIsSixBits ==
  ASSUME NEW s \in Seq(Byte), NEW j \in 1 .. CodeLength(s)
  PROVE  SixBits(BitsOf(s) \o <<0, 0, 0, 0, 0>>, j) = Sextet(s, j)
<1>1. PICK n \in Nat : n = Len(s)
  BY LenProperties
<1>2. CodeLength(s) = (8 * n + 5) \div 6
  BY <1>1 DEF CodeLength
<1>3. PICK i \in Nat : i = j /\ i > 0 /\ 6 * i <= 8 * n + 5
  BY <1>2
<1>4. PICK q \in Nat : i = 4 * q + 1 \/ i = 4 * q + 2 \/ i = 4 * q + 3 \/ i = 4 * q + 4
  <2>1. PICK q \in Nat : q = (i - 1) \div 4
    BY <1>3
  <2>2. i = 4 * q + 1 \/ i = 4 * q + 2 \/ i = 4 * q + 3 \/ i = 4 * q + 4
    BY <1>3, <2>1
  <2> QED
    BY <2>2
<1>5. PICK p \in Nat : p = 3 * q + 1 /\ p > 0
  OBVIOUS
<1>6. PICK a, b, c \in 0 .. 255 :
        a = ByteAt(s, p) /\ b = ByteAt(s, p + 1) /\ c = ByteAt(s, p + 2)
  <2>1. p + 1 \in Nat /\ p + 1 > 0 /\ p + 2 \in Nat /\ p + 2 > 0
    OBVIOUS
  <2> QED
    BY <1>5, <2>1, ByteAtRange
<1>7. PICK bits : bits = BitsOf(s) \o <<0, 0, 0, 0, 0>>
  OBVIOUS
<1>8. \A k \in Nat, x \in 0 .. 7 : k <= 8 * n + 5 =>
        /\ k = 8 * p - x => bits[k] = BitOf(a, x)
        /\ k = 8 * (p + 1) - x => bits[k] = BitOf(b, x)
        /\ k = 8 * (p + 2) - x => bits[k] = BitOf(c, x)
  <2>1. \A r \in Nat, x \in 0 .. 7 :
          r > 0 /\ 8 * r - x <= 8 * n + 5 => bits[8 * r - x] = BitOf(ByteAt(s, r), x)
    BY <1>1, <1>7, BitsAt
  <2>2. p + 1 \in Nat /\ p + 1 > 0 /\ p + 2 \in Nat /\ p + 2 > 0
    OBVIOUS
  <2> TAKE k \in Nat, x \in 0 .. 7
  <2>3. k = 8 * p - x /\ k <= 8 * n + 5 => bits[k] = BitOf(a, x)
    BY <1>5, <1>6, <2>1
  <2>4. k = 8 * (p + 1) - x /\ k <= 8 * n + 5 => bits[k] = BitOf(b, x)
    BY <1>6, <2>1, <2>2
  <2>5. k = 8 * (p + 2) - x /\ k <= 8 * n + 5 => bits[k] = BitOf(c, x)
    BY <1>6, <2>1, <2>2
  <2> QED
    BY <2>3, <2>4, <2>5
<1>14. /\ 6 * i - 5 \in Nat /\ 6 * i - 4 \in Nat /\ 6 * i - 3 \in Nat
       /\ 6 * i - 2 \in Nat /\ 6 * i - 1 \in Nat /\ 6 * i \in Nat
       /\ 6 * i - 5 <= 8 * n + 5 /\ 6 * i - 4 <= 8 * n + 5 /\ 6 * i - 3 <= 8 * n + 5
       /\ 6 * i - 2 <= 8 * n + 5 /\ 6 * i - 1 <= 8 * n + 5 /\ 6 * i <= 8 * n + 5
  BY <1>3
<1>15. /\ a \div 4 = 32 * BitOf(a, 7) + 16 * BitOf(a, 6) + 8 * BitOf(a, 5)
                        + 4 * BitOf(a, 4) + 2 * BitOf(a, 3) + BitOf(a, 2)
       /\ a % 4 = 2 * BitOf(a, 1) + BitOf(a, 0)
       /\ \A x \in 0 .. 7 : BitOf(a, x) \in Nat
  BY BitsOfByte
<1>16. /\ b \div 16 = 8 * BitOf(b, 7) + 4 * BitOf(b, 6) + 2 * BitOf(b, 5) + BitOf(b, 4)
       /\ b % 16 = 8 * BitOf(b, 3) + 4 * BitOf(b, 2) + 2 * BitOf(b, 1) + BitOf(b, 0)
       /\ \A x \in 0 .. 7 : BitOf(b, x) \in Nat
  BY BitsOfByte
<1>17. /\ c \div 64 = 2 * BitOf(c, 7) + BitOf(c, 6)
       /\ c % 64 = 32 * BitOf(c, 5) + 16 * BitOf(c, 4) + 8 * BitOf(c, 3)
                     + 4 * BitOf(c, 2) + 2 * BitOf(c, 1) + BitOf(c, 0)
       /\ \A x \in 0 .. 7 : BitOf(c, x) \in Nat
  BY BitsOfByte
<1>9. /\ Sextet(s, 4 * q + 1) = a \div 4 /\ Sextet(s, 4 * q + 2) = 16 * (a % 4) + (b \div 16)
      /\ Sextet(s, 4 * q + 3) = 4 * (b % 16) + (c \div 64) /\ Sextet(s, 4 * q + 4) = c % 64
  BY <1>5, <1>6, SextetCases
<1>10. CASE i = 4 * q + 1
  <2>1. /\ 6 * i - 5 = 8 * p - 7 /\ 6 * i - 4 = 8 * p - 6 /\ 6 * i - 3 = 8 * p - 5
        /\ 6 * i - 2 = 8 * p - 4 /\ 6 * i - 1 = 8 * p - 3 /\ 6 * i = 8 * p - 2
    BY <1>5, <1>10
  <2>2. /\ bits[6 * i - 5] = BitOf(a, 7) /\ bits[6 * i - 4] = BitOf(a, 6)
        /\ bits[6 * i - 3] = BitOf(a, 5) /\ bits[6 * i - 2] = BitOf(a, 4)
        /\ bits[6 * i - 1] = BitOf(a, 3) /\ bits[6 * i] = BitOf(a, 2)
    BY <1>8, <1>14, <2>1
  <2>3. SixBits(bits, i) = a \div 4
    BY <1>15, <1>16, <1>17, <2>2 DEF SixBits
  <2> QED
    BY <1>3, <1>7, <1>9, <1>10, <2>3
<1>11. CASE i = 4 * q + 2
  <2>1. /\ 6 * i - 5 = 8 * p - 1 /\ 6 * i - 4 = 8 * p - 0 /\ 6 * i - 3 = 8 * (p + 1) - 7
        /\ 6 * i - 2 = 8 * (p + 1) - 6 /\ 6 * i - 1 = 8 * (p + 1) - 5
        /\ 6 * i = 8 * (p + 1) - 4
    BY <1>5, <1>11
  <2>2. /\ bits[6 * i - 5] = BitOf(a, 1) /\ bits[6 * i - 4] = BitOf(a, 0)
        /\ bits[6 * i - 3] = BitOf(b, 7) /\ bits[6 * i - 2] = BitOf(b, 6)
        /\ bits[6 * i - 1] = BitOf(b, 5) /\ bits[6 * i] = BitOf(b, 4)
    BY <1>8, <1>14, <2>1
  <2>3. SixBits(bits, i) = 16 * (a % 4) + (b \div 16)
    <3>0. /\ BitOf(a, 1) \in Nat /\ BitOf(a, 0) \in Nat
          /\ BitOf(b, 7) \in Nat /\ BitOf(b, 6) \in Nat /\ BitOf(b, 5) \in Nat /\ BitOf(b, 4) \in Nat
      <4>1. 0 \in 0 .. 7 /\ 1 \in 0 .. 7 /\ 4 \in 0 .. 7 /\ 5 \in 0 .. 7 /\ 6 \in 0 .. 7 /\ 7 \in 0 .. 7
        OBVIOUS
      <4> QED
        BY <1>15, <1>16, <4>1
    <3>1. PICK a1, a0, b7, b6, b5, b4 \in Nat :
            /\ a1 = BitOf(a, 1) /\ a0 = BitOf(a, 0)
            /\ b7 = BitOf(b, 7) /\ b6 = BitOf(b, 6) /\ b5 = BitOf(b, 5) /\ b4 = BitOf(b, 4)
      BY <3>0
    <3>2. a % 4 = 2 * a1 + a0 /\ b \div 16 = 8 * b7 + 4 * b6 + 2 * b5 + b4
      BY <1>15, <1>16, <3>1
    <3>3. SixBits(bits, i) = 32 * a1 + 16 * a0 + 8 * b7 + 4 * b6 + 2 * b5 + b4
      BY <2>2, <3>1 DEF SixBits
    <3> QED
      BY <3>2, <3>3
  <2> QED
    BY <1>3, <1>7, <1>9, <1>11, <2>3
<1>12. CASE i = 4 * q + 3
  <2>1. /\ 6 * i - 5 = 8 * (p + 1) - 3 /\ 6 * i - 4 = 8 * (p + 1) - 2
        /\ 6 * i - 3 = 8 * (p + 1) - 1 /\ 6 * i - 2 = 8 * (p + 1) - 0
        /\ 6 * i - 1 = 8 * (p + 2) - 7 /\ 6 * i = 8 * (p + 2) - 6
    BY <1>5, <1>12
  <2>2. /\ bits[6 * i - 5] = BitOf(b, 3) /\ bits[6 * i - 4] = BitOf(b, 2)
        /\ bits[6 * i - 3] = BitOf(b, 1) /\ bits[6 * i - 2] = BitOf(b, 0)
        /\ bits[6 * i - 1] = BitOf(c, 7) /\ bits[6 * i] = BitOf(c, 6)
    BY <1>8, <1>14, <2>1
  <2>3. SixBits(bits, i) = 4 * (b % 16) + (c \div 64)
    <3>0. /\ BitOf(b, 3) \in Nat /\ BitOf(b, 2) \in Nat /\ BitOf(b, 1) \in Nat /\ BitOf(b, 0) \in Nat
          /\ BitOf(c, 7) \in Nat /\ BitOf(c, 6) \in Nat
      <4>1. 0 \in 0 .. 7 /\ 1 \in 0 .. 7 /\ 2 \in 0 .. 7 /\ 3 \in 0 .. 7 /\ 6 \in 0 .. 7 /\ 7 \in 0 .. 7
        OBVIOUS
      <4> QED
        BY <1>16, <1>17, <4>1
    <3>1. PICK b3, b2, b1, b0, c7, c6 \in Nat :
            /\ b3 = BitOf(b, 3) /\ b2 = BitOf(b, 2) /\ b1 = BitOf(b, 1) /\ b0 = BitOf(b, 0)
            /\ c7 = BitOf(c, 7) /\ c6 = BitOf(c, 6)
      BY <3>0
    <3>2. b % 16 = 8 * b3 + 4 * b2 + 2 * b1 + b0 /\ c \div 64 = 2 * c7 + c6
      BY <1>16, <1>17, <3>1
    <3>3. SixBits(bits, i) = 32 * b3 + 16 * b2 + 8 * b1 + 4 * b0 + 2 * c7 + c6
      BY <2>2, <3>1 DEF SixBits
    <3> QED
      BY <3>2, <3>3
  <2> QED
    BY <1>3, <1>7, <1>9, <1>12, <2>3
<1>13. CASE i = 4 * q + 4
  <2>1. /\ 6 * i - 5 = 8 * (p + 2) - 5 /\ 6 * i - 4 = 8 * (p + 2) - 4
        /\ 6 * i - 3 = 8 * (p + 2) - 3 /\ 6 * i - 2 = 8 * (p + 2) - 2
        /\ 6 * i - 1 = 8 * (p + 2) - 1 /\ 6 * i = 8 * (p + 2) - 0
    BY <1>5, <1>13
  <2>2. /\ bits[6 * i - 5] = BitOf(c, 5) /\ bits[6 * i - 4] = BitOf(c, 4)
        /\ bits[6 * i - 3] = BitOf(c, 3) /\ bits[6 * i - 2] = BitOf(c, 2)
        /\ bits[6 * i - 1] = BitOf(c, 1) /\ bits[6 * i] = BitOf(c, 0)
    BY <1>8, <1>14, <2>1
  <2>3. SixBits(bits, i) = c % 64
    BY <1>15, <1>16, <1>17, <2>2 DEF SixBits
  <2> QED
    BY <1>3, <1>7, <1>9, <1>13, <2>3
<1> QED
  BY <1>4, <1>10, <1>11, <1>12, <1>13

\* Base64IsTheBits for data of any length: Encode writes the bits of the data and
\* nothing else, although val overflows.
THEOREM Base64WritesTheBits == Spec => []Base64IsTheBits
<1>1. ASSUME TextOK PROVE Base64IsTheBits
  <2> DEFINE bits == BitsOf(text) \o <<0, 0, 0, 0, 0>>
             n == Len(bits) \div 6
  <2>1. text \in Seq(Byte)
    BY <1>1 DEF TextOK
  <2>2. n = CodeLength(text)
    <3>1. PICK m \in Nat : m = Len(text)
      BY <2>1, LenProperties
    <3>2. Len(bits) = 8 * m + 5
      BY <2>1, <3>1, BitsAt
    <3> QED
      BY <3>1, <3>2 DEF CodeLength
  <2>3. \A j \in 1 .. n : SixBits(bits, j) = Sextet(text, j)
    BY <2>1, <2>2, SextetIsSixBits
  <2>4. [j \in 1 .. n |-> Base64Char(SixBits(bits, j))] = Code(text)
    BY <2>2, <2>3 DEF Code
  <2>5. Encode(text) = [j \in 1 .. n |-> Base64Char(SixBits(bits, j))] \o Padding(n)
    BY <2>1, <2>2, <2>4, EncodeIsSextets
  <2> QED
    BY <2>5 DEF Base64IsTheBits, SixBits
<1> QED
  BY <1>1, TextIsBytes, PTL
-----------------------------------------------------------------------------
(* The loop of DecodeToBytes.                                              *)

Base64Chars == {Base64Char(x) : x \in 0 .. 63}

DecodeStates == [val : Nat, valb : {-8, -2, -4, -6}, out : Seq(Byte)]

\* What a round of the loop does, by the number of bits that are left over.
LEMMA DecodeRound ==
  ASSUME NEW st \in DecodeStates, NEW x \in 0 .. 63, NEW v, v = Shifted(st.val, 6, x)
  PROVE  LET new == DecodeChar(st, Base64Char(x)) IN
         /\ st.valb = -8 => new = [val |-> v, valb |-> -2, out |-> st.out]
         /\ st.valb = -2 => new = [val |-> v, valb |-> -4, out |-> Append(st.out, Bits(v, 4, 8))]
         /\ st.valb = -4 => new = [val |-> v, valb |-> -6, out |-> Append(st.out, Bits(v, 2, 8))]
         /\ st.valb = -6 => new = [val |-> v, valb |-> -8, out |-> Append(st.out, Bits(v, 0, 8))]
<1>1. (CHOOSE k \in 0 .. 63 : Base64Char(k) = Base64Char(x)) = x
  BY CharOfSextet
<1>2. DecodeChar(st, Base64Char(x))
        = IF st.valb + 6 >= 0
          THEN [val |-> v, valb |-> (st.valb + 6) - 8,
                out |-> Append(st.out, Bits(v, st.valb + 6, 8))]
          ELSE [val |-> v, valb |-> st.valb + 6, out |-> st.out]
  BY <1>1 DEF DecodeChar
<1>3. /\ -8 + 6 = -2 /\ ~ (-2 >= 0)
      /\ -2 + 6 = 4 /\ 4 >= 0 /\ 4 - 8 = -4
      /\ -4 + 6 = 2 /\ 2 >= 0 /\ 2 - 8 = -6
      /\ -6 + 6 = 0 /\ 0 >= 0 /\ 0 - 8 = -8
  OBVIOUS
<1>4. CASE st.valb = -8
  BY <1>2, <1>3, <1>4
<1>5. CASE st.valb = -2
  BY <1>2, <1>3, <1>5
<1>6. CASE st.valb = -4
  BY <1>2, <1>3, <1>6
<1>7. CASE st.valb = -6
  BY <1>2, <1>3, <1>7
<1> QED
  BY <1>4, <1>5, <1>6, <1>7 DEF DecodeStates

\* Eight bits are a byte.
LEMMA BitsAreBytes ==
  ASSUME NEW v \in Nat, NEW b \in {0, 2, 4}
  PROVE  Bits(v, b, 8) \in Byte
<1>1. b = 0 \/ b = 2 \/ b = 4
  OBVIOUS
<1>2. 2^0 = 1 /\ 2^2 = 4 /\ 2^4 = 16 /\ 2^8 = 256
  OBVIOUS
<1>3. /\ (v \div 1) % 256 \in 0 .. 255 /\ (v \div 4) % 256 \in 0 .. 255
      /\ (v \div 16) % 256 \in 0 .. 255
  OBVIOUS
<1> QED
  BY <1>1, <1>2, <1>3 DEF Bits, Byte

\* A round of DecodeToBytes leaves 0, 2, 4 or 6 bits unread.
LEMMA DecodeCharType ==
  ASSUME NEW st \in DecodeStates, NEW c \in Base64Chars
  PROVE  DecodeChar(st, c) \in DecodeStates
<1>1. PICK x \in 0 .. 63 : c = Base64Char(x)
  BY DEF Base64Chars
<1>2. PICK v \in Nat : v = Shifted(st.val, 6, x)
  <2>1. PICK w \in Nat, y \in Nat : w = st.val /\ y = x
    BY DEF DecodeStates
  <2>2. Shifted(w, 6, y) \in Nat
    BY ShiftedBits
  <2> QED
    BY <2>1, <2>2
<1>3. \A b \in {0, 2, 4} : Append(st.out, Bits(v, b, 8)) \in Seq(Byte)
  <2>1. \A b \in {0, 2, 4} : Bits(v, b, 8) \in Byte
    BY BitsAreBytes
  <2>2. st.out \in Seq(Byte)
    BY DEF DecodeStates
  <2> QED
    BY <2>1, <2>2, AppendProperties
<1>4. st.valb = -8 \/ st.valb = -2 \/ st.valb = -4 \/ st.valb = -6
  BY DEF DecodeStates
<1>5. st.out \in Seq(Byte)
  BY DEF DecodeStates
<1>6. CASE st.valb = -8
  <2>1. DecodeChar(st, c) = [val |-> v, valb |-> -2, out |-> st.out]
    BY <1>1, <1>2, <1>6, DecodeRound
  <2> QED
    BY <1>5, <2>1 DEF DecodeStates
<1>7. CASE st.valb = -2
  <2>1. DecodeChar(st, c) = [val |-> v, valb |-> -4, out |-> Append(st.out, Bits(v, 4, 8))]
    BY <1>1, <1>2, <1>7, DecodeRound
  <2> QED
    BY <1>3, <2>1 DEF DecodeStates
<1>8. CASE st.valb = -4
  <2>1. DecodeChar(st, c) = [val |-> v, valb |-> -6, out |-> Append(st.out, Bits(v, 2, 8))]
    BY <1>1, <1>2, <1>8, DecodeRound
  <2> QED
    BY <1>3, <2>1 DEF DecodeStates
<1>9. CASE st.valb = -6
  <2>1. DecodeChar(st, c) = [val |-> v, valb |-> -8, out |-> Append(st.out, Bits(v, 0, 8))]
    BY <1>1, <1>2, <1>9, DecodeRound
  <2> QED
    BY <1>3, <2>1 DEF DecodeStates
<1> QED
  BY <1>4, <1>6, <1>7, <1>8, <1>9

\* The loop has the states that its rounds make.
LEMMA DecodeLoopUnfolds ==
  ASSUME NEW s \in Seq(Base64Chars)
  PROVE  /\ DecodeLoop(s)[0] = [val |-> 0, valb |-> -8, out |-> <<>>]
         /\ \A i \in 1 .. Len(s) : DecodeLoop(s)[i] = DecodeChar(DecodeLoop(s)[i - 1], s[i])
<1>1. PICK n : n = Len(s)
  OBVIOUS
<1>2. n \in Nat
  BY <1>1, LenProperties
<1>3. \A i \in 1 .. n : s[i] \in Base64Chars
  BY <1>1, ElementOfSeq
<1> DEFINE c == [val |-> 0, valb |-> -8, out |-> <<>>]
           Unfolds(f) == f = [i \in 0 .. n |-> IF i = 0 THEN c ELSE DecodeChar(f[i - 1], s[i])]
           loop == CHOOSE f : Unfolds(f)
<1>4. c \in DecodeStates
  BY EmptySeq DEF DecodeStates
<1> HIDE DEF c
<1>5. PICK step \in Steps(n, DecodeStates) :
        \A i \in 1 .. n, v \in DecodeStates : step[i][v] = DecodeChar(v, s[i])
  <2> DEFINE step == [i \in 1 .. n |-> [v \in DecodeStates |-> DecodeChar(v, s[i])]]
  <2>1. \A i \in 1 .. n, v \in DecodeStates : DecodeChar(v, s[i]) \in DecodeStates
    BY <1>3, DecodeCharType
  <2>2. step \in Steps(n, DecodeStates)
    BY <2>1 DEF Steps
  <2>3. \A i \in 1 .. n, v \in DecodeStates : step[i][v] = DecodeChar(v, s[i])
    OBVIOUS
  <2> HIDE DEF step
  <2> QED
    BY <2>2, <2>3
<1>6. PICK g : g \in Loops(n, DecodeStates, c, step)
  BY <1>2, <1>4, LoopExists
<1>7. /\ g \in [0 .. n -> DecodeStates] /\ g[0] = c
      /\ \A i \in 1 .. n : g[i] = step[i][g[i - 1]]
  BY <1>6 DEF Loops
<1>8. \A i \in 1 .. n : g[i] = DecodeChar(g[i - 1], s[i])
  <2>1. \A i \in 1 .. n : g[i - 1] \in DecodeStates
    BY <1>2, <1>7
  <2> QED
    BY <1>5, <1>7, <2>1
<1>9. Unfolds(g)
  BY <1>7, <1>8
<1>10. Unfolds(loop)
  <2> HIDE DEF Unfolds
  <2> QED
    BY <1>9
<1> HIDE DEF loop
<1>11. loop[0] = c /\ \A i \in 1 .. n : loop[i] = DecodeChar(loop[i - 1], s[i])
  BY <1>2, <1>10
<1>12. DecodeLoop(s) = loop
  BY <1>1 DEF DecodeLoop, loop, c
<1> QED
  BY <1>1, <1>11, <1>12 DEF c

Tail6(v) == v % 64

\* What a character adds to the accumulator w, and the bytes that are then read.
LEMMA DecodedChar ==
  ASSUME NEW w \in Nat, NEW x \in 0 .. 63
  PROVE  LET v == Shifted(w, 6, x) IN
         /\ v \in Nat /\ Tail6(v) = x
         /\ \A y \in 0 .. 63 : Tail6(w) = y => /\ Bits(v, 4, 8) = 4 * y + (x \div 16)
                                             /\ Bits(v, 2, 8) = 16 * (y % 16) + (x \div 4)
                                             /\ Bits(v, 0, 8) = 64 * (y % 4) + x
         /\ \A b \in {0, 2, 4} : Bits(v, b, 8) \in Byte
<1>1. PICK u \in Nat : u = 64 * w + x
  OBVIOUS
<1>2. PICK v \in Nat : v = Shifted(w, 6, x) /\ Low12(v) = Low12(u)
  <2>1. PICK c \in Nat : c = x
    OBVIOUS
  <2>2. Shifted(w, 6, c) \in Nat /\ Shifted(w, 6, c) % 4096 = (64 * w + c) % 4096
    BY ShiftedBits
  <2> QED
    BY <1>1, <2>1, <2>2 DEF Low12
<1>3. /\ Bits(v, 4, 8) = (u % 4096) \div 16 /\ Bits(v, 2, 8) = (u % 1024) \div 4
      /\ Bits(v, 0, 8) = u % 256 /\ v % 64 = u % 64
  BY <1>2, LowBits
<1>4. u % 64 = x
  BY <1>1
<1>5. ASSUME NEW y \in 0 .. 63, w % 64 = y
      PROVE  /\ (u % 4096) \div 16 = 4 * y + (x \div 16)
             /\ (u % 1024) \div 4 = 16 * (y % 16) + (x \div 4)
             /\ u % 256 = 64 * (y % 4) + x
  <2>1. PICK a \in Nat : w = 64 * a + y
    BY <1>5
  <2>2. u % 4096 = 64 * y + x
    BY <1>1, <2>1
  <2>3. u % 1024 = 64 * (y % 16) + x
    BY <1>1, <2>1
  <2>4. u % 256 = 64 * (y % 4) + x
    BY <1>1, <2>1
  <2>5. (64 * y + x) \div 16 = 4 * y + (x \div 16)
    OBVIOUS
  <2>6. (64 * (y % 16) + x) \div 4 = 16 * (y % 16) + (x \div 4)
    OBVIOUS
  <2> QED
    BY <2>2, <2>3, <2>4, <2>5, <2>6
<1>6. \A b \in {0, 2, 4} : Bits(v, b, 8) \in Byte
  BY BitsAreBytes
<1>7. /\ Tail6(v) = x
      /\ \A y \in 0 .. 63 : Tail6(w) = y => /\ Bits(v, 4, 8) = 4 * y + (x \div 16)
                                          /\ Bits(v, 2, 8) = 16 * (y % 16) + (x \div 4)
                                          /\ Bits(v, 0, 8) = 64 * (y % 4) + x
  BY <1>3, <1>4, <1>5 DEF Tail6
<1> QED
  BY <1>2, <1>6, <1>7

\* After j characters of the code of s: the accumulator ends with the last sextet, the
\* bytes that are complete are read.
DecodeInv(s, j) ==
  LET st == DecodeLoop(Code(s))[j]
  IN  /\ st \in DecodeStates
      /\ st.valb = IF j % 4 = 0 THEN -8 ELSE -2 * (j % 4)
      /\ j > 0 => Tail6(st.val) = Sextet(s, j)
      /\ Len(st.out) = (3 * j) \div 4
      /\ \A p \in 1 .. (3 * j) \div 4 : st.out[p] = ByteAt(s, p)

\* The characters of the encoding are Base64 characters.
LEMMA CodeIsBase64 ==
  ASSUME NEW s \in Seq(Byte)
  PROVE  Code(s) \in Seq(Base64Chars)
<1>1. PICK n \in Nat : n = CodeLength(s)
  BY CodeIsText
<1>2. \A j \in 1 .. n : Base64Char(Sextet(s, j)) \in Base64Chars
  BY <1>1, CodeIsText DEF Base64Chars
<1>3. Code(s) = [j \in 1 .. n |-> Base64Char(Sextet(s, j))]
  BY <1>1 DEF Code
<1> QED
  BY <1>2, <1>3

\* Before the first round nothing is decoded.
LEMMA DecodeStart ==
  ASSUME NEW s \in Seq(Byte)
  PROVE  DecodeInv(s, 0)
<1>1. DecodeLoop(Code(s))[0] = [val |-> 0, valb |-> -8, out |-> <<>>]
  BY CodeIsBase64, DecodeLoopUnfolds
<1>2. (3 * 0) \div 4 = 0 /\ 0 % 4 = 0 /\ 1 .. 0 = {}
  OBVIOUS
<1>3. <<>> \in Seq(Byte) /\ Len(<<>>) = 0
  OBVIOUS
<1> QED
  BY <1>1, <1>2, <1>3 DEF DecodeInv, DecodeStates

\* The numbers of sextets read and of bytes written, by the place in a group of four.
LEMMA Fourths ==
  ASSUME NEW j \in Nat
  PROVE  \E q \in Nat :
           \/ /\ j % 4 = 0 /\ (j + 1) % 4 = 1 /\ (3 * j) \div 4 = (3 * (j + 1)) \div 4
           \/ /\ j % 4 = 1 /\ (j + 1) % 4 = 2 /\ j > 0 /\ j = 4 * q + 1 /\ j + 1 = 4 * q + 2
              /\ (3 * j) \div 4 = 3 * q /\ (3 * (j + 1)) \div 4 = 3 * q + 1
           \/ /\ j % 4 = 2 /\ (j + 1) % 4 = 3 /\ j > 0 /\ j = 4 * q + 2 /\ j + 1 = 4 * q + 3
              /\ (3 * j) \div 4 = 3 * q + 1 /\ (3 * (j + 1)) \div 4 = (3 * q + 1) + 1
           \/ /\ j % 4 = 3 /\ (j + 1) % 4 = 0 /\ j > 0 /\ j = 4 * q + 3 /\ j + 1 = 4 * q + 4
              /\ (3 * j) \div 4 = (3 * q + 1) + 1 /\ (3 * (j + 1)) \div 4 = (3 * q + 1) + 2
<1>1. PICK q \in Nat : q = j \div 4
  OBVIOUS
<1>2. j = 4 * q \/ j = 4 * q + 1 \/ j = 4 * q + 2 \/ j = 4 * q + 3
  BY <1>1
<1> QED
  BY <1>2

\* The second and the third of the sextets of three bytes; the first byte and the last
\* are found again in them.
Second(a, b) == 16 * (a % 4) + (b \div 16)
Third(b, c)  == 4 * (b % 16) + (c \div 64)

\* Bytes are put together again from the sextets they were cut into.
LEMMA Regroup ==
  ASSUME NEW a \in 0 .. 255, NEW b \in 0 .. 255, NEW c \in 0 .. 255
  PROVE  /\ 4 * (a \div 4) + (Second(a, b) \div 16) = a
         /\ 64 * (Third(b, c) % 4) + (c % 64) = c
<1>1. Second(a, b) \div 16 = a % 4
  BY DEF Second
<1>2. Third(b, c) % 4 = c \div 64
  BY DEF Third
<1>3. 4 * (a \div 4) + (a % 4) = a /\ 64 * (c \div 64) + (c % 64) = c
  OBVIOUS
<1> QED
  BY <1>1, <1>2, <1>3

\* A round of DecodeToBytes writes the byte that the next character completes.
LEMMA DecodeStep ==
  ASSUME NEW s \in Seq(Byte), NEW j \in 0 .. CodeLength(s) - 1, DecodeInv(s, j)
  PROVE  DecodeInv(s, j + 1)
<1>1. /\ j \in Nat /\ j + 1 \in 1 .. CodeLength(s) /\ (j + 1) - 1 = j /\ j + 1 > 0
      /\ (j > 0 => j \in 1 .. CodeLength(s))
  BY CodeIsText
<1>2. PICK st, new : st = DecodeLoop(Code(s))[j] /\ new = DecodeLoop(Code(s))[j + 1]
  OBVIOUS
<1>3. PICK x \in 0 .. 63 : x = Sextet(s, j + 1) /\ Code(s)[j + 1] = Base64Char(x)
  BY <1>1, CodeIsText
<1>4. PICK y : y = Sextet(s, j) /\ (j > 0 => y \in 0 .. 63)
  BY <1>1, CodeIsText
<1>5. new = DecodeChar(st, Base64Char(x))
  <2>1. Code(s) \in Seq(Base64Chars) /\ Len(Code(s)) = CodeLength(s)
    BY CodeIsBase64, CodeIsText
  <2> QED
    BY <1>1, <1>2, <1>3, <2>1, DecodeLoopUnfolds
<1>6. /\ st \in DecodeStates /\ st.val \in Nat /\ st.out \in Seq(Byte)
      /\ st.valb = IF j % 4 = 0 THEN -8 ELSE -2 * (j % 4)
      /\ j > 0 => Tail6(st.val) = y
      /\ Len(st.out) = (3 * j) \div 4
      /\ \A p \in 1 .. (3 * j) \div 4 : st.out[p] = ByteAt(s, p)
  BY <1>2, <1>4 DEF DecodeInv, DecodeStates
<1>6a. st.valb = IF j % 4 = 0 THEN -8 ELSE -2 * (j % 4)
  BY <1>6
<1>7. PICK v : v = Shifted(st.val, 6, x)
  OBVIOUS
<1>8. /\ v \in Nat /\ Tail6(v) = x
      /\ j > 0 => /\ Bits(v, 4, 8) = 4 * y + (x \div 16)
                  /\ Bits(v, 2, 8) = 16 * (y % 16) + (x \div 4)
                  /\ Bits(v, 0, 8) = 64 * (y % 4) + x
      /\ \A b \in {0, 2, 4} : Bits(v, b, 8) \in Byte
  <2>1. PICK w \in Nat : w = st.val
    BY <1>6
  <2>2. v = Shifted(w, 6, x)
    BY <1>7, <2>1
  <2>3. /\ v \in Nat /\ Tail6(v) = x
        /\ \A z \in 0 .. 63 : Tail6(w) = z => /\ Bits(v, 4, 8) = 4 * z + (x \div 16)
                                            /\ Bits(v, 2, 8) = 16 * (z % 16) + (x \div 4)
                                            /\ Bits(v, 0, 8) = 64 * (z % 4) + x
        /\ \A b \in {0, 2, 4} : Bits(v, b, 8) \in Byte
    BY <2>2, DecodedChar, ZenonT(60)
  <2>4. j > 0 => Tail6(w) = y
    BY <1>6, <2>1
  <2> QED
    BY <1>4, <2>3, <2>4
<1>9. new \in DecodeStates
  <2>1. Base64Char(x) \in Base64Chars
    BY DEF Base64Chars
  <2> QED
    BY <1>5, <1>6, <2>1, DecodeCharType
<1>10. /\ st.valb = -8 => new = [val |-> v, valb |-> -2, out |-> st.out]
       /\ st.valb = -2 => new = [val |-> v, valb |-> -4, out |-> Append(st.out, Bits(v, 4, 8))]
       /\ st.valb = -4 => new = [val |-> v, valb |-> -6, out |-> Append(st.out, Bits(v, 2, 8))]
       /\ st.valb = -6 => new = [val |-> v, valb |-> -8, out |-> Append(st.out, Bits(v, 0, 8))]
  BY <1>5, <1>6, <1>7, DecodeRound
\* The invariant from the byte that is added.
<1>11. ASSUME NEW n \in Nat, (3 * j) \div 4 = n, (3 * (j + 1)) \div 4 = n + 1,
              NEW b \in Byte, b = ByteAt(s, n + 1), new.val = v, new.out = Append(st.out, b),
              new.valb = IF (j + 1) % 4 = 0 THEN -8 ELSE -2 * ((j + 1) % 4)
       PROVE  DecodeInv(s, j + 1)
  <2>1. PICK out \in Seq(Byte) : out = st.out /\ Len(out) = n
    BY <1>6, <1>11
  <2>2. /\ Len(Append(out, b)) = n + 1 /\ Append(out, b)[n + 1] = b
        /\ \A p \in 1 .. n : Append(out, b)[p] = out[p]
    BY <2>1, AppendProperties
  <2>3. \A p \in 1 .. n : out[p] = ByteAt(s, p)
    BY <1>6, <1>11, <2>1
  <2>4. \A p \in 1 .. n + 1 : Append(out, b)[p] = ByteAt(s, p)
    <3>1. \A p \in 1 .. n + 1 : p \in 1 .. n \/ p = n + 1
      OBVIOUS
    <3> QED
      BY <1>11, <2>2, <2>3, <3>1
  <2>5. Tail6(new.val) = Sextet(s, j + 1)
    BY <1>3, <1>8, <1>11
  <2>6. new.out = Append(out, b)
    BY <1>11, <2>1
  <2> QED
    BY <1>2, <1>9, <1>11, <2>2, <2>4, <2>5, <2>6 DEF DecodeInv
<1>12. PICK q \in Nat :
         \/ /\ j % 4 = 0 /\ (j + 1) % 4 = 1 /\ (3 * j) \div 4 = (3 * (j + 1)) \div 4
         \/ /\ j % 4 = 1 /\ (j + 1) % 4 = 2 /\ j > 0 /\ j = 4 * q + 1 /\ j + 1 = 4 * q + 2
            /\ (3 * j) \div 4 = 3 * q /\ (3 * (j + 1)) \div 4 = 3 * q + 1
         \/ /\ j % 4 = 2 /\ (j + 1) % 4 = 3 /\ j > 0 /\ j = 4 * q + 2 /\ j + 1 = 4 * q + 3
            /\ (3 * j) \div 4 = 3 * q + 1 /\ (3 * (j + 1)) \div 4 = (3 * q + 1) + 1
         \/ /\ j % 4 = 3 /\ (j + 1) % 4 = 0 /\ j > 0 /\ j = 4 * q + 3 /\ j + 1 = 4 * q + 4
            /\ (3 * j) \div 4 = (3 * q + 1) + 1 /\ (3 * (j + 1)) \div 4 = (3 * q + 1) + 2
  BY <1>1, Fourths
<1>13. PICK a, b, c \in 0 .. 255 :
         a = ByteAt(s, 3 * q + 1) /\ b = ByteAt(s, (3 * q + 1) + 1) /\ c = ByteAt(s, (3 * q + 1) + 2)
  <2>1. /\ 3 * q + 1 \in Nat /\ 3 * q + 1 > 0 /\ (3 * q + 1) + 1 \in Nat /\ (3 * q + 1) + 1 > 0
        /\ (3 * q + 1) + 2 \in Nat /\ (3 * q + 1) + 2 > 0
    OBVIOUS
  <2> QED
    BY <2>1, ByteAtRange
<1>14. /\ Sextet(s, 4 * q + 1) = a \div 4 /\ Sextet(s, 4 * q + 2) = Second(a, b)
       /\ Sextet(s, 4 * q + 3) = Third(b, c) /\ Sextet(s, 4 * q + 4) = c % 64
  BY <1>13, SextetCases DEF Second, Third
<1>15. CASE j % 4 = 0 /\ (j + 1) % 4 = 1 /\ (3 * j) \div 4 = (3 * (j + 1)) \div 4
  <2>1. st.valb = -8 /\ -2 * 1 = -2 /\ ~ (1 = 0)
    BY <1>6a, <1>15
  <2>2. new = [val |-> v, valb |-> -2, out |-> st.out]
    BY <1>10, <2>1
  <2>3. Tail6(new.val) = Sextet(s, j + 1)
    BY <1>3, <1>8, <2>2
  <2>4. new.valb = IF (j + 1) % 4 = 0 THEN -8 ELSE -2 * ((j + 1) % 4)
    BY <1>15, <2>1, <2>2
  <2>5. /\ Len(new.out) = (3 * (j + 1)) \div 4
        /\ \A p \in 1 .. (3 * (j + 1)) \div 4 : new.out[p] = ByteAt(s, p)
    BY <1>6, <1>15, <2>2
  <2> QED
    BY <1>2, <1>9, <2>3, <2>4, <2>5 DEF DecodeInv
<1>16. CASE /\ j % 4 = 1 /\ (j + 1) % 4 = 2 /\ j > 0 /\ j = 4 * q + 1 /\ j + 1 = 4 * q + 2
            /\ (3 * j) \div 4 = 3 * q /\ (3 * (j + 1)) \div 4 = 3 * q + 1
  <2>1. st.valb = -2 /\ -2 * 2 = -4 /\ ~ (2 = 0)
    BY <1>6a, <1>16
  <2>2. new = [val |-> v, valb |-> -4, out |-> Append(st.out, Bits(v, 4, 8))]
    BY <1>10, <2>1
  <2>3. y = a \div 4 /\ x = Second(a, b)
    BY <1>3, <1>4, <1>14, <1>16
  <2>4. Bits(v, 4, 8) = a
    <3>1. 4 * (a \div 4) + (Second(a, b) \div 16) = a
      BY Regroup, ZenonT(60)
    <3>2. Bits(v, 4, 8) = 4 * y + (x \div 16)
      BY <1>8, <1>16
    <3> QED
      BY <2>3, <3>1, <3>2
  <2>5. PICK n \in Nat, d \in Byte : n = 3 * q /\ n + 1 = 3 * q + 1 /\ d = a
    BY DEF Byte
  <2> QED
    BY <1>11, <1>13, <1>16, <2>1, <2>2, <2>4, <2>5
<1>17. CASE /\ j % 4 = 2 /\ (j + 1) % 4 = 3 /\ j > 0 /\ j = 4 * q + 2 /\ j + 1 = 4 * q + 3
            /\ (3 * j) \div 4 = 3 * q + 1 /\ (3 * (j + 1)) \div 4 = (3 * q + 1) + 1
  <2>1. st.valb = -4 /\ -2 * 3 = -6 /\ ~ (3 = 0)
    BY <1>6a, <1>17
  <2>2. new = [val |-> v, valb |-> -6, out |-> Append(st.out, Bits(v, 2, 8))]
    BY <1>10, <2>1
  <2>3. y = Second(a, b) /\ x = Third(b, c)
    BY <1>3, <1>4, <1>14, <1>17
  <2>4. Bits(v, 2, 8) = b
    <3>1. 16 * (Second(a, b) % 16) + (Third(b, c) \div 4) = b
      <4>1. Second(a, b) % 16 = b \div 16
        BY DEF Second
      <4>2. Third(b, c) \div 4 = b % 16
        BY DEF Third
      <4> QED
        BY <4>1, <4>2
    <3>2. Bits(v, 2, 8) = 16 * (y % 16) + (x \div 4)
      BY <1>8, <1>17
    <3> QED
      BY <2>3, <3>1, <3>2
  <2>5. PICK n \in Nat, d \in Byte : n = 3 * q + 1 /\ d = b
    BY DEF Byte
  <2> QED
    BY <1>11, <1>13, <1>17, <2>1, <2>2, <2>4, <2>5
<1>18. CASE /\ j % 4 = 3 /\ (j + 1) % 4 = 0 /\ j > 0 /\ j = 4 * q + 3 /\ j + 1 = 4 * q + 4
            /\ (3 * j) \div 4 = (3 * q + 1) + 1 /\ (3 * (j + 1)) \div 4 = (3 * q + 1) + 2
  <2>1. st.valb = -6
    <3>1. -2 * 3 = -6 /\ ~ (3 = 0)
      OBVIOUS
    <3>2. st.valb = IF 3 = 0 THEN -8 ELSE -2 * 3
      BY <1>6, <1>18
    <3> QED
      BY <3>1, <3>2
  <2>2. new = [val |-> v, valb |-> -8, out |-> Append(st.out, Bits(v, 0, 8))]
    BY <1>10, <2>1
  <2>3. y = Third(b, c) /\ x = c % 64
    BY <1>3, <1>4, <1>14, <1>18
  <2>4. Bits(v, 0, 8) = c
    <3>1. 64 * (Third(b, c) % 4) + (c % 64) = c
      BY Regroup, ZenonT(60)
    <3>2. Bits(v, 0, 8) = 64 * (y % 4) + x
      BY <1>8, <1>18
    <3> QED
      BY <2>3, <3>1, <3>2
  <2>5. PICK n \in Nat, d \in Byte :
          n = (3 * q + 1) + 1 /\ n + 1 = (3 * q + 1) + 2 /\ d = c
    BY DEF Byte
  <2> QED
    BY <1>11, <1>13, <1>18, <2>1, <2>2, <2>4, <2>5
<1> QED
  BY <1>12, <1>15, <1>16, <1>17, <1>18

\* All characters of the code give all bytes of the data.
LEMMA DecodeLoopOfCode ==
  ASSUME NEW s \in Seq(Byte)
  PROVE  DecodeLoop(Code(s))[Len(Code(s))].out = s
<1>1. PICK n \in Nat : n = Len(s)
  BY LenProperties
<1>2. PICK m \in Nat : m = CodeLength(s) /\ m = Len(Code(s)) /\ m = (8 * n + 5) \div 6
  BY <1>1, CodeIsText DEF CodeLength
<1> DEFINE S == {j \in 0 .. m : DecodeInv(s, j)}
<1>3. 0 \in S
  BY DecodeStart
<1>4. ASSUME NEW j \in 0 .. m - 1, j \in S PROVE j + 1 \in S
  <2>1. j \in 0 .. CodeLength(s) - 1 /\ DecodeInv(s, j) /\ j + 1 \in 0 .. m
    BY <1>2, <1>4
  <2>2. DecodeInv(s, j + 1)
    BY <2>1, DecodeStep
  <2> QED
    BY <2>1, <2>2
<1>5. DecodeInv(s, m)
  <2> HIDE DEF S
  <2>1. \A j \in 0 .. m : j \in S
    BY <1>3, <1>4, UpwardInduction
  <2> QED
    BY <2>1 DEF S
<1>6. (3 * m) \div 4 = n
  <2>1. PICK q \in Nat : n = 3 * q \/ n = 3 * q + 1 \/ n = 3 * q + 2
    <3>1. PICK q \in Nat : q = n \div 3
      OBVIOUS
    <3>2. n = 3 * q \/ n = 3 * q + 1 \/ n = 3 * q + 2
      BY <3>1
    <3> QED
      BY <3>2
  <2>2. \/ n = 3 * q /\ m = 4 * q
        \/ n = 3 * q + 1 /\ m = 4 * q + 2
        \/ n = 3 * q + 2 /\ m = 4 * q + 3
    BY <1>2, <2>1
  <2> QED
    BY <2>2
<1>7. PICK out \in Seq(Byte) : out = DecodeLoop(Code(s))[m].out /\ Len(out) = n
                               /\ \A p \in 1 .. n : out[p] = ByteAt(s, p)
  BY <1>5, <1>6 DEF DecodeInv, DecodeStates
<1>8. \A p \in 1 .. n : out[p] = s[p]
  BY <1>1, <1>7 DEF ByteAt
<1> QED
  BY <1>1, <1>2, <1>7, <1>8, SeqEqual
-----------------------------------------------------------------------------
(* What is encoded is valid and decoded again.                             *)

\* Decoding ends at the first character that is no Base64 character.
LEMMA DecodeStops ==
  ASSUME NEW code \in Seq(Byte), NEW t \in Seq(Byte),
         \A j \in 1 .. Len(code) : IsBase64Char(code[j]),
         t = <<>> \/ (Len(t) > 0 /\ t[1] = Pad)
  PROVE  DecodeToBytes(code \o t) = DecodeLoop(code)[Len(code)].out
<1>1. PICK m \in Nat, k \in Nat : m = Len(code) /\ k = Len(t)
  BY LenProperties
<1>2. PICK e \in Seq(Byte) :
        /\ e = code \o t /\ Len(e) = m + k
        /\ \A i \in 1 .. m + k : e[i] = IF i <= m THEN code[i] ELSE t[i - m]
  <2>1. /\ code \o t \in Seq(Byte) /\ Len(code \o t) = Len(code) + Len(t)
        /\ \A i \in 1 .. Len(code) + Len(t) :
             (code \o t)[i] = IF i <= Len(code) THEN code[i] ELSE t[i - Len(code)]
    BY ConcatProperties
  <2> QED
    BY <1>1, <2>1
<1> DEFINE I == {i \in 1 .. Len(e) : ~ IsBase64Char(e[i])}
           end == IF I # {} THEN Min(I) ELSE 0
           chars == IF end = 0 THEN e ELSE SubSeq(e, 1, end - 1)
<1>3. DecodeToBytes(e) = DecodeLoop(chars)[Len(chars)].out
  BY DEF DecodeToBytes, SelectInSeq
<1>4. chars = code
  <2>1. \A i \in 1 .. m : i \notin I
    <3>1. \A i \in 1 .. m : i \in 1 .. m + k /\ i <= m
      OBVIOUS
    <3>2. \A i \in 1 .. m : e[i] = code[i]
      BY <1>2, <3>1
    <3> QED
      BY <1>1, <3>2
  <2>2. CASE t = <<>>
    <3>1. k = 0
      BY <1>1, <2>2
    <3>2. I = {}
      BY <1>2, <2>1, <3>1
    <3>3. e = code
      BY <1>2, <2>2, ConcatEmptySeq
    <3> QED
      BY <3>2, <3>3
  <2>3. CASE Len(t) > 0 /\ t[1] = Pad
    <3>1. ~ IsBase64Char(Pad)
      BY DEF IsBase64Char, Pad, Digits, UpperCase, LowerCase
    <3>2. m + 1 \in 1 .. m + k /\ ~ (m + 1 <= m) /\ (m + 1) - m = 1
      BY <1>1, <2>3
    <3>3. e[m + 1] = Pad
      BY <1>2, <2>3, <3>2
    <3>4. m + 1 \in I /\ \A i \in I : m + 1 <= i
      <4>1. m + 1 \in I
        BY <1>2, <3>1, <3>2, <3>3
      <4>2. ASSUME NEW i \in I PROVE m + 1 <= i
        <5>1. i \in Nat /\ i \in 1 .. m + k /\ ~ (i \in 1 .. m)
          BY <1>2, <2>1
        <5> QED
          BY <5>1
      <4> QED
        BY <4>1, <4>2
    <3>5. \A i \in I : i \in Nat
      BY <1>2
    <3>6. Min(I) = m + 1
      <4> HIDE DEF I
      <4>1. \A x \in I : (\A y \in I : x <= y) => x = m + 1
        BY <3>4, <3>5
      <4> QED
        BY <3>4, <4>1 DEF Min
    <3>7. chars = SubSeq(e, 1, m)
      <4>1. I # {}
        BY <3>4
      <4> HIDE DEF I
      <4>2. end = m + 1 /\ m + 1 # 0 /\ (m + 1) - 1 = m
        BY <3>6, <4>1
      <4> QED
        BY <4>2
    <3>8. SubSeq(e, 1, m) = code
      BY <1>1, <1>2, SubSeqOfConcat1, SubSeqFull
    <3> QED
      BY <3>7, <3>8
  <2> QED
    BY <2>2, <2>3
<1> QED
  BY <1>2, <1>3, <1>4

\* The padding is at most three equals signs.
LEMMA PaddingIsPad ==
  ASSUME NEW n \in Nat
  PROVE  /\ Padding(n) \in Seq(Byte) /\ Len(Padding(n)) = (4 - (n % 4)) % 4
         /\ \A i \in 1 .. (4 - (n % 4)) % 4 : Padding(n)[i] = Pad
<1>1. PICK k \in Nat : k = (4 - (n % 4)) % 4
  OBVIOUS
<1>2. Padding(n) = [i \in 1 .. k |-> Pad]
  BY <1>1 DEF Padding
<1>3. Pad \in Byte
  BY DEF Pad, Byte
<1> QED
  BY <1>1, <1>2, <1>3

\* Encoded data is valid, and is decoded to itself with whatever follows it after the
\* padding.
THEOREM EncodeDecodes ==
  \A s \in Seq(Byte) :
    /\ IsValidBase64(Encode(s))
    /\ DecodeToBytes(Encode(s)) = s
    /\ \A t \in Seq(Byte) : DecodeToBytes(Encode(s) \o <<Pad>> \o t) = s
<1> SUFFICES ASSUME NEW s \in Seq(Byte)
             PROVE  /\ IsValidBase64(Encode(s))
                    /\ DecodeToBytes(Encode(s)) = s
                    /\ \A t \in Seq(Byte) : DecodeToBytes(Encode(s) \o <<Pad>> \o t) = s
  OBVIOUS
<1>1. PICK n \in Nat, m \in Nat : n = Len(s) /\ m = CodeLength(s) /\ m = (8 * n + 5) \div 6
  BY LenProperties, CodeIsText DEF CodeLength
<1>2. PICK code \in Seq(Byte) :
        /\ code = Code(s) /\ Len(code) = m /\ DecodeLoop(code)[Len(code)].out = s
        /\ \A j \in 1 .. Len(code) : IsBase64Char(code[j])
  <2>1. Code(s) \in Seq(Byte) /\ Len(Code(s)) = m
    BY <1>1, CodeIsText
  <2>2. \A j \in 1 .. m : IsBase64Char(Code(s)[j])
    <3> TAKE j \in 1 .. m
    <3>1. PICK x \in 0 .. 63 : Code(s)[j] = Base64Char(x)
      BY <1>1, CodeIsText
    <3>2. IsBase64Char(Base64Char(x))
      BY CharOfSextet
    <3> QED
      BY <3>1, <3>2
  <2>3. DecodeLoop(Code(s))[Len(Code(s))].out = s
    BY DecodeLoopOfCode
  <2> QED
    BY <2>1, <2>2, <2>3
<1>3. PICK k \in Nat, pad \in Seq(Byte) :
        /\ k = (4 - (m % 4)) % 4 /\ pad = Padding(m) /\ Len(pad) = k
        /\ \A i \in 1 .. k : pad[i] = Pad
  <2>1. (4 - (m % 4)) % 4 \in Nat
    OBVIOUS
  <2> QED
    BY <2>1, PaddingIsPad
<1>4. Encode(s) = code \o pad
  BY <1>1, <1>2, <1>3, EncodeIsSextets
<1>5. pad = <<>> \/ (Len(pad) > 0 /\ pad[1] = Pad)
  <2>1. CASE k = 0
    BY <1>3, <2>1, EmptySeq
  <2>2. CASE k # 0
    <3>1. 1 \in 1 .. k /\ k > 0
      BY <2>2
    <3> QED
      BY <1>3, <3>1
  <2> QED
    BY <2>1, <2>2
<1>6. DecodeToBytes(Encode(s)) = s
  BY <1>2, <1>4, <1>5, DecodeStops
<1>7. ASSUME NEW t \in Seq(Byte) PROVE DecodeToBytes(Encode(s) \o <<Pad>> \o t) = s
  <2>1. <<Pad>> \in Seq(Byte) /\ Len(<<Pad>>) = 1 /\ <<Pad>>[1] = Pad
    BY DEF Pad, Byte
  <2>2. PICK rest \in Seq(Byte) :
          rest = <<Pad>> \o t /\ Len(rest) > 0 /\ rest[1] = Pad
    <3>1. /\ <<Pad>> \o t \in Seq(Byte) /\ Len(<<Pad>> \o t) = Len(<<Pad>>) + Len(t)
          /\ \A i \in 1 .. Len(<<Pad>>) + Len(t) :
               (<<Pad>> \o t)[i] = IF i <= Len(<<Pad>>) THEN <<Pad>>[i] ELSE t[i - Len(<<Pad>>)]
      BY <2>1, ConcatProperties
    <3>2. Len(t) \in Nat
      BY LenProperties
    <3>3. Len(<<Pad>> \o t) > 0 /\ (<<Pad>> \o t)[1] = Pad
      <4>1. PICK l \in Nat : l = Len(t)
        BY <3>2
      <4>2. 1 \in 1 .. 1 + l /\ 1 <= 1 /\ 1 + l > 0
        OBVIOUS
      <4> QED
        BY <2>1, <3>1, <4>1, <4>2
    <3> QED
      BY <3>1, <3>3
  <2>3. PICK tail \in Seq(Byte) : tail = pad \o rest /\ Len(tail) > 0 /\ tail[1] = Pad
    <3>1. /\ pad \o rest \in Seq(Byte) /\ Len(pad \o rest) = Len(pad) + Len(rest)
          /\ \A i \in 1 .. Len(pad) + Len(rest) :
               (pad \o rest)[i] = IF i <= Len(pad) THEN pad[i] ELSE rest[i - Len(pad)]
      BY ConcatProperties
    <3>2. PICK l \in Nat : l = Len(rest) /\ l > 0
      BY <2>2, LenProperties
    <3>3. /\ Len(pad \o rest) = k + l
          /\ \A i \in 1 .. k + l : (pad \o rest)[i] = IF i <= k THEN pad[i] ELSE rest[i - k]
      BY <1>3, <3>1, <3>2
    <3>4. CASE k = 0
      <4>1. 1 \in 1 .. k + l /\ ~ (1 <= k) /\ 1 - k = 1 /\ k + l > 0
        BY <3>2, <3>4
      <4> QED
        BY <2>2, <3>1, <3>3, <4>1
    <3>5. CASE k # 0
      <4>1. 1 \in 1 .. k + l /\ 1 <= k /\ 1 \in 1 .. k /\ k + l > 0
        BY <3>2, <3>5
      <4> QED
        BY <1>3, <3>1, <3>3, <4>1
    <3> QED
      BY <3>4, <3>5
  <2>4. (Encode(s) \o <<Pad>>) \o t = code \o tail
    <3>1. ((code \o pad) \o <<Pad>>) \o t = (code \o pad) \o (<<Pad>> \o t)
      <4>1. code \o pad \in Seq(Byte)
        BY ConcatProperties
      <4> QED
        BY <2>1, <4>1, ConcatAssociative, SMTT(60)
    <3>2. (code \o pad) \o rest = code \o (pad \o rest)
      BY ConcatAssociative, SMTT(60)
    <3> QED
      BY <1>4, <2>2, <2>3, <3>1, <3>2
  <2>5. DecodeToBytes(code \o tail) = s
    BY <1>2, <2>3, DecodeStops
  <2> QED
    BY <2>4, <2>5
<1>8. IsValidBase64(Encode(s))
  <2>1. PICK e \in Seq(Byte) :
          /\ e = Encode(s) /\ Len(e) = m + k
          /\ \A i \in 1 .. m + k : e[i] = IF i <= m THEN code[i] ELSE pad[i - m]
    <3>1. /\ code \o pad \in Seq(Byte) /\ Len(code \o pad) = Len(code) + Len(pad)
          /\ \A i \in 1 .. Len(code) + Len(pad) :
               (code \o pad)[i] = IF i <= Len(code) THEN code[i] ELSE pad[i - Len(code)]
      BY ConcatProperties
    <3>2. Len(code) = m /\ Len(pad) = k
      BY <1>2, <1>3
    <3>3. /\ Len(code \o pad) = m + k
          /\ \A i \in 1 .. m + k : (code \o pad)[i] = IF i <= m THEN code[i] ELSE pad[i - m]
      BY <3>1, <3>2
    <3> QED
      BY <1>4, <3>1, <3>3
  <2>2. m % 4 = 0 \/ m % 4 = 2 \/ m % 4 = 3
    <3>1. PICK q \in Nat : q = n \div 3
      OBVIOUS
    <3>2. n = 3 * q \/ n = 3 * q + 1 \/ n = 3 * q + 2
      BY <3>1
    <3>3. m = 4 * q \/ m = 4 * q + 2 \/ m = 4 * q + 3
      <4>1. m = (8 * n + 5) \div 6
        BY <1>1
      <4> QED
        BY <3>2, <4>1
    <3> QED
      BY <3>3
  <2>3. (m + k) % 4 = 0 /\ k <= 2
    BY <1>3, <2>2, SMTT(60)
  <2>4. DOMAIN e = 1 .. m + k
    BY <2>1, LenProperties
  <2>5. ASSUME NEW i \in 1 .. m + k
        PROVE  (i >= (m + k) - 1 /\ e[i] = Pad) \/ IsBase64Char(e[i])
    <3>1. CASE i <= m
      <4>1. i \in 1 .. Len(code) /\ e[i] = code[i]
        BY <1>2, <2>1, <3>1
      <4> QED
        BY <1>2, <4>1
    <3>2. CASE ~ (i <= m)
      <4>1. i - m \in 1 .. k /\ i >= (m + k) - 1 /\ e[i] = pad[i - m]
        BY <2>1, <2>3, <3>2
      <4> QED
        BY <1>3, <4>1
    <3> QED
      BY <3>1, <3>2
  <2> QED
    BY <2>1, <2>3, <2>4, <2>5 DEF IsValidBase64
<1> QED
  BY <1>6, <1>7, <1>8

\* Base64RoundTrip for data of any length: what Encode wrote IsValidBase64 accepts and
\* DecodeToBytes reads, whatever follows the padding.
THEOREM Base64RoundTrips == Spec => []Base64RoundTrip
<1>1. ASSUME TextOK PROVE Base64RoundTrip
  <2>1. text \in Seq(Byte)
    BY <1>1 DEF TextOK
  <2>2. Encode(text) \in Seq(Byte)
    <3>1. CodeLength(text) \in Nat /\ Code(text) \in Seq(Byte)
      BY <2>1, CodeIsText
    <3>2. Padding(CodeLength(text)) \in Seq(Byte)
      BY <3>1, PaddingIsPad
    <3>3. Encode(text) = Code(text) \o Padding(CodeLength(text))
      BY <2>1, EncodeIsSextets
    <3> QED
      BY <3>1, <3>2, <3>3, ConcatProperties
  <2> QED
    BY <2>1, <2>2, EncodeDecodes DEF Base64RoundTrip
<1> QED
  BY <1>1, TextIsBytes, PTL
=============================================================================

---------------------------- MODULE CodecsProofs ----------------------------
(***************************************************************************)
(* The codecs are right for every text: TLC tries all short ones, the      *)
(* theorems are about texts of any length.                                 *)
(***************************************************************************)
EXTENDS MCCodecs, Recursion

TextOK == text \in Seq(Byte)

\* The texts of MCCodecs are texts.
LEMMA TextIsBytes == Spec => []TextOK
<1>1. Init => TextOK
  BY EmptySeq DEF Init, TextOK
<1>2. TextOK /\ [Next]_text => TextOK'
  <2> SUFFICES ASSUME TextOK, NEW c \in Alphabet, text' = Append(text, c)
               PROVE  TextOK'
    BY DEF Next, TextOK
  <2>1. c \in Byte
    BY AlphabetAssumption
  <2> QED
    BY <2>1, AppendProperties DEF TextOK
<1> QED
  BY <1>1, <1>2, PTL DEF Spec
-----------------------------------------------------------------------------
(* Sequences of one or of two elements, one after the other.               *)

\* Flattening sequences of one element each yields those elements.
LEMMA FlattenSingles ==
  ASSUME NEW X, NEW ss \in Seq(Seq(X)), \A i \in 1 .. Len(ss) : Len(ss[i]) = 1
  PROVE  /\ FlattenSeq(ss) \in Seq(X)
         /\ Len(FlattenSeq(ss)) = Len(ss)
         /\ \A i \in 1 .. Len(ss) : FlattenSeq(ss)[i] = ss[i][1]
<1>1. PICK n : n = Len(ss)
  OBVIOUS
<1>2. n \in Nat
  BY <1>1, LenProperties
<1>3. FlattenSeq(ss) \in Seq(X)
  BY FlattenIndex
<1>4. PICK o \in Offsets(ss) :
        Len(FlattenSeq(ss)) = o[n] /\ Consists(ss, o, n, FlattenSeq(ss))
  BY <1>1, FlattenIndex
<1>5. \A i \in 0 .. n : o[i] = i
  <2> DEFINE S == {i \in 0 .. n : o[i] = i}
  <2>1. 0 \in S
    BY <1>1, <1>2 DEF Offsets
  <2>2. \A i \in 1 .. n : o[i] = o[i - 1] + 1
    BY <1>1 DEF Offsets
  <2>3. \A i \in 0 .. n - 1 : i \in S => i + 1 \in S
    BY <1>2, <2>2
  <2> HIDE DEF S
  <2>4. \A i \in 0 .. n : i \in S
    BY <1>2, <2>1, <2>3, UpwardInduction
  <2> QED
    BY <2>4 DEF S
<1>6. ASSUME NEW i \in 1 .. n PROVE FlattenSeq(ss)[i] = ss[i][1]
  <2>1. FlattenSeq(ss)[o[i - 1] + 1] = ss[i][1]
    BY <1>1, <1>4 DEF Consists
  <2>2. o[i - 1] + 1 = i
    BY <1>2, <1>5
  <2> QED
    BY <2>1, <2>2
<1> QED
  BY <1>1, <1>2, <1>3, <1>4, <1>5, <1>6

\* Flattening pairs puts the i-th pair at places 2 i - 1 and 2 i.
LEMMA FlattenPairs ==
  ASSUME NEW X, NEW ss \in Seq(Seq(X)), \A i \in 1 .. Len(ss) : Len(ss[i]) = 2
  PROVE  /\ FlattenSeq(ss) \in Seq(X)
         /\ Len(FlattenSeq(ss)) = 2 * Len(ss)
         /\ \A i \in 1 .. Len(ss) : /\ FlattenSeq(ss)[2 * i - 1] = ss[i][1]
                                    /\ FlattenSeq(ss)[2 * i] = ss[i][2]
<1>1. PICK n : n = Len(ss)
  OBVIOUS
<1>2. n \in Nat
  BY <1>1, LenProperties
<1>3. FlattenSeq(ss) \in Seq(X)
  BY FlattenIndex
<1>4. PICK o \in Offsets(ss) :
        Len(FlattenSeq(ss)) = o[n] /\ Consists(ss, o, n, FlattenSeq(ss))
  BY <1>1, FlattenIndex
<1>5. \A i \in 0 .. n : o[i] = 2 * i
  <2> DEFINE S == {i \in 0 .. n : o[i] = 2 * i}
  <2>1. 0 \in S
    BY <1>1, <1>2 DEF Offsets
  <2>2. \A i \in 1 .. n : o[i] = o[i - 1] + 2
    BY <1>1 DEF Offsets
  <2>3. \A i \in 0 .. n - 1 : i \in S => i + 1 \in S
    BY <1>2, <2>2
  <2> HIDE DEF S
  <2>4. \A i \in 0 .. n : i \in S
    BY <1>2, <2>1, <2>3, UpwardInduction
  <2> QED
    BY <2>4 DEF S
<1>6. ASSUME NEW i \in 1 .. n
      PROVE  FlattenSeq(ss)[2 * i - 1] = ss[i][1] /\ FlattenSeq(ss)[2 * i] = ss[i][2]
  <2>1. /\ FlattenSeq(ss)[o[i - 1] + 1] = ss[i][1]
        /\ FlattenSeq(ss)[o[i - 1] + 2] = ss[i][2]
    <3>1. \A j \in Nat : j \in 1 .. Len(ss[i]) => FlattenSeq(ss)[o[i - 1] + j] = ss[i][j]
      BY <1>4 DEF Consists
    <3>2. Len(ss[i]) = 2
      BY <1>1
    <3> QED
      BY <3>1, <3>2, SMTT(60)
  <2>2. o[i - 1] + 1 = 2 * i - 1 /\ o[i - 1] + 2 = 2 * i
    BY <1>2, <1>5
  <2> QED
    BY <2>1, <2>2
<1> QED
  BY <1>1, <1>2, <1>3, <1>4, <1>5, <1>6
-----------------------------------------------------------------------------
(* Hex.                                                                    *)

\* A digit written is the digit read, in either case.
LEMMA HexDigit ==
  ASSUME NEW n \in 0 .. 15
  PROVE  /\ LowerHex(n) \in Byte /\ IsHexChar(LowerHex(n)) /\ HexCharToValue(LowerHex(n)) = n
         /\ UpperHex(n) \in Byte /\ IsHexChar(UpperHex(n)) /\ HexCharToValue(UpperHex(n)) = n
<1> USE DEF LowerHex, UpperHex, IsHexChar, HexCharToValue, Byte, Digits, LowerCase
<1>1. CASE n < 10
  BY <1>1
<1>2. CASE n >= 10
  BY <1>2
<1> QED
  BY <1>1, <1>2

\* A byte is its two hex digits.
LEMMA ByteHalves ==
  ASSUME NEW b \in Byte
  PROVE  b \div 16 \in 0 .. 15 /\ b % 16 \in 0 .. 15 /\ (16 * (b \div 16)) + (b % 16) = b
BY DEF Byte

\* Bytes written as hex are read again.
THEOREM HexRoundTrip == \A b \in Seq(Byte) : HexToBytes(BytesToHex(b)) = b
<1> SUFFICES ASSUME NEW b \in Seq(Byte) PROVE HexToBytes(BytesToHex(b)) = b
  OBVIOUS
<1>1. PICK n \in Nat : n = Len(b) /\ DOMAIN b = 1 .. n
  BY LenProperties
<1>2. \A i \in 1 .. n : b[i] \in Byte
  BY <1>1, ElementOfSeq
<1>3. PICK h : h = BytesToHex(b)
  OBVIOUS
<1>4. /\ h \in Seq(Byte) /\ Len(h) = 2 * n
      /\ \A i \in 1 .. n : /\ h[2 * i - 1] = LowerHex(b[i] \div 16)
                           /\ h[2 * i] = LowerHex(b[i] % 16)
  <2> DEFINE ss == [i \in 1 .. n |-> <<LowerHex(b[i] \div 16), LowerHex(b[i] % 16)>>]
  <2>1. \A i \in 1 .. n : <<LowerHex(b[i] \div 16), LowerHex(b[i] % 16)>> \in Seq(Byte)
    <3>1. \A i \in 1 .. n : LowerHex(b[i] \div 16) \in Byte /\ LowerHex(b[i] % 16) \in Byte
      BY <1>2, ByteHalves, HexDigit
    <3> QED
      BY <3>1
  <2>2. ss \in Seq(Seq(Byte)) /\ Len(ss) = n
    BY <2>1
  <2>3. \A i \in 1 .. Len(ss) : Len(ss[i]) = 2
    BY <2>2
  <2>4. FlattenSeq(ss) = h
    BY <1>1, <1>3 DEF BytesToHex
  <2>5. \A i \in 1 .. n : /\ ss[i][1] = LowerHex(b[i] \div 16)
                          /\ ss[i][2] = LowerHex(b[i] % 16)
    OBVIOUS
  <2> HIDE DEF ss
  <2> QED
    BY <2>2, <2>3, <2>4, <2>5, FlattenPairs
<1>5. HexToBytes(h) = b
  <2> DEFINE p(i) == IF IsHexChar(h[2 * i - 1]) /\ IsHexChar(h[2 * i])
                     THEN <<HexByte(h[2 * i - 1], h[2 * i])>> ELSE <<>>
             ss == [i \in 1 .. n |-> p(i)]
  <2>1. ASSUME NEW i \in 1 .. n PROVE p(i) = <<b[i]>>
    <3>1. b[i] \in Byte
      BY <1>2
    <3>2. h[2 * i - 1] = LowerHex(b[i] \div 16) /\ h[2 * i] = LowerHex(b[i] % 16)
      BY <1>4
    <3>3. b[i] \div 16 \in 0 .. 15 /\ b[i] % 16 \in 0 .. 15
          /\ (16 * (b[i] \div 16)) + (b[i] % 16) = b[i]
      BY <3>1, ByteHalves
    <3>4. IsHexChar(h[2 * i - 1]) /\ IsHexChar(h[2 * i])
      BY <3>2, <3>3, HexDigit
    <3>5. HexByte(h[2 * i - 1], h[2 * i]) = b[i]
      BY <3>2, <3>3, HexDigit DEF HexByte
    <3> QED
      BY <3>4, <3>5
  <2>2. HexToBytes(h) = FlattenSeq(ss)
    <3>1. Len(h) \div 2 = n
      BY <1>4
    <3> QED
      BY <3>1 DEF HexToBytes
  <2>3. ss = [i \in 1 .. n |-> <<b[i]>>]
    BY <2>1
  <2> HIDE DEF ss
  <2>4. ss \in Seq(Seq(Byte)) /\ Len(ss) = n
    BY <1>2, <2>3
  <2>5. \A i \in 1 .. Len(ss) : Len(ss[i]) = 1 /\ ss[i][1] = b[i]
    BY <1>2, <2>3, <2>4
  <2>6. /\ FlattenSeq(ss) \in Seq(Byte) /\ Len(FlattenSeq(ss)) = n
        /\ \A i \in 1 .. n : FlattenSeq(ss)[i] = b[i]
    BY <2>4, <2>5, FlattenSingles
  <2> QED
    BY <1>1, <2>2, <2>6, SeqEqual
<1> QED
  BY <1>3, <1>5
-----------------------------------------------------------------------------
(* Scans.                                                                  *)

\* A scan yields what the recursion says.
LEMMA ScanUnfolds ==
  ASSUME NEW n \in Nat, NEW X, NEW piece \in Pieces(n, X), NEW next \in Forward(n)
  PROVE  \E g \in Scans(n, X, piece, next) : Scan(piece, next) = g[1]
<1>1. PICK g : g \in Scans(n, X, piece, next)
  BY ScanExists
<1>2. g[n + 1] = <<>> /\ \A i \in 1 .. n : g[i] = piece[i] \o g[next[i]]
  BY <1>1 DEF Scans
<1>3. Len(next) = n /\ \A i \in 1 .. n : next[i] \in i + 1 .. n + 1
  BY DEF Forward
<1> DEFINE Unfolds(f) ==
             f = [i \in 1 .. n + 1 |-> IF i = n + 1 THEN <<>> ELSE piece[i] \o f[next[i]]]
           from == CHOOSE f : Unfolds(f)
           h == [i \in 1 .. n + 1 |-> g[i]]
<1>4. Unfolds(h)
  <2>1. ASSUME NEW i \in 1 .. n + 1
        PROVE  h[i] = IF i = n + 1 THEN <<>> ELSE piece[i] \o h[next[i]]
    <3>1. CASE i = n + 1
      BY <1>2, <3>1
    <3>2. CASE i # n + 1
      <4>1. i \in 1 .. n
        BY <3>2
      <4>2. next[i] \in 1 .. n + 1
        BY <1>3, <4>1
      <4>3. h[i] = g[i] /\ h[next[i]] = g[next[i]]
        BY <4>2
      <4> HIDE DEF h
      <4> QED
        BY <1>2, <3>2, <4>1, <4>3
    <3> QED
      BY <3>1, <3>2
  <2>2. h = [i \in 1 .. n + 1 |-> h[i]]
    OBVIOUS
  <2> HIDE DEF h
  <2> QED
    BY <2>1, <2>2
<1>5. Unfolds(from)
  <2> HIDE DEF Unfolds, h
  <2> QED
    BY <1>4
<1>6. Scan(piece, next) = from[1]
  BY <1>3 DEF Scan
<1> HIDE DEF from, h
<1>7. \A i \in 1 .. n + 1 :
        from[i] = IF i = n + 1 THEN <<>> ELSE piece[i] \o from[next[i]]
  BY <1>5
<1> HIDE DEF Unfolds
<1> DEFINE S == {i \in 1 .. n + 1 : from[i] = g[i]}
<1>8. ASSUME NEW i \in 1 .. n + 1, \A j \in i + 1 .. n + 1 : j \in S PROVE i \in S
  <2>1. CASE i = n + 1
    BY <1>2, <1>7, <2>1
  <2>2. CASE i # n + 1
    <3>1. i \in 1 .. n
      BY <2>2
    <3>2. from[next[i]] = g[next[i]]
      BY <1>3, <1>8, <3>1
    <3>3. from[i] = piece[i] \o from[next[i]]
      BY <1>7, <2>2
    <3>4. g[i] = piece[i] \o g[next[i]]
      BY <1>2, <3>1
    <3> QED
      BY <3>2, <3>3, <3>4
  <2> QED
    BY <2>1, <2>2
<1>9. \A i \in 1 .. n + 1 : i \in S
  <2> HIDE DEF S
  <2>1. n + 1 \in Nat
    OBVIOUS
  <2> QED
    BY <1>8, <2>1, InductionFromAbove
<1>10. from[1] = g[1]
  BY <1>9
<1> QED
  BY <1>1, <1>6, <1>10

\* The scan of n positions finds the k-th element of s from o[k - 1] + 1 to o[k].
Ends(n, piece, next, s) ==
  {o \in [0 .. Len(s) -> 0 .. n] :
     /\ o[0] = 0 /\ o[Len(s)] = n
     /\ \A k \in 1 .. Len(s) : /\ o[k - 1] + 1 \in 1 .. n
                                /\ piece[o[k - 1] + 1] = <<s[k]>>
                                /\ next[o[k - 1] + 1] = o[k] + 1}

\* A scan that finds at the end of each element the next one yields all of them.
LEMMA ScanYields ==
  ASSUME NEW n \in Nat, NEW X, NEW piece \in Pieces(n, X), NEW next \in Forward(n),
         NEW s \in Seq(X), NEW o \in Ends(n, piece, next, s)
  PROVE  Scan(piece, next) = s
<1> USE DEF Ends
<1>1. PICK g \in Scans(n, X, piece, next) : Scan(piece, next) = g[1]
  BY ScanUnfolds
<1>2. g[n + 1] = <<>> /\ \A i \in 1 .. n : g[i] = piece[i] \o g[next[i]]
  BY DEF Scans
<1>3. PICK m \in Nat : m = Len(s)
  BY LenProperties
<1> DEFINE Rest(k) == g[o[k] + 1] = SubSeq(s, k + 1, m)
           S == {k \in 0 .. m : Rest(k)}
<1>4. Rest(m)
  <2>1. m + 1 \in Int /\ m \in Int /\ m < m + 1
    OBVIOUS
  <2>2. SubSeq(s, m + 1, m) = <<>>
    BY <2>1, SubSeqEmpty
  <2>3. g[o[m] + 1] = <<>>
    BY <1>2, <1>3
  <2> QED
    BY <2>2, <2>3
<1>5. ASSUME NEW k \in 1 .. m, Rest(k) PROVE Rest(k - 1)
  <2>1. g[o[k - 1] + 1] = <<s[k]>> \o g[o[k] + 1]
    BY <1>2, <1>3
  <2>2. SubSeq(s, k, m) = <<s[k]>> \o SubSeq(s, k + 1, m)
    <3>1. k \in 1 .. Len(s) /\ Len(s) \in k .. Len(s)
      BY <1>3
    <3>2. SubSeq(s, k, Len(s)) = <<s[k]>> \o SubSeq(s, k + 1, Len(s))
      BY <3>1, SubSeqRecursiveFirst
    <3> QED
      BY <1>3, <3>2
  <2>3. (k - 1) + 1 = k
    BY <1>3
  <2>4. g[o[k - 1] + 1] = SubSeq(s, k, m)
    BY <1>5, <2>1, <2>2
  <2> QED
    BY <2>3, <2>4
<1>6. Rest(0)
  <2> HIDE DEF Rest
  <2>1. m \in S /\ \A k \in 1 .. m : k \in S => k - 1 \in S
    BY <1>4, <1>5
  <2>2. \A k \in 0 .. m : k \in S
    <3> HIDE DEF S
    <3> QED
      BY <1>3, <2>1, DownwardInduction
  <2> QED
    BY <1>3, <2>2
<1>7. g[0 + 1] = SubSeq(s, 0 + 1, m)
  BY <1>6
<1>8. 0 + 1 = 1
  OBVIOUS
<1> QED
  BY <1>1, <1>3, <1>7, <1>8, SubSeqFull

\* Where n positions of e hold the code word of s[k], the scan yields s[k] and goes
\* on behind the word.
Reads(n, e, ss, s, piece, next) ==
  \A k \in 1 .. Len(s), i \in Nat :
    /\ i + Len(ss[k]) <= n
    /\ \A j \in Nat : j \in 1 .. Len(ss[k]) => e[i + j] = ss[k][j]
    => piece[i + 1] = <<s[k]>> /\ next[i + 1] = i + 1 + Len(ss[k])

Words(ss, s) == Len(ss) = Len(s) /\ \A k \in 1 .. Len(s) : Len(ss[k]) \in Nat \ {0}

\* A scan that reads code words undoes the encoding.
LEMMA ScanUndoesFlatten ==
  ASSUME NEW X, NEW s \in Seq(X), NEW ss \in Seq(Seq(X)), Words(ss, s),
         NEW n \in Nat, NEW e, e = FlattenSeq(ss), n = Len(e),
         NEW piece \in Pieces(n, X), NEW next \in Forward(n),
         Reads(n, e, ss, s, piece, next)
  PROVE  Scan(piece, next) = s
<1> USE DEF Words, Reads
<1>1. PICK m \in Nat : m = Len(s)
  BY LenProperties
<1>2. PICK o \in Offsets(ss) : n = o[m] /\ Consists(ss, o, m, e)
  BY <1>1, FlattenIndex
<1>3. /\ o \in [0 .. m -> Nat] /\ o[0] = 0
      /\ \A k \in 1 .. m : o[k] = o[k - 1] + Len(ss[k])
  BY <1>1, <1>2 DEF Offsets
<1>4. ASSUME NEW k \in 1 .. m
      PROVE  /\ o[k - 1] \in Nat /\ Len(ss[k]) \in Nat \ {0}
             /\ o[k - 1] + Len(ss[k]) <= n
             /\ \A j \in Nat : j \in 1 .. Len(ss[k]) => e[o[k - 1] + j] = ss[k][j]
  <2>0. k - 1 \in 0 .. m
    OBVIOUS
  <2>1. o[k - 1] \in Nat
    BY <1>3, <2>0
  <2>2. Len(ss[k]) \in Nat \ {0}
    BY <1>1
  <2>3. \A j \in Nat : j \in 1 .. Len(ss[k]) =>
          o[k - 1] + j \in 1 .. o[m] /\ e[o[k - 1] + j] = ss[k][j]
    BY <1>2 DEF Consists
  <2>4. o[k - 1] + Len(ss[k]) \in 1 .. o[m]
    BY <2>2, <2>3
  <2> QED
    BY <1>2, <2>1, <2>2, <2>3, <2>4
<1>5. o \in [0 .. Len(s) -> 0 .. n]
  <2>1. ASSUME NEW k \in 0 .. m PROVE o[k] \in 0 .. n
    <3>1. CASE k = 0
      BY <1>3, <3>1
    <3>2. CASE k # 0
      <4>1. k \in 1 .. m
        BY <3>2
      <4> QED
        BY <1>3, <1>4, <4>1
    <3> QED
      BY <3>1, <3>2
  <2> QED
    BY <1>1, <1>3, <2>1
<1>6. ASSUME NEW k \in 1 .. m
      PROVE  /\ o[k - 1] + 1 \in 1 .. n
             /\ piece[o[k - 1] + 1] = <<s[k]>>
             /\ next[o[k - 1] + 1] = o[k] + 1
  <2>1. o[k - 1] \in Nat /\ Len(ss[k]) \in Nat \ {0} /\ o[k - 1] + Len(ss[k]) <= n
    BY <1>4
  <2>2. piece[o[k - 1] + 1] = <<s[k]>> /\ next[o[k - 1] + 1] = o[k - 1] + 1 + Len(ss[k])
    BY <1>1, <1>4
  <2>3. o[k] = o[k - 1] + Len(ss[k])
    BY <1>3
  <2>4. o[k - 1] + 1 + Len(ss[k]) = o[k] + 1 /\ o[k - 1] + 1 \in 1 .. n
    BY <2>1, <2>3
  <2> QED
    BY <2>2, <2>4
<1>7. o \in Ends(n, piece, next, s)
  BY <1>1, <1>2, <1>3, <1>5, <1>6 DEF Ends
<1> QED
  BY <1>7, ScanYields
-----------------------------------------------------------------------------
(* URL encoding.                                                           *)

\* What was encoded for a URL is decoded to the same bytes, whatever isalnum says of
\* the bytes above 127.
THEOREM UrlRoundTrip ==
  \A s \in Seq(Byte), letters \in SUBSET (128 .. 255) : UrlDecode(UrlEncode(s, letters)) = s
<1> SUFFICES ASSUME NEW s \in Seq(Byte), NEW letters \in SUBSET (128 .. 255)
             PROVE  UrlDecode(UrlEncode(s, letters)) = s
  OBVIOUS
<1>1. PICK m \in Nat : m = Len(s) /\ DOMAIN s = 1 .. m
  BY LenProperties
<1>2. \A k \in 1 .. m : s[k] \in Byte
  BY <1>1, ElementOfSeq
<1> DEFINE word(c) == IF Unreserved(c, letters) THEN <<c>>
                      ELSE <<Percent, UpperHex(c \div 16), UpperHex(c % 16)>>
           ss == [k \in 1 .. m |-> word(s[k])]
           e == UrlEncode(s, letters)
           n == Len(e)
           piece == [i \in DOMAIN e |->
                       IF IsUrlEscape(e, i) THEN <<HexByte(e[i + 1], e[i + 2])>>
                       ELSE IF e[i] = Plus THEN <<Space>> ELSE <<e[i]>>]
           next == [i \in DOMAIN e |-> IF IsUrlEscape(e, i) THEN i + 3 ELSE i + 1]
<1>3. ASSUME NEW c \in Byte
      PROVE  /\ word(c) \in Seq(Byte) /\ Len(word(c)) \in Nat \ {0}
             /\ \/ word(c) = <<c>> /\ c # Percent /\ c # Plus
                \/ /\ word(c) = <<Percent, UpperHex(c \div 16), UpperHex(c % 16)>>
                   /\ Len(word(c)) = 3
  <2>1. c \div 16 \in 0 .. 15 /\ c % 16 \in 0 .. 15
    BY ByteHalves
  <2>2. UpperHex(c \div 16) \in Byte /\ UpperHex(c % 16) \in Byte /\ Percent \in Byte
    <3>1. UpperHex(c \div 16) \in Byte /\ UpperHex(c % 16) \in Byte
      BY <2>1, HexDigit
    <3> QED
      BY <3>1 DEF Percent, Byte
  <2>3. CASE Unreserved(c, letters)
    <3>1. c # Percent /\ c # Plus
      BY <2>3 DEF Unreserved, Percent, Plus, Digits, UpperCase, LowerCase
    <3>2. word(c) = <<c>>
      BY <2>3
    <3> HIDE DEF word
    <3> QED
      BY <3>1, <3>2
  <2>4. CASE ~ Unreserved(c, letters)
    <3>1. word(c) = <<Percent, UpperHex(c \div 16), UpperHex(c % 16)>>
      BY <2>4
    <3> HIDE DEF word
    <3> QED
      BY <2>2, <3>1
  <2> QED
    BY <2>3, <2>4
<1>4. ss \in Seq(Seq(Byte)) /\ Len(ss) = m /\ \A k \in 1 .. m : ss[k] = word(s[k])
  <2> HIDE DEF word
  <2> QED
    BY <1>2, <1>3
<1>5. e = FlattenSeq(ss)
  BY <1>1 DEF UrlEncode
<1> HIDE DEF ss, e, word
<1>6. e \in Seq(Byte) /\ n \in Nat /\ DOMAIN e = 1 .. n
  <2>1. e \in Seq(Byte)
    BY <1>4, <1>5, FlattenIndex
  <2> QED
    BY <2>1, LenProperties
<1>7. \A i \in 1 .. n : e[i] \in Byte
  BY <1>6, ElementOfSeq
<1>8. piece \in Pieces(n, Byte)
  <2>1. ASSUME NEW i \in 1 .. n PROVE piece[i] \in Seq(Byte)
    <3>1. CASE IsUrlEscape(e, i)
      <4>1. e[i + 1] \in Byte /\ e[i + 2] \in Byte /\ IsHexChar(e[i + 1]) /\ IsHexChar(e[i + 2])
        BY <1>6, <1>7, <3>1 DEF IsUrlEscape
      <4>2. \A c \in Byte : IsHexChar(c) => HexCharToValue(c) \in 0 .. 15
        BY DEF HexCharToValue, IsHexChar, Digits, LowerCase, Byte
      <4>3. HexCharToValue(e[i + 1]) \in 0 .. 15 /\ HexCharToValue(e[i + 2]) \in 0 .. 15
        BY <4>1, <4>2
      <4>4. HexByte(e[i + 1], e[i + 2]) \in Byte
        <5>1. \A x, y \in 0 .. 15 : 16 * x + y \in 0 .. 255
          OBVIOUS
        <5> HIDE DEF piece, next
        <5> QED
          BY <4>3, <5>1 DEF HexByte, Byte
      <4> QED
        BY <1>6, <3>1, <4>4
    <3>2. CASE ~ IsUrlEscape(e, i)
      <4>1. Space \in Byte
        BY DEF Space, Byte
      <4> QED
        BY <1>6, <1>7, <3>2, <4>1
    <3> QED
      BY <3>1, <3>2
  <2> QED
    BY <1>6, <2>1 DEF Pieces
<1>9. next \in Forward(n)
  <2>1. ASSUME NEW i \in 1 .. n PROVE next[i] \in i + 1 .. n + 1
    BY <1>6 DEF IsUrlEscape
  <2> QED
    BY <1>6, <2>1 DEF Forward
<1>10. ASSUME NEW k \in 1 .. m, NEW i \in Nat, i + Len(ss[k]) <= n,
              \A j \in Nat : j \in 1 .. Len(ss[k]) => e[i + j] = ss[k][j]
       PROVE  piece[i + 1] = <<s[k]>> /\ next[i + 1] = i + 1 + Len(ss[k])
  <2>1. s[k] \in Byte /\ ss[k] = word(s[k])
    BY <1>2, <1>4
  <2>2. CASE word(s[k]) = <<s[k]>> /\ s[k] # Percent /\ s[k] # Plus
    <3>1. Len(ss[k]) = 1 /\ ss[k][1] = s[k]
      BY <2>1, <2>2
    <3>2. e[i + 1] = s[k] /\ i + 1 \in 1 .. n
      BY <1>6, <1>10, <3>1
    <3>3. ~ IsUrlEscape(e, i + 1)
      BY <2>2, <3>2 DEF IsUrlEscape
    <3> QED
      BY <1>6, <2>2, <3>1, <3>2, <3>3
  <2>3. CASE word(s[k]) = <<Percent, UpperHex(s[k] \div 16), UpperHex(s[k] % 16)>>
    <3>1. /\ Len(ss[k]) = 3 /\ ss[k][1] = Percent
          /\ ss[k][2] = UpperHex(s[k] \div 16) /\ ss[k][3] = UpperHex(s[k] % 16)
      BY <2>1, <2>3
    <3>2. /\ i + 1 \in 1 .. n /\ (i + 1) + 2 <= n /\ (i + 1) + 1 = i + 2 /\ (i + 1) + 2 = i + 3
          /\ e[i + 1] = Percent
          /\ e[i + 2] = UpperHex(s[k] \div 16) /\ e[i + 3] = UpperHex(s[k] % 16)
      BY <1>6, <1>10, <3>1
    <3>3. /\ s[k] \div 16 \in 0 .. 15 /\ s[k] % 16 \in 0 .. 15
          /\ (16 * (s[k] \div 16)) + (s[k] % 16) = s[k]
      BY <2>1, ByteHalves
    <3>4. IsUrlEscape(e, i + 1)
      BY <3>2, <3>3, HexDigit DEF IsUrlEscape
    <3>5. HexByte(e[i + 2], e[i + 3]) = s[k]
      BY <3>2, <3>3, HexDigit DEF HexByte
    <3> QED
      BY <1>6, <3>1, <3>2, <3>4, <3>5
  <2> QED
    BY <1>3, <2>1, <2>2, <2>3
<1>11. UrlDecode(e) = Scan(piece, next)
  BY DEF UrlDecode
<1>12. Scan(piece, next) = s
  <2> HIDE DEF piece, next
  <2>1. Words(ss, s)
    BY <1>1, <1>2, <1>3, <1>4 DEF Words
  <2>2. Reads(n, e, ss, s, piece, next)
    BY <1>1, <1>10 DEF Reads
  <2> QED
    BY <1>4, <1>5, <1>6, <1>8, <1>9, <2>1, <2>2, ScanUndoesFlatten
<1> QED
  BY <1>11, <1>12 DEF e
-----------------------------------------------------------------------------
(* JSON.                                                                   *)

\* What stands for a character after the backslash stands for no other.
LEMMA EscapesDiffer ==
  /\ DOMAIN EscapeOf \subseteq Byte /\ Backslash \in DOMAIN EscapeOf
  /\ \A c \in DOMAIN EscapeOf : EscapeOf[c] \in Byte
  /\ \A c, d \in DOMAIN EscapeOf : EscapeOf[c] = EscapeOf[d] => c = d
<1>1. DOMAIN EscapeOf = {34, 92, 8, 12, 10, 13, 9}
  BY DEF EscapeOf, Quote, Backslash
<1>2. /\ EscapeOf[34] = 34 /\ EscapeOf[92] = 92 /\ EscapeOf[8] = 98 /\ EscapeOf[12] = 102
      /\ EscapeOf[10] = 110 /\ EscapeOf[13] = 114 /\ EscapeOf[9] = 116
  BY DEF EscapeOf, Quote, Backslash
<1> QED
  BY <1>1, <1>2 DEF Byte, Backslash

\* Escaping can be undone.
THEOREM EscapeRoundTrip == \A s \in Seq(Byte) : UnescapeString(EscapeString(s)) = s
<1> SUFFICES ASSUME NEW s \in Seq(Byte) PROVE UnescapeString(EscapeString(s)) = s
  OBVIOUS
<1>1. PICK m \in Nat : m = Len(s) /\ DOMAIN s = 1 .. m
  BY LenProperties
<1>2. \A k \in 1 .. m : s[k] \in Byte
  BY <1>1, ElementOfSeq
<1> DEFINE word(c) == IF c \in DOMAIN EscapeOf THEN <<Backslash, EscapeOf[c]>> ELSE <<c>>
           ss == [k \in 1 .. m |-> word(s[k])]
           e == EscapeString(s)
           n == Len(e)
           meant(c) == CHOOSE d \in DOMAIN EscapeOf : EscapeOf[d] = c
           piece == [i \in DOMAIN e |-> IF IsJsonEscape(e, i) THEN <<meant(e[i + 1])>>
                                        ELSE <<e[i]>>]
           next == [i \in DOMAIN e |-> IF IsJsonEscape(e, i) THEN i + 2 ELSE i + 1]
<1>3. ASSUME NEW c \in Byte
      PROVE  /\ word(c) \in Seq(Byte) /\ Len(word(c)) \in Nat \ {0}
             /\ \/ word(c) = <<c>> /\ c # Backslash
                \/ word(c) = <<Backslash, EscapeOf[c]>> /\ c \in DOMAIN EscapeOf
  <2>1. CASE c \in DOMAIN EscapeOf
    <3>1. Backslash \in Byte /\ EscapeOf[c] \in Byte
      BY <2>1, EscapesDiffer
    <3>2. word(c) = <<Backslash, EscapeOf[c]>>
      BY <2>1
    <3> HIDE DEF word
    <3> QED
      BY <2>1, <3>1, <3>2
  <2>2. CASE c \notin DOMAIN EscapeOf
    <3>1. c # Backslash
      BY <2>2, EscapesDiffer
    <3>2. word(c) = <<c>>
      BY <2>2
    <3> HIDE DEF word
    <3> QED
      BY <3>1, <3>2
  <2> QED
    BY <2>1, <2>2
<1>4. ss \in Seq(Seq(Byte)) /\ Len(ss) = m /\ \A k \in 1 .. m : ss[k] = word(s[k])
  <2> HIDE DEF word
  <2> QED
    BY <1>2, <1>3
<1>5. e = FlattenSeq(ss)
  BY <1>1 DEF EscapeString
<1>6. \A c \in DOMAIN EscapeOf : meant(EscapeOf[c]) = c
  BY EscapesDiffer
<1> HIDE DEF ss, e, word, meant
<1>7. e \in Seq(Byte) /\ n \in Nat /\ DOMAIN e = 1 .. n
  <2>1. e \in Seq(Byte)
    BY <1>4, <1>5, FlattenIndex
  <2> QED
    BY <2>1, LenProperties
<1>8. \A i \in 1 .. n : e[i] \in Byte
  BY <1>7, ElementOfSeq
<1>9. piece \in Pieces(n, Byte)
  <2>1. ASSUME NEW i \in 1 .. n PROVE piece[i] \in Seq(Byte)
    <3>1. CASE IsJsonEscape(e, i)
      <4>1. PICK c \in DOMAIN EscapeOf : EscapeOf[c] = e[i + 1]
        BY <3>1 DEF IsJsonEscape
      <4>2. c \in Byte /\ meant(e[i + 1]) = c
        BY <1>6, <4>1, EscapesDiffer
      <4> QED
        BY <1>7, <3>1, <4>2
    <3>2. CASE ~ IsJsonEscape(e, i)
      BY <1>7, <1>8, <3>2
    <3> QED
      BY <3>1, <3>2
  <2> QED
    BY <1>7, <2>1 DEF Pieces
<1>10. next \in Forward(n)
  <2>1. ASSUME NEW i \in 1 .. n PROVE next[i] \in i + 1 .. n + 1
    BY <1>7 DEF IsJsonEscape
  <2> QED
    BY <1>7, <2>1 DEF Forward
<1>11. ASSUME NEW k \in 1 .. m, NEW i \in Nat, i + Len(ss[k]) <= n,
              \A j \in Nat : j \in 1 .. Len(ss[k]) => e[i + j] = ss[k][j]
       PROVE  piece[i + 1] = <<s[k]>> /\ next[i + 1] = i + 1 + Len(ss[k])
  <2>1. s[k] \in Byte /\ ss[k] = word(s[k])
    BY <1>2, <1>4
  <2>2. CASE word(s[k]) = <<s[k]>> /\ s[k] # Backslash
    <3>1. Len(ss[k]) = 1 /\ ss[k][1] = s[k]
      BY <2>1, <2>2
    <3>2. e[i + 1] = s[k] /\ i + 1 \in 1 .. n
      BY <1>7, <1>11, <3>1
    <3>3. ~ IsJsonEscape(e, i + 1)
      BY <2>2, <3>2 DEF IsJsonEscape
    <3> QED
      BY <1>7, <3>1, <3>2, <3>3
  <2>3. CASE word(s[k]) = <<Backslash, EscapeOf[s[k]]>> /\ s[k] \in DOMAIN EscapeOf
    <3>1. Len(ss[k]) = 2 /\ ss[k][1] = Backslash /\ ss[k][2] = EscapeOf[s[k]]
      BY <2>1, <2>3
    <3>2. /\ i + 1 \in 1 .. n /\ i + 1 < n /\ (i + 1) + 1 = i + 2
          /\ e[i + 1] = Backslash /\ e[i + 2] = EscapeOf[s[k]]
      BY <1>7, <1>11, <3>1
    <3>3. IsJsonEscape(e, i + 1)
      BY <2>3, <3>2 DEF IsJsonEscape
    <3>4. meant(e[i + 2]) = s[k]
      BY <1>6, <2>3, <3>2
    <3> QED
      BY <1>7, <3>1, <3>2, <3>3, <3>4
  <2> QED
    BY <1>3, <2>1, <2>2, <2>3
<1>12. UnescapeString(e) = Scan(piece, next)
  BY DEF UnescapeString, meant
<1>13. Scan(piece, next) = s
  <2> HIDE DEF piece, next
  <2>1. Words(ss, s)
    BY <1>1, <1>2, <1>3, <1>4 DEF Words
  <2>2. Reads(n, e, ss, s, piece, next)
    BY <1>1, <1>11 DEF Reads
  <2> QED
    BY <1>4, <1>5, <1>7, <1>9, <1>10, <2>1, <2>2, ScanUndoesFlatten
<1> QED
  BY <1>12, <1>13 DEF e

\* JsonRoundTrip for texts of any length: what EscapeString wrote, UnescapeString reads.
THEOREM JsonRoundTrips == Spec => []JsonRoundTrip
<1>1. TextOK => JsonRoundTrip
  BY EscapeRoundTrip DEF TextOK, JsonRoundTrip
<1> QED
  BY <1>1, TextIsBytes, PTL

\* UrlAndHexRoundTrip for texts of any length.
THEOREM UrlAndHexRoundTrips == Spec => []UrlAndHexRoundTrip
<1>1. TextOK => UrlAndHexRoundTrip
  BY UrlRoundTrip, HexRoundTrip, ZenonT(60) DEF TextOK, UrlAndHexRoundTrip
<1> QED
  BY <1>1, TextIsBytes, PTL
-----------------------------------------------------------------------------
(* Find: the first occurrence of a pattern.                                *)

Occurs(s, p, i) ==
  i \in 1 .. Len(s) - Len(p) + 1 /\ \A j \in 1 .. Len(p) : s[i + j - 1] = p[j]

\* at is where p occurs in s for the first time from i on, or 0.
IsFirst(s, p, i, at) ==
  /\ at \in Nat
  /\ at # 0 => at >= i /\ Occurs(s, p, at)
  /\ \A j \in Nat : j >= i /\ Occurs(s, p, j) => at # 0 /\ at <= j

\* The part that Find compares is the pattern exactly if each character is.
LEMMA OccursIsMatch ==
  ASSUME NEW s \in Seq(Byte), NEW p \in Seq(Byte), NEW i \in 1 .. Len(s) - Len(p) + 1
  PROVE  SubSeq(s, i, i + Len(p) - 1) = p <=> Occurs(s, p, i)
<1>1. PICK n \in Nat : n = Len(s) /\ \A k \in 1 .. n : s[k] \in Byte
  BY LenProperties, ElementOfSeq
<1>2. PICK m \in Nat : m = Len(p)
  BY LenProperties
<1>3. i \in Int /\ i + m - 1 \in Int /\ i + m - 1 <= n /\ i >= 1
  BY <1>1, <1>2
<1>4. \A k \in i .. i + m - 1 : s[k] \in Byte
  BY <1>1, <1>3
<1> DEFINE u == SubSeq(s, i, i + m - 1)
<1>5. /\ u \in Seq(Byte)
      /\ Len(u) = IF i <= i + m - 1 THEN i + m - 1 - i + 1 ELSE 0
      /\ \A k \in 1 .. i + m - 1 - i + 1 : u[k] = s[i + k - 1]
  BY <1>3, <1>4, SubSeqProperties
<1>6. Len(u) = m /\ \A k \in 1 .. m : u[k] = s[i + k - 1]
  BY <1>2, <1>3, <1>5
<1> HIDE DEF u
<1>7. ASSUME \A k \in 1 .. m : s[i + k - 1] = p[k] PROVE u = p
  <2>1. \A k \in 1 .. Len(u) : u[k] = p[k]
    BY <1>6, <1>7
  <2> QED
    BY <1>2, <1>5, <1>6, <2>1, SeqEqual
<1>8. ASSUME u = p PROVE \A k \in 1 .. m : s[i + k - 1] = p[k]
  BY <1>6, <1>8
<1> QED
  BY <1>2, <1>7, <1>8 DEF Occurs, u

\* Find returns the first occurrence from i on, or 0 if there is none.
LEMMA FindsFirst ==
  ASSUME NEW s \in Seq(Byte), NEW p \in Seq(Byte), NEW i \in Nat \ {0}
  PROVE  IsFirst(s, p, i, Find(s, p, i))
<1>1. PICK n \in Nat : n = Len(s)
  BY LenProperties
<1>2. PICK m \in Nat : m = Len(p)
  BY LenProperties
<1> DEFINE found == {k \in i .. Len(s) - Len(p) + 1 : SubSeq(s, k, k + Len(p) - 1) = p}
<1>3. found = {k \in Nat : k >= i /\ Occurs(s, p, k)}
  <2>1. ASSUME NEW k \in Nat, k >= i PROVE k \in found <=> Occurs(s, p, k)
    <3>1. CASE k \in 1 .. Len(s) - Len(p) + 1
      <4>1. SubSeq(s, k, k + Len(p) - 1) = p <=> Occurs(s, p, k)
        BY <3>1, OccursIsMatch
      <4>2. k \in i .. Len(s) - Len(p) + 1
        BY <1>1, <1>2, <2>1, <3>1
      <4> QED
        BY <4>1, <4>2
    <3>2. CASE k \notin 1 .. Len(s) - Len(p) + 1
      BY <1>1, <1>2, <2>1, <3>2 DEF Occurs
    <3> QED
      BY <3>1, <3>2
  <2>2. \A k \in found : k \in Nat /\ k >= i
    BY <1>1, <1>2
  <2> HIDE DEF found
  <2> QED
    BY <2>1, <2>2
<1>4. Find(s, p, i) = IF found = {} THEN 0 ELSE Min(found)
  BY DEF Find
<1> HIDE DEF found
<1>5. CASE found = {}
  BY <1>3, <1>4, <1>5 DEF IsFirst
<1>6. CASE found # {}
  <2>1. found \in SUBSET Nat
    BY <1>3
  <2>2. \E k \in found : \A j \in found : k <= j
    BY <1>6, <2>1, LeastElement
  <2>3. Min(found) \in found /\ \A j \in found : Min(found) <= j
    BY <2>2, Zenon DEF Min
  <2>4. PICK k \in Nat : k = Min(found)
    BY <2>1, <2>3
  <2>5. k >= i /\ Occurs(s, p, k) /\ \A j \in Nat : j >= i /\ Occurs(s, p, j) => k <= j
    BY <1>3, <2>3, <2>4
  <2>6. Find(s, p, i) = k /\ k # 0
    BY <1>4, <1>6, <2>4, <2>5
  <2> QED
    BY <2>5, <2>6 DEF IsFirst
<1> QED
  BY <1>5, <1>6

\* There is at most one first occurrence.
LEMMA FirstIsUnique ==
  ASSUME NEW s, NEW p, NEW i \in Nat, NEW at, NEW at2,
         IsFirst(s, p, i, at), IsFirst(s, p, i, at2)
  PROVE  at = at2
BY DEF IsFirst

\* What Find says of the positions, for a pattern that is not empty.
LEMMA FindPlaces ==
  ASSUME NEW s \in Seq(Byte), NEW p \in Seq(Byte), Len(p) > 0,
         NEW i \in 1 .. Len(s) + 1
  PROVE  /\ Find(s, p, i) \in Nat
         /\ Find(s, p, i) # 0 => /\ Find(s, p, i) \in i .. Len(s)
                                 /\ Find(s, p, i) + Len(p) \in i + 1 .. Len(s) + 1
         /\ Find(s, p, Len(s) + 1) = 0
<1>1. PICK n \in Nat : n = Len(s)
  BY LenProperties
<1>2. PICK m \in Nat : m = Len(p)
  BY LenProperties
<1>3. i \in Nat \ {0} /\ n + 1 \in Nat \ {0}
  BY <1>1
<1>4. IsFirst(s, p, i, Find(s, p, i)) /\ IsFirst(s, p, n + 1, Find(s, p, n + 1))
  BY <1>3, FindsFirst
<1> QED
  BY <1>1, <1>2, <1>3, <1>4 DEF IsFirst, Occurs
-----------------------------------------------------------------------------
(* Join.                                                                   *)

\* What the first tokens make, joined.
Joined(n, ts, d) ==
  {g \in [1 .. n -> Seq(Byte)] : /\ g[1] = ts[1]
                                 /\ \A i \in 2 .. n : g[i] = g[i - 1] \o (d \o ts[i])}

\* Join is the last of the texts that take up one token after the other.
LEMMA JoinRounds ==
  ASSUME NEW ts \in Seq(Seq(Byte)), NEW d \in Seq(Byte),
         NEW n \in Nat, n = Len(ts), n >= 1
  PROVE  \E g \in Joined(n, ts, d) : Join(ts, d) = g[n]
<1> DEFINE ss == [i \in DOMAIN ts |-> IF i = 1 THEN ts[i] ELSE d \o ts[i]]
<1>1. DOMAIN ts = 1 .. n /\ \A i \in 1 .. n : ts[i] \in Seq(Byte)
  BY LenProperties, ElementOfSeq
<1>2. ASSUME NEW i \in 1 .. n PROVE ss[i] \in Seq(Byte)
  BY <1>1, ConcatProperties
<1>3. ss \in Seq(Seq(Byte)) /\ Len(ss) = n
  BY <1>1, <1>2
<1>4. PICK g \in [0 .. Len(ss) -> Seq(Byte)] :
        /\ g[0] = <<>>
        /\ \A i \in 1 .. Len(ss) : g[i] = g[i - 1] \o ss[i]
        /\ FlattenSeq(ss) = g[Len(ss)]
  <2> HIDE DEF ss
  <2> QED
    BY <1>3, FlattenRounds
<1>5. ss[1] = ts[1] /\ \A i \in 2 .. n : ss[i] = d \o ts[i]
  BY <1>1
<1>6. Join(ts, d) = g[n]
  BY <1>3, <1>4 DEF Join
<1> HIDE DEF ss
<1>7. ASSUME NEW i \in 0 .. n PROVE g[i] \in Seq(Byte)
  <2>1. i \in 0 .. Len(ss)
    BY <1>3
  <2>2. g \in [0 .. Len(ss) -> Seq(Byte)]
    BY <1>4
  <2> QED
    BY <2>1, <2>2, Zenon
<1>8. g[1] = ts[1]
  <2>1. g[0] = <<>> /\ g[1] = g[0] \o ss[1]
    <3>1. 1 \in 1 .. Len(ss) /\ 1 - 1 = 0
      BY <1>3
    <3> QED
      BY <1>4, <3>1
  <2>2. ts[1] \in Seq(Byte)
    BY <1>1
  <2> QED
    BY <1>5, <2>1, <2>2, ConcatEmptySeq
<1>9. \A i \in 2 .. n : i \in 1 .. n /\ i - 1 \in 1 .. n
  OBVIOUS
<1>10. \A i \in 2 .. n : g[i] = g[i - 1] \o (d \o ts[i])
  BY <1>3, <1>4, <1>5, <1>9
<1> DEFINE h == [i \in 1 .. n |-> g[i]]
<1>11. h \in [1 .. n -> Seq(Byte)]
  BY <1>7
<1>12. h[1] = ts[1] /\ h[n] = Join(ts, d)
  BY <1>6, <1>8
<1>13. \A i \in 2 .. n : h[i] = h[i - 1] \o (d \o ts[i])
  BY <1>9, <1>10
<1> HIDE DEF h
<1> QED
  BY <1>11, <1>12, <1>13 DEF Joined

\* A single token is joined without a delimiter.
LEMMA JoinOne ==
  ASSUME NEW t \in Seq(Byte), NEW d \in Seq(Byte)
  PROVE  Join(<<t>>, d) = t
<1>1. PICK ts \in Seq(Seq(Byte)) : ts = <<t>> /\ Len(ts) = 1 /\ ts[1] = t
  <2>1. <<t>> \in Seq(Seq(Byte))
    OBVIOUS
  <2>2. Len(<<t>>) = 1 /\ <<t>>[1] = t
    OBVIOUS
  <2> QED
    BY <2>1, <2>2, Zenon
<1>2. PICK g \in Joined(1, ts, d) : Join(ts, d) = g[1]
  <2>1. 1 \in Nat /\ 1 = Len(ts) /\ 1 >= 1
    BY <1>1
  <2> QED
    BY <1>1, <2>1, JoinRounds
<1> QED
  BY <1>1, <1>2 DEF Joined

\* An element put before a sequence moves the others by one place.
LEMMA PutFirst ==
  ASSUME NEW X, NEW t \in X, NEW ts \in Seq(X)
  PROVE  /\ <<t>> \o ts \in Seq(X) /\ Len(<<t>> \o ts) = Len(ts) + 1
         /\ (<<t>> \o ts)[1] = t
         /\ \A i \in 1 .. Len(ts) : (<<t>> \o ts)[i + 1] = ts[i]
<1>1. PICK n \in Nat : n = Len(ts)
  BY LenProperties
<1>2. PICK u \in Seq(X) : u = <<t>> /\ Len(u) = 1 /\ u[1] = t
  <2>1. <<t>> \in Seq(X)
    OBVIOUS
  <2>2. Len(<<t>>) = 1 /\ <<t>>[1] = t
    OBVIOUS
  <2> QED
    BY <2>1, <2>2, Zenon
<1>3. /\ u \o ts \in Seq(X) /\ Len(u \o ts) = 1 + n
      /\ \A i \in 1 .. 1 + n : (u \o ts)[i] = IF i <= 1 THEN u[i] ELSE ts[i - 1]
  BY <1>1, <1>2, ConcatProperties
<1> QED
  BY <1>1, <1>2, <1>3

FourInARow(t, d, w, v) ==
  (t \o (d \o w)) \o (d \o v) = t \o (d \o (w \o (d \o v)))

\* Concatenations of a token, a delimiter and two texts may be regrouped.
LEMMA FourAssociate ==
  ASSUME NEW t \in Seq(Byte), NEW d \in Seq(Byte), NEW w \in Seq(Byte), NEW v \in Seq(Byte)
  PROVE  FourInARow(t, d, w, v)
<1>1. PICK x : x = d \o w
  OBVIOUS
<1>2. PICK y : y = d \o v
  OBVIOUS
<1>3. x \in Seq(Byte) /\ y \in Seq(Byte)
  BY <1>1, <1>2, ConcatProperties
<1>4. (t \o x) \o y = t \o (x \o y)
  BY <1>3, ConcatAssociative
<1>5. (d \o w) \o y = d \o (w \o y)
  BY <1>3, ConcatAssociative, SMTT(60)
<1> QED
  BY <1>1, <1>2, <1>4, <1>5 DEF FourInARow

\* A token before others is followed by the delimiter.
LEMMA JoinFirst ==
  ASSUME NEW t \in Seq(Byte), NEW ts \in Seq(Seq(Byte)), NEW d \in Seq(Byte), Len(ts) > 0
  PROVE  /\ Join(ts, d) \in Seq(Byte)
         /\ Join(<<t>> \o ts, d) = t \o (d \o Join(ts, d))
<1>1. PICK n \in Nat : n = Len(ts) /\ n >= 1
  BY LenProperties
<1>2. \A i \in 1 .. n : ts[i] \in Seq(Byte)
  BY <1>1, ElementOfSeq
<1>3. PICK us \in Seq(Seq(Byte)) : us = <<t>> \o ts
  BY PutFirst
<1>4. Len(us) = n + 1 /\ us[1] = t /\ \A i \in 1 .. n : us[i + 1] = ts[i]
  BY <1>1, <1>3, PutFirst
<1>5. PICK g \in Joined(n, ts, d) : Join(ts, d) = g[n]
  BY <1>1, JoinRounds
<1>6. g[1] = ts[1] /\ \A i \in 2 .. n : g[i] = g[i - 1] \o (d \o ts[i])
  BY DEF Joined
<1>7. PICK h \in Joined(n + 1, us, d) : Join(us, d) = h[n + 1]
  BY <1>4, JoinRounds
<1>8. h[1] = us[1] /\ \A i \in 2 .. n + 1 : h[i] = h[i - 1] \o (d \o us[i])
  BY DEF Joined
<1>9. \A i \in 1 .. n : g[i] \in Seq(Byte)
  BY DEF Joined
<1> DEFINE S == {k \in 0 .. n - 1 : h[k + 2] = t \o (d \o g[k + 1])}
<1>10. 0 \in S
  <2>1. 2 \in 2 .. n + 1 /\ 2 - 1 = 1 /\ 1 \in 1 .. n /\ 1 + 1 = 2
    BY <1>1
  <2>2. h[2] = h[1] \o (d \o us[2])
    BY <1>8, <2>1
  <2>3. us[2] = ts[1]
    BY <1>4, <2>1
  <2>4. h[2] = t \o (d \o g[1])
    BY <1>4, <1>6, <1>8, <2>2, <2>3
  <2> QED
    BY <1>1, <2>4, SMTT(60)
<1>11. ASSUME NEW k \in 0 .. (n - 1) - 1, k \in S PROVE k + 1 \in S
  <2>1. /\ k + 3 \in 2 .. n + 1 /\ (k + 3) - 1 = k + 2 /\ k + 2 \in 2 .. n
        /\ (k + 2) - 1 = k + 1 /\ (k + 2) + 1 = k + 3 /\ k + 1 \in 1 .. n
        /\ k + 2 \in 1 .. n /\ (k + 1) + 2 = k + 3 /\ (k + 1) + 1 = k + 2
        /\ k + 1 \in 0 .. n - 1
    BY <1>1
  <2>2. h[k + 3] = h[k + 2] \o (d \o us[k + 3]) /\ us[k + 3] = ts[k + 2]
    BY <1>4, <1>8, <2>1
  <2>3. g[k + 2] = g[k + 1] \o (d \o ts[k + 2])
    BY <1>6, <2>1
  <2>4. g[k + 1] \in Seq(Byte) /\ ts[k + 2] \in Seq(Byte)
    BY <1>2, <1>9, <2>1
  <2>5. PICK w \in Seq(Byte) : w = g[k + 1]
    BY <2>4
  <2>6. PICK v \in Seq(Byte) : v = ts[k + 2]
    BY <2>4
  <2>7. h[k + 2] = t \o (d \o w)
    BY <1>11, <2>5
  <2>8. FourInARow(t, d, w, v)
    BY FourAssociate
  <2>9. h[k + 3] = t \o (d \o g[k + 2])
    BY <2>2, <2>3, <2>5, <2>6, <2>7, <2>8 DEF FourInARow
  <2> QED
    BY <2>1, <2>9
<1>12. \A k \in 0 .. n - 1 : k \in S
  <2> HIDE DEF S
  <2>1. n - 1 \in Nat
    BY <1>1
  <2> QED
    BY <1>10, <1>11, <2>1, UpwardInduction
<1>13. h[n + 1] = t \o (d \o g[n])
  <2>1. n - 1 \in 0 .. n - 1
    BY <1>1
  <2>2. n - 1 \in S
    BY <1>12, <2>1, Zenon
  <2>3. (n - 1) + 2 = n + 1 /\ (n - 1) + 1 = n
    BY <1>1
  <2> QED
    BY <2>2, <2>3
<1>14. g[n] \in Seq(Byte)
  BY <1>1, <1>9
<1> QED
  BY <1>3, <1>5, <1>7, <1>13, <1>14
-----------------------------------------------------------------------------
(* Split.                                                                  *)

\* A part of a text.
LEMMA PartOfText ==
  ASSUME NEW X, NEW s \in Seq(X), NEW i \in 1 .. Len(s) + 1, NEW j \in 0 .. Len(s)
  PROVE  /\ SubSeq(s, i, j) \in Seq(X)
         /\ Len(SubSeq(s, i, j)) = IF i <= j THEN j - i + 1 ELSE 0
         /\ \A k \in 1 .. j - i + 1 : SubSeq(s, i, j)[k] = s[i + k - 1]
<1>1. PICK n \in Nat : n = Len(s)
  BY LenProperties
<1>2. \A k \in 1 .. n : s[k] \in X
  BY <1>1, ElementOfSeq
<1>3. i \in Int /\ j \in Int /\ i >= 1 /\ j <= n
  BY <1>1
<1>4. \A k \in i .. j : s[k] \in X
  BY <1>1, <1>2, <1>3
<1> QED
  BY <1>3, <1>4, SubSeqProperties

\* The length of a part of a text, the empty part included.
LEMMA PartLength ==
  ASSUME NEW X, NEW s \in Seq(X), NEW i \in 1 .. Len(s) + 1, NEW j \in i - 1 .. Len(s)
  PROVE  Len(SubSeq(s, i, j)) = j - i + 1
<1>1. PICK n \in Nat : n = Len(s)
  BY LenProperties
<1>2. i \in Int /\ j \in 0 .. n /\ j >= i - 1
  BY <1>1
<1>3. Len(SubSeq(s, i, j)) = IF i <= j THEN j - i + 1 ELSE 0
  BY <1>1, <1>2, PartOfText
<1> QED
  BY <1>2, <1>3

\* The tokens from each position on.
Cuts(s, d, n) ==
  {g \in [1 .. n + 1 -> Seq(Seq(Byte))] :
     \A i \in 1 .. n + 1 :
       /\ Find(s, d, i) = 0 => g[i] = <<SubSeq(s, i, n)>>
       /\ Find(s, d, i) # 0
            => g[i] = <<SubSeq(s, i, Find(s, d, i) - 1)>> \o g[Find(s, d, i) + Len(d)]}

\* Split is the function that cuts at the first delimiter and goes on behind it.
LEMMA SplitUnfolds ==
  ASSUME NEW s \in Seq(Byte), NEW d \in Seq(Byte), Len(d) > 0, NEW n \in Nat, n = Len(s)
  PROVE  \E g \in Cuts(s, d, n) : Split(s, d) = g[1]
<1> DEFINE piece == [i \in 1 .. n + 1 |-> <<SubSeq(s, i, TokenEnd(s, d, i))>>]
           next == [i \in 1 .. n + 1 |-> IF Find(s, d, i) = 0 THEN n + 2
                                         ELSE Find(s, d, i) + Len(d)]
<1>1. Split(s, d) = Scan(piece, next)
  BY DEF Split
<1>2. ASSUME NEW i \in 1 .. n + 1
      PROVE  /\ Find(s, d, i) = 0 => TokenEnd(s, d, i) = n
             /\ Find(s, d, i) # 0 => /\ TokenEnd(s, d, i) = Find(s, d, i) - 1
                                     /\ Find(s, d, i) \in i .. n
                                     /\ Find(s, d, i) + Len(d) \in i + 1 .. n + 1
  BY FindPlaces DEF TokenEnd
<1>3. ASSUME NEW i \in 1 .. n + 1 PROVE <<SubSeq(s, i, TokenEnd(s, d, i))>> \in Seq(Seq(Byte))
  <2>1. TokenEnd(s, d, i) \in 0 .. n
    BY <1>2
  <2>2. SubSeq(s, i, TokenEnd(s, d, i)) \in Seq(Byte)
    BY <2>1, PartOfText
  <2> QED
    BY <2>2
<1>4. piece \in Pieces(n + 1, Seq(Byte))
  BY <1>3 DEF Pieces
<1>5. next \in Forward(n + 1)
  <2>1. ASSUME NEW i \in 1 .. n + 1 PROVE next[i] \in i + 1 .. n + 2
    BY <1>2
  <2>2. \A i \in 1 .. n + 1 : next[i] \in 1 .. (n + 1) + 1 /\ next[i] > i
    BY <2>1
  <2>3. next \in [1 .. n + 1 -> 1 .. (n + 1) + 1]
    BY <2>2
  <2> HIDE DEF next
  <2> QED
    BY <2>2, <2>3 DEF Forward
<1>6. PICK f : f \in Scans(n + 1, Seq(Byte), piece, next) /\ Scan(piece, next) = f[1]
  <2> HIDE DEF piece, next
  <2>1. n + 1 \in Nat
    OBVIOUS
  <2> QED
    BY <1>4, <1>5, <2>1, ScanUnfolds
<1>7. /\ f \in [1 .. (n + 1) + 1 -> Seq(Seq(Byte))] /\ f[(n + 1) + 1] = <<>>
      /\ \A i \in 1 .. n + 1 : f[i] = piece[i] \o f[next[i]]
  <2> HIDE DEF piece, next
  <2> QED
    BY <1>6 DEF Scans
<1>8. ASSUME NEW i \in 1 .. n + 1
      PROVE  /\ f[i] \in Seq(Seq(Byte))
             /\ Find(s, d, i) = 0 => f[i] = <<SubSeq(s, i, n)>>
             /\ Find(s, d, i) # 0
                  => f[i] = <<SubSeq(s, i, Find(s, d, i) - 1)>> \o f[Find(s, d, i) + Len(d)]
  <2>1. f[i] = <<SubSeq(s, i, TokenEnd(s, d, i))>> \o f[next[i]]
    BY <1>7
  <2>2. CASE Find(s, d, i) = 0
    <3>1. next[i] = (n + 1) + 1
      BY <2>2
    <3>2. f[i] = <<SubSeq(s, i, n)>> \o <<>>
      BY <1>2, <1>7, <2>1, <2>2, <3>1
    <3>3. <<SubSeq(s, i, n)>> \in Seq(Seq(Byte))
      BY <1>2, <1>3, <2>2
    <3>4. <<SubSeq(s, i, n)>> \o <<>> = <<SubSeq(s, i, n)>>
      BY <3>3, ConcatEmptySeq
    <3>5. f[i] \in Seq(Seq(Byte))
      BY <3>2, <3>3, <3>4
    <3> QED
      BY <2>2, <3>2, <3>4, <3>5
  <2>3. CASE Find(s, d, i) # 0
    <3>1. next[i] = Find(s, d, i) + Len(d)
      BY <2>3
    <3>2. f[i] = <<SubSeq(s, i, Find(s, d, i) - 1)>> \o f[Find(s, d, i) + Len(d)]
      BY <1>2, <2>1, <2>3, <3>1
    <3>3. i \in 1 .. (n + 1) + 1
      OBVIOUS
    <3>4. f[i] \in Seq(Seq(Byte))
      BY <1>7, <3>3, Zenon
    <3> QED
      BY <2>3, <3>2, <3>4
  <2> QED
    BY <2>2, <2>3
<1> DEFINE g == [i \in 1 .. n + 1 |-> f[i]]
<1>9. g \in [1 .. n + 1 -> Seq(Seq(Byte))]
  BY <1>8
<1>10. ASSUME NEW i \in 1 .. n + 1
       PROVE  /\ Find(s, d, i) = 0 => g[i] = <<SubSeq(s, i, n)>>
              /\ Find(s, d, i) # 0
                   => g[i] = <<SubSeq(s, i, Find(s, d, i) - 1)>> \o g[Find(s, d, i) + Len(d)]
  <2>1. g[i] = f[i]
    OBVIOUS
  <2>2. CASE Find(s, d, i) # 0
    <3>1. Find(s, d, i) + Len(d) \in 1 .. n + 1
      BY <1>2, <2>2
    <3>2. g[Find(s, d, i) + Len(d)] = f[Find(s, d, i) + Len(d)]
      BY <3>1
    <3> HIDE DEF g
    <3> QED
      BY <1>8, <2>1, <2>2, <3>2
  <2>3. CASE Find(s, d, i) = 0
    BY <1>8, <2>1, <2>3
  <2> QED
    BY <2>2, <2>3
<1>11. g[1] = f[1]
  OBVIOUS
<1> HIDE DEF g, piece, next
<1>12. g \in Cuts(s, d, n)
  BY <1>9, <1>10 DEF Cuts
<1> QED
  BY <1>1, <1>6, <1>11, <1>12

\* Joined with the delimiter, the tokens from a position on are the text from there on.
LEMMA CutsJoin ==
  ASSUME NEW s \in Seq(Byte), NEW d \in Seq(Byte), Len(d) > 0, NEW n \in Nat, n = Len(s),
         NEW g \in Cuts(s, d, n)
  PROVE  \A i \in 1 .. n + 1 : Len(g[i]) > 0 /\ Join(g[i], d) = SubSeq(s, i, n)
<1> DEFINE Whole(i) == Len(g[i]) > 0 /\ Join(g[i], d) = SubSeq(s, i, n)
           S == {i \in 1 .. n + 1 : Whole(i)}
<1>1. ASSUME NEW i \in 1 .. n + 1, \A j \in i + 1 .. n + 1 : j \in S
      PROVE  Whole(i)
  <2>1. CASE Find(s, d, i) = 0
    <3>1. g[i] = <<SubSeq(s, i, n)>>
      BY <2>1 DEF Cuts
    <3>2. SubSeq(s, i, n) \in Seq(Byte)
      BY PartOfText
    <3>3. Join(<<SubSeq(s, i, n)>>, d) = SubSeq(s, i, n)
      BY <3>2, JoinOne
    <3>4. Len(<<SubSeq(s, i, n)>>) > 0
      OBVIOUS
    <3> QED
      BY <3>1, <3>3, <3>4
  <2>2. CASE Find(s, d, i) # 0
    <3>1. PICK at \in Nat : at = Find(s, d, i)
      BY FindPlaces
    <3>2. at \in i .. n /\ at + Len(d) \in i + 1 .. n + 1 /\ Occurs(s, d, at)
      <4>1. IsFirst(s, d, i, at)
        BY <3>1, FindsFirst
      <4> QED
        BY <2>2, <3>1, <4>1, FindPlaces DEF IsFirst
    <3>3. PICK m \in Nat : m = at + Len(d) /\ m \in i + 1 .. n + 1 /\ m - 1 \in at .. n
      BY <3>2, LenProperties
    <3>4. g[i] = <<SubSeq(s, i, at - 1)>> \o g[m]
      BY <2>2, <3>1, <3>3 DEF Cuts
    <3>5. Len(g[m]) > 0 /\ Join(g[m], d) = SubSeq(s, m, n)
      BY <1>1, <3>3
    <3>6. g[m] \in Seq(Seq(Byte))
      BY <3>3 DEF Cuts
    <3>7. PICK t \in Seq(Byte) : t = SubSeq(s, i, at - 1)
      <4>1. at - 1 \in 0 .. n
        BY <3>2
      <4> QED
        BY <4>1, PartOfText
    <3>8. PICK ts \in Seq(Seq(Byte)) : ts = g[m]
      BY <3>6
    <3>9. Join(<<t>> \o ts, d) = t \o (d \o Join(ts, d))
      BY <3>5, <3>7, <3>8, JoinFirst
    <3>10. Len(g[i]) > 0
      <4>1. Len(<<t>> \o ts) = Len(ts) + 1
        BY <3>7, <3>8, PutFirst
      <4> QED
        BY <3>4, <3>5, <3>7, <3>8, <4>1, LenProperties
    <3>11. d = SubSeq(s, at, m - 1)
      <4>1. at \in 1 .. Len(s) - Len(d) + 1
        BY <3>2 DEF Occurs
      <4>2. SubSeq(s, at, at + Len(d) - 1) = d
        BY <3>2, <4>1, OccursIsMatch
      <4> QED
        BY <3>3, <4>2
    <3>12. SubSeq(s, at, m - 1) \o SubSeq(s, m, n) = SubSeq(s, at, n)
      <4>1. at \in 1 .. Len(s) + 1 /\ m - 1 \in at - 1 .. Len(s) /\ n \in m - 1 .. Len(s)
        BY <3>2, <3>3
      <4>2. SubSeq(s, at, m - 1) \o SubSeq(s, (m - 1) + 1, n) = SubSeq(s, at, n)
        BY <4>1, ConcatAdjacentSubSeq
      <4>3. (m - 1) + 1 = m
        BY <3>3
      <4> QED
        BY <4>2, <4>3
    <3>13. SubSeq(s, i, at - 1) \o SubSeq(s, at, n) = SubSeq(s, i, n)
      <4>1. i \in 1 .. Len(s) + 1 /\ at - 1 \in i - 1 .. Len(s) /\ n \in at - 1 .. Len(s)
        BY <3>2
      <4>2. SubSeq(s, i, at - 1) \o SubSeq(s, (at - 1) + 1, n) = SubSeq(s, i, n)
        BY <4>1, ConcatAdjacentSubSeq
      <4>3. (at - 1) + 1 = at
        BY <3>2
      <4> QED
        BY <4>2, <4>3
    <3>14. Join(g[i], d) = SubSeq(s, i, n)
      BY <3>4, <3>5, <3>7, <3>8, <3>9, <3>11, <3>12, <3>13
    <3> QED
      BY <3>10, <3>14
  <2> QED
    BY <2>1, <2>2
<1> HIDE DEF Whole
<1>2. \A i \in 1 .. n + 1 : (\A j \in i + 1 .. n + 1 : j \in S) => i \in S
  BY <1>1
<1>3. \A i \in 1 .. n + 1 : i \in S
  <2> HIDE DEF S
  <2>1. n + 1 \in Nat
    OBVIOUS
  <2> QED
    BY <1>2, <2>1, InductionFromAbove
<1> QED
  BY <1>3 DEF Whole

\* A part of a text that ends before the delimiter occurs has no delimiter.
LEMMA NoneBefore ==
  ASSUME NEW s \in Seq(Byte), NEW d \in Seq(Byte), Len(d) > 0,
         NEW i \in 1 .. Len(s) + 1, NEW j \in 0 .. Len(s),
         \A k \in Nat : k >= i /\ Occurs(s, d, k) => k > j
  PROVE  Find(SubSeq(s, i, j), d, 1) = 0
<1>1. PICK n \in Nat : n = Len(s)
  BY LenProperties
<1>2. PICK m \in Nat : m = Len(d) /\ m > 0
  BY LenProperties
<1> DEFINE t == SubSeq(s, i, j)
<1>3. /\ t \in Seq(Byte) /\ Len(t) = IF i <= j THEN j - i + 1 ELSE 0
      /\ \A k \in 1 .. j - i + 1 : t[k] = s[i + k - 1]
  BY PartOfText
<1> HIDE DEF t
<1>4. ASSUME NEW k \in Nat, Occurs(t, d, k) PROVE FALSE
  <2>1. k \in 1 .. Len(t) - m + 1 /\ \A l \in 1 .. m : t[k + l - 1] = d[l]
    BY <1>2, <1>4 DEF Occurs
  <2>2. i <= j /\ Len(t) = j - i + 1 /\ k \in 1 .. j - i + 1 /\ k + m - 1 <= j - i + 1
    BY <1>1, <1>2, <1>3, <2>1
  <2>3. ASSUME NEW l \in 1 .. m PROVE s[(i + k - 1) + l - 1] = d[l]
    <3>1. k + l - 1 \in 1 .. j - i + 1 /\ i + (k + l - 1) - 1 = (i + k - 1) + l - 1
      BY <1>1, <1>2, <2>2
    <3>2. t[k + l - 1] = s[i + (k + l - 1) - 1]
      BY <1>3, <3>1
    <3> QED
      BY <2>1, <3>1, <3>2
  <2>4. i + k - 1 \in 1 .. n - m + 1 /\ i + k - 1 \in Nat /\ i + k - 1 >= i /\ i + k - 1 <= j
    BY <1>1, <1>2, <2>2
  <2>5. Occurs(s, d, i + k - 1)
    BY <1>1, <1>2, <2>3, <2>4 DEF Occurs
  <2> QED
    BY <2>4, <2>5
<1>5. IsFirst(t, d, 1, Find(t, d, 1))
  BY <1>3, FindsFirst
<1>6. Find(t, d, 1) = 0
  BY <1>4, <1>5 DEF IsFirst
<1> QED
  BY <1>6 DEF t

\* No token has the delimiter.
LEMMA CutsAreTokens ==
  ASSUME NEW s \in Seq(Byte), NEW d \in Seq(Byte), Len(d) > 0, NEW n \in Nat, n = Len(s),
         NEW g \in Cuts(s, d, n)
  PROVE  \A i \in 1 .. n + 1 : \A k \in 1 .. Len(g[i]) : Find(g[i][k], d, 1) = 0
<1> DEFINE Free(i) == \A k \in 1 .. Len(g[i]) : Find(g[i][k], d, 1) = 0
           S == {i \in 1 .. n + 1 : Free(i)}
<1>1. ASSUME NEW i \in 1 .. n + 1, \A j \in i + 1 .. n + 1 : j \in S
      PROVE  Free(i)
  <2>1. PICK at \in Nat : at = Find(s, d, i)
    BY FindPlaces
  <2>2. IsFirst(s, d, i, at)
    BY <2>1, FindsFirst
  <2>3. CASE at = 0
    <3>1. g[i] = <<SubSeq(s, i, n)>>
      BY <2>1, <2>3 DEF Cuts
    <3>2. \A k \in Nat : k >= i /\ Occurs(s, d, k) => k > n
      BY <2>2, <2>3 DEF IsFirst
    <3>3. Find(SubSeq(s, i, n), d, 1) = 0
      BY <3>2, NoneBefore
    <3>4. PICK t : t = SubSeq(s, i, n)
      OBVIOUS
    <3>5. Len(<<t>>) = 1 /\ <<t>>[1] = t
      OBVIOUS
    <3>6. Len(g[i]) = 1 /\ g[i][1] = t
      BY <3>1, <3>4, <3>5
    <3>7. ASSUME NEW k \in 1 .. Len(g[i]) PROVE Find(g[i][k], d, 1) = 0
      <4>1. k = 1
        BY <3>6
      <4> QED
        BY <3>3, <3>4, <3>6, <4>1
    <3> QED
      BY <3>7
  <2>4. CASE at # 0
    <3>1. at \in i .. n /\ at + Len(d) \in i + 1 .. n + 1
      BY <2>1, <2>4, FindPlaces
    <3>2. PICK m \in Nat : m = at + Len(d) /\ m \in i + 1 .. n + 1
      BY <3>1
    <3>3. g[i] = <<SubSeq(s, i, at - 1)>> \o g[m]
      BY <2>1, <2>4, <3>2 DEF Cuts
    <3>4. Free(m)
      BY <1>1, <3>2
    <3>5. PICK t \in Seq(Byte) : t = SubSeq(s, i, at - 1)
      <4>1. at - 1 \in 0 .. n
        BY <3>1
      <4> QED
        BY <4>1, PartOfText
    <3>6. Find(t, d, 1) = 0
      <4>1. \A k \in Nat : k >= i /\ Occurs(s, d, k) => k > at - 1
        BY <2>2 DEF IsFirst
      <4>2. at - 1 \in 0 .. n
        BY <3>1
      <4> QED
        BY <3>5, <4>1, <4>2, NoneBefore
    <3>7. PICK ts \in Seq(Seq(Byte)) : ts = g[m]
      BY <3>2 DEF Cuts
    <3>8. PICK l \in Nat : l = Len(ts)
      BY <3>7, LenProperties
    <3>9. /\ Len(<<t>> \o ts) = l + 1 /\ (<<t>> \o ts)[1] = t
          /\ \A k \in 1 .. l : (<<t>> \o ts)[k + 1] = ts[k]
      BY <3>5, <3>7, <3>8, PutFirst
    <3>10. ASSUME NEW k \in 1 .. Len(g[i]) PROVE Find(g[i][k], d, 1) = 0
      <4>1. Len(g[i]) = l + 1
        BY <3>3, <3>5, <3>7, <3>9
      <4>2. CASE k = 1
        BY <3>3, <3>5, <3>6, <3>7, <3>9, <4>2
      <4>3. CASE k # 1
        <5>1. PICK j \in 1 .. l : k = j + 1
          <6>1. k - 1 \in 1 .. l /\ k = (k - 1) + 1
            BY <3>8, <4>1, <4>3
          <6> QED
            BY <6>1
        <5>2. g[i][k] = ts[j]
          BY <3>3, <3>5, <3>7, <3>9, <5>1
        <5> QED
          BY <3>4, <3>7, <3>8, <5>1, <5>2
      <4> QED
        BY <4>2, <4>3
    <3> QED
      BY <3>10
  <2> QED
    BY <2>3, <2>4
<1> HIDE DEF Free
<1>2. \A i \in 1 .. n + 1 : (\A j \in i + 1 .. n + 1 : j \in S) => i \in S
  BY <1>1
<1>3. \A i \in 1 .. n + 1 : i \in S
  <2> HIDE DEF S
  <2>1. n + 1 \in Nat
    OBVIOUS
  <2> QED
    BY <1>2, <2>1, InductionFromAbove
<1> QED
  BY <1>3 DEF Free

\* Split cuts at the delimiters and nowhere else.
THEOREM SplitCutsExactly ==
  \A s, d \in Seq(Byte) : Len(d) > 0 =>
    /\ Join(Split(s, d), d) = s
    /\ \A i \in DOMAIN Split(s, d) : Find(Split(s, d)[i], d, 1) = 0
<1> SUFFICES ASSUME NEW s \in Seq(Byte), NEW d \in Seq(Byte), Len(d) > 0
             PROVE  /\ Join(Split(s, d), d) = s
                    /\ \A i \in DOMAIN Split(s, d) : Find(Split(s, d)[i], d, 1) = 0
  OBVIOUS
<1>1. PICK n \in Nat : n = Len(s)
  BY LenProperties
<1>2. PICK g \in Cuts(s, d, n) : Split(s, d) = g[1]
  BY <1>1, SplitUnfolds
<1>3. 1 \in 1 .. n + 1
  BY <1>1
<1>4. Join(g[1], d) = SubSeq(s, 1, n)
  BY <1>1, <1>2, <1>3, CutsJoin
<1>5. SubSeq(s, 1, n) = s
  BY <1>1, SubSeqFull
<1>6. \A k \in 1 .. Len(g[1]) : Find(g[1][k], d, 1) = 0
  BY <1>1, <1>2, <1>3, CutsAreTokens
<1>7. DOMAIN g[1] = 1 .. Len(g[1])
  <2>1. g[1] \in Seq(Seq(Byte))
    BY <1>2, <1>3 DEF Cuts
  <2> QED
    BY <2>1, LenProperties
<1> QED
  BY <1>2, <1>4, <1>5, <1>6, <1>7

\* The patterns of MCCodecs are texts and not empty.
LEMMA PatternsAreTexts == \A d \in Patterns : d \in Seq(Byte) /\ Len(d) > 0
<1>1. 65 \in Byte /\ 98 \in Byte
  BY DEF Byte
<1>2. ASSUME NEW a \in Byte, NEW b \in Byte, NEW c \in Byte
      PROVE  /\ <<a>> \in Seq(Byte) /\ Len(<<a>>) = 1
             /\ <<a, b>> \in Seq(Byte) /\ Len(<<a, b>>) = 2
             /\ <<a, b, c>> \in Seq(Byte) /\ Len(<<a, b, c>>) = 3
  OBVIOUS
<1>3. ASSUME NEW d \in Patterns PROVE d \in Seq(Byte) /\ Len(d) > 0
  <2>1. CASE d = <<65>>
    BY <1>1, <1>2, <2>1
  <2>2. CASE d = <<98>>
    BY <1>1, <1>2, <2>2
  <2>3. CASE d = <<65, 65>>
    BY <1>1, <1>2, <2>3
  <2>4. CASE d = <<65, 98>>
    BY <1>1, <1>2, <2>4
  <2>5. CASE d = <<65, 98, 65>>
    BY <1>1, <1>2, <2>5
  <2> QED
    BY <2>1, <2>2, <2>3, <2>4, <2>5 DEF Patterns
<1> QED
  BY <1>3

\* SplitIsExact for texts of any length.
THEOREM SplitIsAlwaysExact == Spec => []SplitIsExact
<1>1. TextOK => SplitIsExact
  BY SplitCutsExactly, PatternsAreTexts DEF TextOK, SplitIsExact
<1> QED
  BY <1>1, TextIsBytes, PTL
-----------------------------------------------------------------------------
(* ReplaceAll.                                                             *)

\* What the tokens from each position on make, joined with the replacement.
Rebuilt(s, p, to, n) ==
  {J \in [1 .. n + 1 -> Seq(Byte)] :
     \A i \in 1 .. n + 1 :
       /\ Find(s, p, i) = 0 => J[i] = SubSeq(s, i, n)
       /\ Find(s, p, i) # 0
            => J[i] = SubSeq(s, i, Find(s, p, i) - 1) \o (to \o J[Find(s, p, i) + Len(p)])}

\* Joining what Split cuts with another text replaces each delimiter by it.
LEMMA SplitRebuilds ==
  ASSUME NEW s \in Seq(Byte), NEW p \in Seq(Byte), Len(p) > 0, NEW to \in Seq(Byte),
         NEW n \in Nat, n = Len(s)
  PROVE  \E J \in Rebuilt(s, p, to, n) : Join(Split(s, p), to) = J[1]
<1>1. PICK g \in Cuts(s, p, n) : Split(s, p) = g[1]
  BY SplitUnfolds
<1> DEFINE J == [i \in 1 .. n + 1 |-> Join(g[i], to)]
<1>2. ASSUME NEW i \in 1 .. n + 1
      PROVE  /\ Join(g[i], to) \in Seq(Byte)
             /\ Find(s, p, i) = 0 => Join(g[i], to) = SubSeq(s, i, n)
             /\ Find(s, p, i) # 0
                  => Join(g[i], to)
                       = SubSeq(s, i, Find(s, p, i) - 1) \o (to \o J[Find(s, p, i) + Len(p)])
  <2>1. g[i] \in Seq(Seq(Byte)) /\ Len(g[i]) > 0
    <3>1. g[i] \in Seq(Seq(Byte))
      BY DEF Cuts
    <3>2. Len(g[i]) > 0
      BY CutsJoin
    <3> QED
      BY <3>1, <3>2
  <2>2. PICK us \in Seq(Seq(Byte)) : us = g[i]
    BY <2>1
  <2>3. Join(us, to) \in Seq(Byte)
    <3>1. PICK t : t \in Seq(Byte)
      BY EmptySeq
    <3> QED
      BY <2>1, <2>2, <3>1, JoinFirst
  <2>4. CASE Find(s, p, i) = 0
    <3>1. g[i] = <<SubSeq(s, i, n)>>
      BY <2>4 DEF Cuts
    <3>2. SubSeq(s, i, n) \in Seq(Byte)
      BY PartOfText
    <3>3. Join(g[i], to) = SubSeq(s, i, n)
      BY <3>1, <3>2, JoinOne
    <3> QED
      BY <2>4, <3>2, <3>3
  <2>5. CASE Find(s, p, i) # 0
    <3>1. PICK at \in Nat : at = Find(s, p, i)
      BY FindPlaces
    <3>2. at \in i .. n /\ at + Len(p) \in i + 1 .. n + 1
      BY <2>5, <3>1, FindPlaces
    <3>3. PICK m \in Nat : m = at + Len(p) /\ m \in i + 1 .. n + 1
      BY <3>2
    <3>4. g[i] = <<SubSeq(s, i, at - 1)>> \o g[m]
      BY <2>5, <3>1, <3>3 DEF Cuts
    <3>5. PICK t \in Seq(Byte) : t = SubSeq(s, i, at - 1)
      <4>1. at - 1 \in 0 .. n
        BY <3>2
      <4> QED
        BY <4>1, PartOfText
    <3>6. g[m] \in Seq(Seq(Byte)) /\ Len(g[m]) > 0
      <4>1. g[m] \in Seq(Seq(Byte))
        BY <3>3 DEF Cuts
      <4>2. Len(g[m]) > 0
        BY <3>3, CutsJoin
      <4> QED
        BY <4>1, <4>2
    <3>7. PICK ts \in Seq(Seq(Byte)) : ts = g[m]
      BY <3>6
    <3>8. Join(<<t>> \o ts, to) = t \o (to \o Join(ts, to))
      BY <3>5, <3>6, <3>7, JoinFirst
    <3>9. J[m] = Join(g[m], to)
      BY <3>3
    <3> HIDE DEF J
    <3>10. Join(g[i], to) = SubSeq(s, i, at - 1) \o (to \o J[m])
      BY <3>4, <3>5, <3>7, <3>8, <3>9
    <3> QED
      BY <2>2, <2>3, <2>5, <3>1, <3>3, <3>10
  <2> QED
    BY <2>4, <2>5
<1>3. \A i \in 1 .. n + 1 : J[i] = Join(g[i], to)
  OBVIOUS
<1>4. J \in [1 .. n + 1 -> Seq(Byte)]
  BY <1>2
<1> HIDE DEF J
<1>5. J \in Rebuilt(s, p, to, n)
  BY <1>2, <1>3, <1>4 DEF Rebuilt
<1>6. Join(Split(s, p), to) = J[1]
  BY <1>1, <1>3
<1> QED
  BY <1>5, <1>6

ReplaceStates == [result : Seq(Byte), pos : Nat \ {0}]

\* A round of ReplaceAll leaves a text, and a position in or behind it.
LEMMA ReplaceNextType ==
  ASSUME NEW st \in ReplaceStates, NEW p \in Seq(Byte), Len(p) > 0, NEW to \in Seq(Byte)
  PROVE  ReplaceNext(st, p, to) \in ReplaceStates
<1>1. PICK r \in Seq(Byte) : r = st.result
  BY DEF ReplaceStates
<1>2. PICK i \in Nat \ {0} : i = st.pos
  BY DEF ReplaceStates
<1>3. PICK n \in Nat : n = Len(r)
  BY LenProperties
<1>4. PICK m \in Nat : m = Len(p) /\ m > 0
  BY LenProperties
<1>5. IsFirst(r, p, i, Find(r, p, i))
  BY FindsFirst
<1>6. PICK at \in Nat : at = Find(r, p, i)
  BY <1>5 DEF IsFirst
<1>7. CASE at = 0
  BY <1>1, <1>2, <1>6, <1>7 DEF ReplaceNext
<1>8. CASE at # 0
  <2>1. at \in 1 .. n /\ at + m - 1 <= n
    BY <1>3, <1>4, <1>5, <1>6, <1>8 DEF IsFirst, Occurs
  <2>2. /\ 1 \in 1 .. Len(r) + 1 /\ at - 1 \in 0 .. Len(r)
        /\ at + m \in 1 .. Len(r) + 1 /\ n \in 0 .. Len(r)
    BY <1>3, <1>4, <2>1
  <2>3. PICK a \in Seq(Byte) : a = SubSeq(r, 1, at - 1)
    BY <2>2, PartOfText
  <2>4. PICK c \in Seq(Byte) : c = SubSeq(r, at + m, n)
    BY <2>2, PartOfText
  <2>5. a \o to \in Seq(Byte)
    BY <2>3, ConcatProperties
  <2>6. (a \o to) \o c \in Seq(Byte)
    BY <2>4, <2>5, ConcatProperties
  <2>7. PICK l \in Nat : l = Len(to)
    BY LenProperties
  <2>8. ReplaceNext(st, p, to) = [result |-> (a \o to) \o c, pos |-> at + l]
    BY <1>1, <1>2, <1>3, <1>4, <1>6, <1>8, <2>3, <2>4, <2>7 DEF ReplaceNext
  <2>9. at + l \in Nat \ {0}
    BY <1>8
  <2> QED
    BY <2>6, <2>8, <2>9 DEF ReplaceStates
<1> QED
  BY <1>7, <1>8

\* The state of ReplaceAll after each round.
Replacing(s, p, to, n) ==
  {g \in [0 .. n -> ReplaceStates] :
     /\ g[0] = [result |-> s, pos |-> 1]
     /\ \A k \in 1 .. n : g[k] = ReplaceNext(g[k - 1], p, to)}

\* ReplaceAll is the last of its rounds.
LEMMA ReplaceUnfolds ==
  ASSUME NEW s \in Seq(Byte), NEW p \in Seq(Byte), Len(p) > 0, NEW to \in Seq(Byte),
         NEW n \in Nat, n = Len(s)
  PROVE  \E g \in Replacing(s, p, to, n) : ReplaceEach(s, p, to) = g[n].result
<1> DEFINE c == [result |-> s, pos |-> 1]
           Unfolds(f) ==
             f = [k \in 0 .. n |-> IF k = 0 THEN c ELSE ReplaceNext(f[k - 1], p, to)]
           loop == CHOOSE f : Unfolds(f)
<1>1. c \in ReplaceStates
  BY DEF ReplaceStates
<1> HIDE DEF c
<1>2. PICK step \in Steps(n, ReplaceStates) :
        \A i \in 1 .. n, v \in ReplaceStates : step[i][v] = ReplaceNext(v, p, to)
  <2> DEFINE step == [i \in 1 .. n |-> [v \in ReplaceStates |-> ReplaceNext(v, p, to)]]
  <2>1. \A i \in 1 .. n, v \in ReplaceStates : ReplaceNext(v, p, to) \in ReplaceStates
    BY ReplaceNextType
  <2>2. step \in Steps(n, ReplaceStates)
    BY <2>1 DEF Steps
  <2>3. \A i \in 1 .. n, v \in ReplaceStates : step[i][v] = ReplaceNext(v, p, to)
    OBVIOUS
  <2> HIDE DEF step
  <2> QED
    BY <2>2, <2>3
<1>3. PICK g : g \in Loops(n, ReplaceStates, c, step)
  BY <1>1, LoopExists
<1>4. /\ g \in [0 .. n -> ReplaceStates] /\ g[0] = c
      /\ \A i \in 1 .. n : g[i] = step[i][g[i - 1]]
  BY <1>3 DEF Loops
<1>5. \A i \in 1 .. n : g[i] = ReplaceNext(g[i - 1], p, to)
  <2>1. \A i \in 1 .. n : g[i - 1] \in ReplaceStates
    BY <1>4
  <2> QED
    BY <1>2, <1>4, <2>1
<1>6. Unfolds(g)
  <2>1. ASSUME NEW k \in 0 .. n
        PROVE  g[k] = IF k = 0 THEN c ELSE ReplaceNext(g[k - 1], p, to)
    <3>1. CASE k = 0
      BY <1>4, <3>1
    <3>2. CASE k # 0
      BY <1>5, <3>2
    <3> QED
      BY <3>1, <3>2
  <2>2. g = [k \in 0 .. n |-> g[k]]
    BY <1>4
  <2> QED
    BY <2>1, <2>2
<1>7. Unfolds(loop)
  <2> HIDE DEF Unfolds
  <2> QED
    BY <1>6
<1> HIDE DEF loop
<1>8. loop = g
  <2>1. loop[0] = c /\ \A i \in 1 .. n : loop[i] = ReplaceNext(loop[i - 1], p, to)
    <3>1. \A k \in 0 .. n : loop[k] = IF k = 0 THEN c ELSE ReplaceNext(loop[k - 1], p, to)
      BY <1>7
    <3>2. 0 \in 0 .. n /\ \A i \in 1 .. n : i \in 0 .. n /\ i # 0
      OBVIOUS
    <3> QED
      BY <3>1, <3>2
  <2> DEFINE S == {k \in 0 .. n : loop[k] = g[k]}
  <2>2. 0 \in S
    BY <1>4, <2>1
  <2>3. ASSUME NEW k \in 0 .. n - 1, k \in S PROVE k + 1 \in S
    <3>1. k + 1 \in 1 .. n /\ (k + 1) - 1 = k
      OBVIOUS
    <3>2. loop[k + 1] = ReplaceNext(loop[k], p, to) /\ g[k + 1] = ReplaceNext(g[k], p, to)
      BY <1>5, <2>1, <3>1
    <3> QED
      BY <2>3, <3>1, <3>2
  <2>4. \A k \in 0 .. n : k \in S
    <3> HIDE DEF S
    <3> QED
      BY <2>2, <2>3, UpwardInduction
  <2>5. \A k \in 0 .. n : loop[k] = g[k]
    BY <2>4
  <2>6. DOMAIN loop = 0 .. n /\ loop = [k \in 0 .. n |-> loop[k]]
    BY <1>7
  <2>7. g = [k \in 0 .. n |-> g[k]]
    BY <1>4
  <2> QED
    BY <2>5, <2>6, <2>7
<1>9. ReplaceEach(s, p, to) = loop[n].result
  BY DEF ReplaceEach, loop, c
<1>10. g \in Replacing(s, p, to, n)
  BY <1>4, <1>5 DEF Replacing, c
<1> QED
  BY <1>8, <1>9, <1>10

\* r is `done' with the text from `start' on behind it.
Behind(r, done, s, start) ==
  /\ Len(r) = Len(done) + Len(s) - start + 1
  /\ \A k \in 1 .. Len(done) : r[k] = done[k]
  /\ \A k \in start .. Len(s) : r[Len(done) + 1 + k - start] = s[k]

\* What follows a prefix in a concatenation is the rest of the text.
LEMMA ConcatIsBehind ==
  ASSUME NEW done \in Seq(Byte), NEW s \in Seq(Byte), NEW start \in 1 .. Len(s) + 1
  PROVE  /\ done \o SubSeq(s, start, Len(s)) \in Seq(Byte)
         /\ Behind(done \o SubSeq(s, start, Len(s)), done, s, start)
<1>1. PICK n \in Nat : n = Len(s)
  BY LenProperties
<1>2. PICK l \in Nat : l = Len(done)
  BY LenProperties
<1>3. PICK t \in Seq(Byte) : t = SubSeq(s, start, n)
  <2>1. n \in 0 .. Len(s)
    BY <1>1
  <2> QED
    BY <2>1, PartOfText
<1>4. Len(t) = n - start + 1 /\ \A k \in 1 .. n - start + 1 : t[k] = s[start + k - 1]
  <2>1. n \in 0 .. Len(s)
    BY <1>1
  <2>2. /\ Len(t) = IF start <= n THEN n - start + 1 ELSE 0
        /\ \A k \in 1 .. n - start + 1 : t[k] = s[start + k - 1]
    BY <1>3, <2>1, PartOfText
  <2> QED
    BY <1>1, <2>2
<1> DEFINE r == done \o t
<1>5. /\ r \in Seq(Byte) /\ Len(r) = l + (n - start + 1)
      /\ \A k \in 1 .. l + (n - start + 1) : r[k] = IF k <= l THEN done[k] ELSE t[k - l]
  <2>1. r \in Seq(Byte)
    BY <1>3, ConcatProperties
  <2>2. Len(r) = Len(done) + Len(t)
    BY <1>3, ConcatProperties
  <2>3. \A k \in 1 .. Len(done) + Len(t) :
          r[k] = IF k <= Len(done) THEN done[k] ELSE t[k - Len(done)]
    BY <1>3, ConcatProperties
  <2> HIDE DEF r
  <2> QED
    BY <1>2, <1>4, <2>1, <2>2, <2>3
<1> HIDE DEF r
<1>6. \A k \in 1 .. l : r[k] = done[k]
  BY <1>1, <1>2, <1>5
<1>7. ASSUME NEW k \in start .. n PROVE r[l + 1 + k - start] = s[k]
  <2>1. /\ l + 1 + k - start \in 1 .. l + (n - start + 1) /\ ~ (l + 1 + k - start <= l)
        /\ (l + 1 + k - start) - l = k - start + 1 /\ k - start + 1 \in 1 .. n - start + 1
        /\ start + (k - start + 1) - 1 = k
    BY <1>1, <1>2
  <2> QED
    BY <1>4, <1>5, <2>1
<1>8. Behind(r, done, s, start)
  BY <1>1, <1>2, <1>5, <1>6, <1>7 DEF Behind
<1> QED
  BY <1>1, <1>3, <1>5, <1>8 DEF r

\* In r the pattern is found where it is found in s.
LEMMA FindShifts ==
  ASSUME NEW r \in Seq(Byte), NEW done \in Seq(Byte), NEW s \in Seq(Byte),
         NEW p \in Seq(Byte), Len(p) > 0,
         NEW start \in 1 .. Len(s) + 1, Behind(r, done, s, start)
  PROVE  Find(r, p, Len(done) + 1)
           = IF Find(s, p, start) = 0 THEN 0 ELSE Len(done) + 1 + Find(s, p, start) - start
<1>1. PICK n \in Nat : n = Len(s)
  BY LenProperties
<1>2. PICK l \in Nat : l = Len(done)
  BY LenProperties
<1>3. PICK m \in Nat : m = Len(p) /\ m > 0
  BY LenProperties
<1>4. Len(r) = l + n - start + 1 /\ \A k \in start .. n : r[l + 1 + k - start] = s[k]
  BY <1>1, <1>2 DEF Behind
<1>5. ASSUME NEW k \in Nat, k >= start
      PROVE  Occurs(r, p, l + 1 + k - start) <=> Occurs(s, p, k)
  <2>1. k \in 1 .. n - m + 1 <=> l + 1 + k - start \in 1 .. Len(r) - m + 1
    BY <1>1, <1>2, <1>3, <1>4, <1>5
  <2>2. ASSUME k \in 1 .. n - m + 1, NEW j \in 1 .. m
        PROVE  r[(l + 1 + k - start) + j - 1] = s[k + j - 1]
    <3>1. /\ k + j - 1 \in start .. n
          /\ l + 1 + (k + j - 1) - start = (l + 1 + k - start) + j - 1
      BY <1>1, <1>2, <1>3, <1>5, <2>2
    <3> QED
      BY <1>4, <3>1
  <2> QED
    BY <1>1, <1>3, <2>1, <2>2 DEF Occurs
<1>6. start \in Nat \ {0} /\ l + 1 \in Nat \ {0}
  BY <1>1, <1>2
<1>7. IsFirst(s, p, start, Find(s, p, start))
  BY <1>6, FindsFirst
<1>8. PICK at \in Nat : at = Find(s, p, start)
  BY <1>7 DEF IsFirst
<1>9. PICK at2 : at2 = IF at = 0 THEN 0 ELSE l + 1 + at - start
  OBVIOUS
<1>10. ASSUME NEW j \in Nat, j >= l + 1, Occurs(r, p, j)
       PROVE  at # 0 /\ l + 1 + at - start <= j
  <2>1. PICK k \in Nat : k = j - (l + 1) + start
    <3>1. j - (l + 1) + start \in Nat
      BY <1>1, <1>2, <1>10
    <3> QED
      BY <3>1
  <2>2. k >= start /\ j = l + 1 + k - start
    BY <1>1, <1>2, <1>10, <2>1
  <2>3. Occurs(s, p, k)
    BY <1>5, <1>10, <2>2
  <2>4. at # 0 /\ at <= k
    BY <1>7, <1>8, <2>2, <2>3 DEF IsFirst
  <2> QED
    BY <1>1, <1>2, <2>2, <2>4
<1>11. ASSUME at # 0
       PROVE  /\ l + 1 + at - start \in Nat /\ l + 1 + at - start >= l + 1
              /\ Occurs(r, p, l + 1 + at - start)
  <2>1. at >= start /\ Occurs(s, p, at)
    BY <1>7, <1>8, <1>11 DEF IsFirst
  <2>2. Occurs(r, p, l + 1 + at - start)
    BY <1>5, <2>1
  <2> QED
    BY <1>1, <1>2, <2>1, <2>2
<1>12. IsFirst(r, p, l + 1, at2)
  <2>1. CASE at = 0
    BY <1>9, <1>10, <2>1 DEF IsFirst
  <2>2. CASE at # 0
    <3>1. at2 = l + 1 + at - start
      BY <1>9, <2>2
    <3>2. at2 \in Nat /\ at2 >= l + 1 /\ Occurs(r, p, at2)
      BY <1>11, <2>2, <3>1
    <3>3. \A j \in Nat : j >= l + 1 /\ Occurs(r, p, j) => at2 <= j
      BY <1>10, <3>1
    <3> QED
      BY <1>2, <3>2, <3>3 DEF IsFirst
  <2> QED
    BY <2>1, <2>2
<1>13. IsFirst(r, p, l + 1, Find(r, p, l + 1))
  BY <1>6, FindsFirst
<1>14. Find(r, p, l + 1) = at2
  BY <1>6, <1>12, <1>13, FirstIsUnique
<1> QED
  BY <1>2, <1>8, <1>9, <1>14

FourParts(a, b, c, d) == ((a \o b) \o c) \o d = a \o (b \o (c \o d))

\* Four texts in a row, grouped from the left or from the right.
LEMMA PartsAssociate ==
  ASSUME NEW a \in Seq(Byte), NEW b \in Seq(Byte), NEW c \in Seq(Byte), NEW d \in Seq(Byte)
  PROVE  FourParts(a, b, c, d)
<1>1. PICK x : x = a \o b
  OBVIOUS
<1>2. PICK y : y = c \o d
  OBVIOUS
<1>3. x \in Seq(Byte) /\ y \in Seq(Byte)
  BY <1>1, <1>2, ConcatProperties
<1>4. (x \o c) \o d = x \o (c \o d)
  BY <1>3, ConcatAssociative, SMTT(60)
<1>5. (a \o b) \o y = a \o (b \o y)
  BY <1>3, ConcatAssociative, SMTT(60)
<1> QED
  BY <1>1, <1>2, <1>4, <1>5 DEF FourParts

\* After a round: `done' is replaced already, the text from `start' on is not.
Reached(s, n, J, st, done, start) ==
  /\ st.result = done \o SubSeq(s, start, n)
  /\ st.pos = Len(done) + 1
  /\ done \o J[start] = J[1]

\* A round of ReplaceAll finds the next place where Split cuts, takes the token and
\* the replacement into what is done, and never looks at them again.
LEMMA ReplaceRound ==
  ASSUME NEW s \in Seq(Byte), NEW p \in Seq(Byte), Len(p) > 0, NEW to \in Seq(Byte),
         NEW n \in Nat, n = Len(s), NEW J \in Rebuilt(s, p, to, n),
         NEW st \in ReplaceStates, NEW done \in Seq(Byte), NEW start \in 1 .. n + 1,
         Reached(s, n, J, st, done, start)
  PROVE  /\ Find(s, p, start) = 0 => ReplaceNext(st, p, to) = st
         /\ Find(s, p, start) # 0 =>
              \E more \in Seq(Byte) :
                Reached(s, n, J, ReplaceNext(st, p, to), more, Find(s, p, start) + Len(p))
<1>1. PICK l \in Nat : l = Len(done)
  BY LenProperties
<1>2. PICK m \in Nat : m = Len(p) /\ m > 0
  BY LenProperties
<1>3. PICK at \in Nat : at = Find(s, p, start)
  BY FindPlaces
<1>4. PICK r \in Seq(Byte) : r = done \o SubSeq(s, start, n)
  BY ConcatIsBehind
<1>5. Behind(r, done, s, start)
  BY <1>4, ConcatIsBehind
<1>6. st.result = r /\ st.pos = l + 1
  BY <1>1, <1>4 DEF Reached
<1>7. Find(r, p, l + 1) = IF at = 0 THEN 0 ELSE l + 1 + at - start
  BY <1>1, <1>3, <1>5, FindShifts
<1>8. CASE at = 0
  <2>1. ReplaceNext(st, p, to) = st
    BY <1>6, <1>7, <1>8 DEF ReplaceNext
  <2> QED
    BY <1>3, <1>8, <2>1
<1>9. CASE at # 0
  <2>1. at \in start .. n /\ at + m \in start + 1 .. n + 1
    BY <1>2, <1>3, <1>9, FindPlaces
  <2>2. PICK b \in Nat : b = at + m /\ b \in 1 .. n + 1
    BY <2>1
  <2>3. PICK i \in Nat : i = l + 1 + at - start
    <3>1. l + 1 + at - start \in Nat
      BY <2>1
    <3> QED
      BY <3>1
  <2>4. i >= 1 /\ Find(r, p, l + 1) = i /\ i # 0
    BY <1>7, <1>9, <2>1, <2>3
  <2>5. /\ Len(r) = l + n - start + 1
        /\ \A k \in 1 .. l : r[k] = done[k]
        /\ \A k \in start .. n : r[l + 1 + k - start] = s[k]
    BY <1>1, <1>5 DEF Behind
  <2>6. PICK a \in Seq(Byte) : a = SubSeq(s, start, at - 1)
    <3>1. at - 1 \in 0 .. n
      BY <2>1
    <3> QED
      BY <3>1, PartOfText
  <2>7. Len(a) = at - start /\ \A k \in 1 .. at - start : a[k] = s[start + k - 1]
    <3>1. at - 1 \in 0 .. Len(s)
      BY <2>1
    <3>2. /\ Len(a) = IF start <= at - 1 THEN at - 1 - start + 1 ELSE 0
          /\ \A k \in 1 .. at - 1 - start + 1 : a[k] = s[start + k - 1]
      BY <2>6, <3>1, PartOfText
    <3> QED
      BY <2>1, <3>2
  <2>8. SubSeq(r, 1, i - 1) = done \o a
    <3>1. PICK x \in Seq(Byte) : x = SubSeq(r, 1, i - 1)
      <4>1. 1 \in 1 .. Len(r) + 1 /\ i - 1 \in 0 .. Len(r)
        BY <2>1, <2>3, <2>4, <2>5
      <4> QED
        BY <4>1, PartOfText
    <3>2. Len(x) = i - 1 /\ \A k \in 1 .. i - 1 : x[k] = r[k]
      <4>1. 1 \in 1 .. Len(r) + 1 /\ i - 1 \in 0 .. Len(r)
        BY <2>1, <2>3, <2>4, <2>5
      <4>2. /\ Len(x) = IF 1 <= i - 1 THEN i - 1 - 1 + 1 ELSE 0
            /\ \A k \in 1 .. i - 1 - 1 + 1 : x[k] = r[1 + k - 1]
        BY <3>1, <4>1, PartOfText
      <4> QED
        BY <2>4, <4>2
    <3>3. PICK y \in Seq(Byte) : y = done \o a
      BY ConcatProperties
    <3>4. /\ Len(y) = Len(done) + Len(a)
          /\ \A k \in 1 .. Len(done) + Len(a) :
               y[k] = IF k <= Len(done) THEN done[k] ELSE a[k - Len(done)]
      BY <3>3, ConcatProperties
    <3>5. Len(y) = Len(x)
      BY <1>1, <2>1, <2>3, <2>7, <3>2, <3>4
    <3>6. ASSUME NEW k \in 1 .. Len(x) PROVE x[k] = y[k]
      <4>1. k \in 1 .. i - 1 /\ x[k] = r[k]
        BY <2>4, <3>2
      <4>2. CASE k <= l
        BY <1>1, <2>5, <3>4, <3>5, <4>1, <4>2
      <4>3. CASE k > l
        <5>1. PICK q \in Nat : q = k - l /\ q >= 1 /\ q <= at - start
          <6>1. k <= l + at - start
            BY <2>1, <2>3, <4>1
          <6>2. k - l \in Nat /\ k - l >= 1 /\ k - l <= at - start
            BY <2>1, <4>1, <4>3, <6>1, SMTT(60)
          <6> QED
            BY <6>2
        <5>2. /\ q \in 1 .. at - start /\ start + q - 1 \in start .. n
              /\ l + 1 + (start + q - 1) - start = k
          BY <2>1, <5>1
        <5>3. r[k] = s[start + q - 1]
          BY <2>5, <5>2
        <5>4. y[k] = a[q]
          <6>1. k \in 1 .. Len(done) + Len(a)
            BY <3>4, <3>5
          <6>2. ~ (k <= Len(done)) /\ k - Len(done) = q
            BY <1>1, <4>3, <5>1
          <6> QED
            BY <3>4, <6>1, <6>2
        <5> QED
          BY <2>7, <4>1, <5>2, <5>3, <5>4
      <4> QED
        BY <4>1, <4>2, <4>3
    <3> QED
      BY <3>1, <3>3, <3>5, <3>6, SeqEqual
  <2>9. SubSeq(r, i + m, Len(r)) = SubSeq(s, b, n)
    <3>1. i + m \in 1 .. Len(r) + 1 /\ Len(r) \in 0 .. Len(r)
      BY <2>1, <2>3, <2>4, <2>5
    <3>2. PICK x \in Seq(Byte) : x = SubSeq(r, i + m, Len(r))
      BY <3>1, PartOfText
    <3>3. Len(x) = n - b + 1 /\ \A k \in 1 .. n - b + 1 : x[k] = r[i + m + k - 1]
      <4>1. /\ Len(x) = IF i + m <= Len(r) THEN Len(r) - (i + m) + 1 ELSE 0
            /\ \A k \in 1 .. Len(r) - (i + m) + 1 : x[k] = r[i + m + k - 1]
        BY <3>1, <3>2, PartOfText
      <4>2. Len(r) - (i + m) + 1 = n - b + 1 /\ (i + m <= Len(r) <=> b <= n)
        BY <2>1, <2>2, <2>3, <2>5
      <4>3. Len(x) = n - b + 1
        <5>1. Len(r) \in (i + m) - 1 .. Len(r)
          BY <3>1
        <5>2. Len(x) = Len(r) - (i + m) + 1
          BY <3>1, <3>2, <5>1, PartLength
        <5> QED
          BY <4>2, <5>2
      <4> QED
        BY <4>1, <4>2, <4>3
    <3>4. PICK y \in Seq(Byte) : y = SubSeq(s, b, n)
      <4>1. n \in 0 .. Len(s)
        OBVIOUS
      <4>2. SubSeq(s, b, n) \in Seq(Byte)
        BY <2>2, <4>1, PartOfText
      <4> QED
        BY <4>2
    <3>5. Len(y) = n - b + 1 /\ \A k \in 1 .. n - b + 1 : y[k] = s[b + k - 1]
      <4>1. n \in 0 .. Len(s)
        OBVIOUS
      <4>2. /\ Len(y) = IF b <= n THEN n - b + 1 ELSE 0
            /\ \A k \in 1 .. n - b + 1 : y[k] = s[b + k - 1]
        BY <2>2, <3>4, <4>1, PartOfText
      <4>3. Len(y) = n - b + 1
        <5>1. n \in b - 1 .. Len(s)
          BY <2>2
        <5> QED
          BY <2>2, <3>4, <5>1, PartLength
      <4> QED
        BY <4>2, <4>3
    <3>6. ASSUME NEW k \in 1 .. Len(x) PROVE x[k] = y[k]
      <4>1. k \in 1 .. n - b + 1
        BY <3>3
      <4>2. b + k - 1 \in start .. n /\ l + 1 + (b + k - 1) - start = i + m + k - 1
        BY <2>1, <2>2, <2>3, <4>1
      <4>3. r[i + m + k - 1] = s[b + k - 1]
        BY <2>5, <4>2
      <4> QED
        BY <3>3, <3>5, <4>1, <4>3
    <3>7. Len(x) = Len(y)
      BY <3>3, <3>5
    <3> QED
      BY <3>2, <3>4, <3>6, <3>7, SeqEqual
  <2>10. PICK t \in Nat : t = Len(to)
    BY LenProperties
  <2>11. PICK more \in Seq(Byte) : more = (done \o a) \o to
    <3>1. done \o a \in Seq(Byte)
      BY ConcatProperties
    <3>2. (done \o a) \o to \in Seq(Byte)
      BY <3>1, ConcatProperties
    <3> QED
      BY <3>2
  <2>12. Len(more) = i + t - 1
    <3>1. PICK x \in Seq(Byte) : x = done \o a
      BY ConcatProperties
    <3>2. Len(x) = Len(done) + Len(a)
      BY <3>1, ConcatProperties
    <3>3. Len(more) = Len(x) + Len(to)
      BY <2>11, <3>1, ConcatProperties
    <3> QED
      BY <1>1, <2>1, <2>3, <2>7, <2>10, <3>2, <3>3
  <2>13. ReplaceNext(st, p, to) = [result |-> more \o SubSeq(s, b, n), pos |-> i + t]
    BY <1>2, <1>6, <2>4, <2>8, <2>9, <2>10, <2>11 DEF ReplaceNext
  <2>14. J[start] = a \o (to \o J[b])
    BY <1>2, <1>3, <1>9, <2>2, <2>6 DEF Rebuilt
  <2>15. more \o J[b] = J[1]
    <3>1. J[b] \in Seq(Byte)
      BY <2>2 DEF Rebuilt
    <3>2. PICK w \in Seq(Byte) : w = J[b]
      BY <3>1
    <3>3. FourParts(done, a, to, w)
      BY PartsAssociate
    <3>4. done \o J[start] = J[1]
      BY DEF Reached
    <3> QED
      BY <2>11, <2>14, <3>2, <3>3, <3>4 DEF FourParts
  <2>16. Reached(s, n, J, ReplaceNext(st, p, to), more, b)
    <3>1. i + t = Len(more) + 1
      BY <2>3, <2>10, <2>12
    <3>2. PICK v : v = more \o SubSeq(s, b, n)
      OBVIOUS
    <3>3. ReplaceNext(st, p, to).result = v /\ ReplaceNext(st, p, to).pos = i + t
      BY <2>13, <3>2, SMTT(60)
    <3> QED
      BY <2>15, <3>1, <3>2, <3>3 DEF Reached
  <2> QED
    BY <1>2, <1>3, <1>9, <2>2, <2>16
<1> QED
  BY <1>8, <1>9

\* ReplaceAll puts the replacement where Split cuts, and searches no replacement again.
THEOREM ReplaceIsJoin ==
  \A s, p, to \in Seq(Byte) : Len(p) > 0 => ReplaceEach(s, p, to) = Join(Split(s, p), to)
<1> SUFFICES ASSUME NEW s \in Seq(Byte), NEW p \in Seq(Byte), NEW to \in Seq(Byte), Len(p) > 0
             PROVE  ReplaceEach(s, p, to) = Join(Split(s, p), to)
  OBVIOUS
<1>1. PICK n \in Nat : n = Len(s)
  BY LenProperties
<1>2. PICK J \in Rebuilt(s, p, to, n) : Join(Split(s, p), to) = J[1]
  BY <1>1, SplitRebuilds
<1>3. PICK g \in Replacing(s, p, to, n) : ReplaceEach(s, p, to) = g[n].result
  BY <1>1, ReplaceUnfolds
<1>4. /\ g[0] = [result |-> s, pos |-> 1]
      /\ \A k \in 1 .. n : g[k] = ReplaceNext(g[k - 1], p, to)
      /\ \A k \in 0 .. n : g[k] \in ReplaceStates
  BY DEF Replacing
<1> DEFINE Inv(k) == \E done \in Seq(Byte), start \in 1 .. n + 1 :
                       /\ Reached(s, n, J, g[k], done, start)
                       /\ Find(s, p, start) = 0 \/ start > k
           S == {k \in 0 .. n : Inv(k)}
<1>5. Inv(0)
  <2>1. PICK e \in Seq(Byte) : e = <<>> /\ Len(e) = 0
    BY EmptySeq
  <2>2. J[1] \in Seq(Byte)
    <3>1. J \in [1 .. n + 1 -> Seq(Byte)] /\ 1 \in 1 .. n + 1
      BY <1>1 DEF Rebuilt
    <3> QED
      BY <3>1
  <2>3. e \o J[1] = J[1] /\ e \o s = s
    BY <2>1, <2>2, ConcatEmptySeq
  <2>4. SubSeq(s, 1, n) = s
    BY <1>1, SubSeqFull
  <2>5. Reached(s, n, J, g[0], e, 1)
    BY <1>4, <2>1, <2>3, <2>4 DEF Reached
  <2>6. 1 \in 1 .. n + 1 /\ 1 > 0
    BY <1>1
  <2> QED
    BY <2>5, <2>6
<1>6. ASSUME NEW k \in 0 .. n - 1, Inv(k) PROVE Inv(k + 1)
  <2>1. PICK done \in Seq(Byte), start \in 1 .. n + 1 :
          Reached(s, n, J, g[k], done, start) /\ (Find(s, p, start) = 0 \/ start > k)
    BY <1>6
  <2>2. g[k + 1] = ReplaceNext(g[k], p, to)
    <3>1. k + 1 \in 1 .. n /\ (k + 1) - 1 = k
      BY <1>1
    <3> QED
      BY <1>4, <3>1
  <2>3. PICK st \in ReplaceStates : st = g[k]
    BY <1>4
  <2>4. Reached(s, n, J, st, done, start)
    BY <2>1, <2>3
  <2>5. PICK at \in Nat : at = Find(s, p, start)
    BY <1>1, FindPlaces
  <2>6. CASE at = 0
    <3>1. ReplaceNext(st, p, to) = st
      <4> HIDE DEF Inv, S
      <4>1. Find(s, p, start) = 0 => ReplaceNext(st, p, to) = st
        BY <1>1, <1>2, <2>4, ReplaceRound
      <4> QED
        BY <2>5, <2>6, <4>1
    <3> QED
      BY <2>1, <2>2, <2>3, <2>5, <2>6, <3>1
  <2>7. CASE at # 0
    <3>1. at \in start .. n /\ at + Len(p) \in start + 1 .. n + 1
      BY <1>1, <2>1, <2>5, <2>7, FindPlaces
    <3>2. \E more \in Seq(Byte) : Reached(s, n, J, ReplaceNext(st, p, to), more, at + Len(p))
      BY <1>1, <1>2, <2>1, <2>4, <2>5, <2>7, ReplaceRound
    <3>3. PICK more \in Seq(Byte) : Reached(s, n, J, g[k + 1], more, at + Len(p))
      BY <2>2, <2>3, <3>2
    <3>4. at + Len(p) \in 1 .. n + 1 /\ at + Len(p) > k + 1
      BY <2>1, <2>5, <2>7, <3>1
    <3> QED
      BY <3>3, <3>4
  <2> QED
    BY <2>6, <2>7
<1> HIDE DEF Inv
<1>7. 0 \in S /\ \A k \in 0 .. n - 1 : k \in S => k + 1 \in S
  BY <1>1, <1>5, <1>6
<1>8. n \in S
  <2> HIDE DEF S
  <2>1. \A k \in 0 .. n : k \in S
    BY <1>7, UpwardInduction
  <2>2. n \in 0 .. n
    BY <1>1
  <2> QED
    BY <2>1, <2>2
<1>9. PICK done \in Seq(Byte), start \in 1 .. n + 1 :
        Reached(s, n, J, g[n], done, start) /\ (Find(s, p, start) = 0 \/ start > n)
  BY <1>8 DEF Inv
<1>10. Find(s, p, start) = 0
  <2>1. CASE start > n
    <3>1. start = n + 1
      BY <1>1, <2>1
    <3> QED
      BY <1>1, <3>1, FindPlaces
  <2> QED
    BY <1>9, <2>1
<1>11. J[start] = SubSeq(s, start, n)
  BY <1>2, <1>10 DEF Rebuilt
<1>12. g[n].result = J[1]
  BY <1>9, <1>11 DEF Reached
<1> QED
  BY <1>2, <1>3, <1>12

\* ReplaceIsSplitJoin for texts of any length.
THEOREM ReplaceIsAlwaysSplitJoin == Spec => []ReplaceIsSplitJoin
<1>1. TextOK => ReplaceIsSplitJoin
  BY ReplaceIsJoin, PatternsAreTexts DEF TextOK, ReplaceIsSplitJoin
<1> QED
  BY <1>1, TextIsBytes, PTL
-----------------------------------------------------------------------------
(* Reading a field of an object.                                           *)

\* The least element of a set of numbers is the one below the others.
LEMMA MinIs ==
  ASSUME NEW T \in SUBSET Nat, NEW x \in T, \A y \in T : x <= y
  PROVE  Min(T) = x
<1>1. Min(T) \in T /\ \A y \in T : Min(T) <= y
  BY Zenon DEF Min
<1>2. PICK z \in Nat : z = Min(T)
  BY <1>1
<1>3. x \in Nat /\ z <= x /\ x <= z
  BY <1>1, <1>2
<1> QED
  BY <1>2, <1>3

\* FindOneOf returns the first position that holds one of the characters.
LEMMA FindOneOfIs ==
  ASSUME NEW s \in Seq(Byte), NEW chars, NEW i \in Nat, NEW k \in i .. Len(s), s[k] \in chars,
         \A j \in i .. k - 1 : s[j] \notin chars
  PROVE  FindOneOf(s, chars, i) = k
<1>1. PICK n \in Nat : n = Len(s)
  BY LenProperties
<1> DEFINE T == {j \in i .. n : s[j] \in chars}
<1>2. T \in SUBSET Nat /\ k \in T /\ T # {}
  BY <1>1
<1>3. ASSUME NEW j \in T PROVE k <= j
  BY <1>1
<1>4. FindOneOf(s, chars, i) = IF T = {} THEN 0 ELSE Min(T)
  BY <1>1 DEF FindOneOf
<1> HIDE DEF T
<1>5. Min(T) = k
  BY <1>2, <1>3, MinIs
<1> QED
  BY <1>2, <1>4, <1>5

\* The text "key" is found at `at', the first colon from there on is at c, and a string
\* begins behind it and ends at q.
StringAt(s, key, at, c, q) ==
  /\ at \in 1 .. Len(s) /\ Find(s, <<Quote>> \o key \o <<Quote>>, 1) = at
  /\ c \in at .. Len(s) /\ s[c] = Colon /\ \A j \in at .. c - 1 : s[j] # Colon
  /\ q \in c + 2 .. Len(s) /\ s[c + 1] = Quote /\ s[q] = Quote
  /\ \A j \in c + 2 .. q - 1 : s[j] # Quote

\* A value in quotes is what is between its quotes.
LEMMA StringIsRead ==
  ASSUME NEW s \in Seq(Byte), NEW key \in Seq(Byte), NEW at, NEW c, NEW q,
         StringAt(s, key, at, c, q)
  PROVE  GetString(s, key) = SubSeq(s, c + 2, q - 1)
<1> PICK n \in Nat : n = Len(s)
  BY LenProperties
<1>0. /\ at \in 1 .. n /\ Find(s, <<Quote>> \o key \o <<Quote>>, 1) = at
      /\ c \in at .. n /\ s[c] = Colon /\ \A j \in at .. c - 1 : s[j] # Colon
      /\ q \in c + 2 .. n /\ s[c + 1] = Quote /\ s[q] = Quote
      /\ \A j \in c + 2 .. q - 1 : s[j] # Quote
  BY DEF StringAt
<1> USE <1>0
<1>1. FindOneOf(s, {Colon}, at) = c
  <2>1. at \in Nat /\ c \in at .. Len(s) /\ s[c] \in {Colon}
    OBVIOUS
  <2>2. \A j \in at .. c - 1 : s[j] \notin {Colon}
    OBVIOUS
  <2> QED
    BY <2>1, <2>2, FindOneOfIs
<1>2. ValueStart(s, key) = c + 1
  <2> DEFINE black == {i \in c + 1 .. Len(s) : s[i] \notin Whitespace}
  <2>1. black \in SUBSET Nat /\ c + 1 \in black /\ \A y \in black : c + 1 <= y
    BY DEF Whitespace, Quote
  <2>2. ValueStart(s, key) = IF at = 0 \/ c = 0 \/ black = {} THEN 0 ELSE Min(black)
    BY <1>1 DEF ValueStart
  <2> HIDE DEF black
  <2>3. Min(black) = c + 1
    BY <2>1, MinIs
  <2>4. black # {} /\ at # 0 /\ c # 0
    BY <2>1
  <2> QED
    BY <2>2, <2>3, <2>4
<1>3. FindOneOf(s, {Quote}, c + 2) = q
  <2>1. c + 2 \in Nat /\ q \in c + 2 .. Len(s) /\ s[q] \in {Quote}
    OBVIOUS
  <2>2. \A j \in c + 2 .. q - 1 : s[j] \notin {Quote}
    OBVIOUS
  <2> QED
    BY <2>1, <2>2, FindOneOfIs
<1>4. ExtractValue(s, key) = SubSeq(s, c + 1, q)
  <2>1. (c + 1) + 1 = c + 2 /\ c + 1 # 0 /\ q # 0
    OBVIOUS
  <2> QED
    BY <1>2, <1>3, <2>1 DEF ExtractValue
<1>5. c + 1 \in 1 .. Len(s) + 1 /\ q \in (c + 1) - 1 .. Len(s) /\ q \in 0 .. Len(s)
  OBVIOUS
<1>6. PICK v \in Seq(Byte) : v = SubSeq(s, c + 1, q)
  BY <1>5, PartOfText
<1>7. Len(v) = q - c /\ \A k \in 1 .. q - c : v[k] = s[c + k]
  <2>1. Len(v) = q - (c + 1) + 1
    BY <1>5, <1>6, PartLength
  <2>2. \A k \in 1 .. q - (c + 1) + 1 : v[k] = s[c + 1 + k - 1]
    BY <1>5, <1>6, PartOfText
  <2>3. q - (c + 1) + 1 = q - c /\ \A k \in 1 .. q - c : c + 1 + k - 1 = c + k
    OBVIOUS
  <2> QED
    BY <2>1, <2>2, <2>3
<1>8. v[1] = Quote /\ v[Len(v)] = Quote /\ Len(v) >= 2
  <2>1. 1 \in 1 .. q - c /\ q - c \in 1 .. q - c /\ c + (q - c) = q /\ q - c >= 2
    OBVIOUS
  <2> QED
    BY <1>7, <2>1
<1>9. GetString(s, key) = SubSeq(v, 2, Len(v) - 1)
  BY <1>4, <1>6, <1>8 DEF GetString, RemoveQuotes
<1>10. SubSeq(v, 2, Len(v) - 1) = SubSeq(s, c + 2, q - 1)
  <2>1. /\ 2 \in 1 .. Len(v) + 1 /\ Len(v) - 1 \in 2 - 1 .. Len(v) /\ Len(v) - 1 \in 0 .. Len(v)
        /\ c + 2 \in 1 .. Len(s) + 1 /\ q - 1 \in (c + 2) - 1 .. Len(s) /\ q - 1 \in 0 .. Len(s)
    BY <1>7
  <2>2. PICK x \in Seq(Byte) : x = SubSeq(v, 2, Len(v) - 1)
    BY <2>1, PartOfText
  <2>3. PICK y \in Seq(Byte) : y = SubSeq(s, c + 2, q - 1)
    BY <2>1, PartOfText
  <2>4. Len(x) = (Len(v) - 1) - 2 + 1 /\ Len(y) = (q - 1) - (c + 2) + 1
    BY <2>1, <2>2, <2>3, PartLength
  <2>5. /\ \A k \in 1 .. (Len(v) - 1) - 2 + 1 : x[k] = v[2 + k - 1]
        /\ \A k \in 1 .. (q - 1) - (c + 2) + 1 : y[k] = s[c + 2 + k - 1]
    BY <2>1, <2>2, <2>3, PartOfText
  <2>6. Len(x) = q - c - 2 /\ Len(y) = q - c - 2
    BY <1>7, <2>4, SMTT(60)
  <2>7. ASSUME NEW k \in 1 .. Len(x) PROVE x[k] = y[k]
    <3>1. k \in 1 .. (Len(v) - 1) - 2 + 1 /\ k \in 1 .. (q - 1) - (c + 2) + 1
      BY <2>4, <2>6
    <3>2. 2 + k - 1 \in 1 .. q - c /\ c + (2 + k - 1) = c + 2 + k - 1
      BY <2>6
    <3> QED
      BY <1>7, <2>5, <3>1, <3>2
  <2> QED
    BY <2>2, <2>3, <2>6, <2>7, SeqEqual, ZenonT(60)
<1> QED
  BY <1>9, <1>10
-----------------------------------------------------------------------------
(* Where the pieces of a text are.                                         *)

\* x stands in o behind position i.
Stands(o, i, x) == \A j \in 1 .. Len(x) : o[i + j] = x[j]

\* Where a concatenation stands, its two parts stand one behind the other.
LEMMA StandsConcat ==
  ASSUME NEW o, NEW i \in Nat, NEW x \in Seq(Byte), NEW y \in Seq(Byte), Stands(o, i, x \o y)
  PROVE  Stands(o, i, x) /\ Stands(o, i + Len(x), y)
<1>1. PICK n \in Nat : n = Len(x)
  BY LenProperties
<1>2. PICK m \in Nat : m = Len(y)
  BY LenProperties
<1>3. Len(x \o y) = n + m /\ \A j \in 1 .. n + m : (x \o y)[j] = IF j <= n THEN x[j] ELSE y[j - n]
  BY <1>1, <1>2, ConcatProperties
<1>4. \A j \in 1 .. n + m : o[i + j] = IF j <= n THEN x[j] ELSE y[j - n]
  BY <1>3 DEF Stands
<1>5. ASSUME NEW j \in 1 .. n PROVE o[i + j] = x[j]
  BY <1>4
<1>6. ASSUME NEW j \in 1 .. m PROVE o[i + n + j] = y[j]
  <2>1. n + j \in 1 .. n + m /\ ~ (n + j <= n) /\ (n + j) - n = j /\ i + (n + j) = i + n + j
    OBVIOUS
  <2> QED
    BY <1>4, <2>1
<1> QED
  BY <1>1, <1>2, <1>5, <1>6 DEF Stands

\* Where a text of one character stands, that character is.
LEMMA StandsOne ==
  ASSUME NEW o, NEW i \in Nat, NEW c, Stands(o, i, <<c>>)
  PROVE  o[i + 1] = c
<1>1. Len(<<c>>) = 1 /\ <<c>>[1] = c
  OBVIOUS
<1> QED
  BY <1>1 DEF Stands

\* A character as a text.
LEMMA One ==
  ASSUME NEW c \in Byte
  PROVE  <<c>> \in Seq(Byte) /\ Len(<<c>>) = 1 /\ <<c>>[1] = c
OBVIOUS
-----------------------------------------------------------------------------
(* Objects and arrays.                                                     *)

\* Joined texts are a text.
LEMMA JoinType ==
  ASSUME NEW ts \in Seq(Seq(Byte)), NEW d \in Seq(Byte)
  PROVE  Join(ts, d) \in Seq(Byte)
<1>1. PICK n \in Nat : n = Len(ts) /\ DOMAIN ts = 1 .. n
  BY LenProperties
<1>2. \A i \in 1 .. n : ts[i] \in Seq(Byte)
  BY <1>1, ElementOfSeq
<1> DEFINE ss == [i \in 1 .. n |-> IF i = 1 THEN ts[i] ELSE d \o ts[i]]
<1>3. ASSUME NEW i \in 1 .. n PROVE ss[i] \in Seq(Byte)
  BY <1>2, ConcatProperties
<1>4. ss \in Seq(Seq(Byte))
  BY <1>3
<1>5. Join(ts, d) = FlattenSeq(ss)
  BY <1>1 DEF Join
<1> HIDE DEF ss
<1> QED
  BY <1>4, <1>5, FlattenIndex

\* What is escaped character by character.
Escaped(c) == IF c \in DOMAIN EscapeOf THEN <<Backslash, EscapeOf[c]>> ELSE <<c>>

\* An escaped text is a text, and a plain one escapes to itself.
LEMMA EscapeType ==
  ASSUME NEW s \in Seq(Byte)
  PROVE  /\ EscapeString(s) \in Seq(Byte)
         /\ Plain(s) => EscapeString(s) = s
<1>1. PICK n \in Nat : n = Len(s) /\ DOMAIN s = 1 .. n
  BY LenProperties
<1>2. \A i \in 1 .. n : s[i] \in Byte
  BY <1>1, ElementOfSeq
<1> DEFINE ss == [i \in 1 .. n |-> Escaped(s[i])]
<1>3. EscapeString(s) = FlattenSeq(ss)
  BY <1>1 DEF EscapeString, Escaped
<1>4. ASSUME NEW c \in Byte PROVE Escaped(c) \in Seq(Byte)
  <2>1. CASE c \in DOMAIN EscapeOf
    <3>1. Backslash \in Byte /\ EscapeOf[c] \in Byte
      BY <2>1, EscapesDiffer
    <3> QED
      BY <2>1, <3>1 DEF Escaped
  <2>2. CASE c \notin DOMAIN EscapeOf
    BY <2>2 DEF Escaped
  <2> QED
    BY <2>1, <2>2
<1>5. ss \in Seq(Seq(Byte)) /\ Len(ss) = n /\ \A i \in 1 .. n : ss[i] = Escaped(s[i])
  BY <1>2, <1>4
<1> HIDE DEF ss
<1>6. EscapeString(s) \in Seq(Byte)
  BY <1>3, <1>5, FlattenIndex
<1>7. ASSUME Plain(s) PROVE EscapeString(s) = s
  <2>1. ASSUME NEW i \in 1 .. n PROVE ss[i] = <<s[i]>>
    <3>1. s[i] \notin DOMAIN EscapeOf
      BY <1>1, <1>7 DEF Plain
    <3> QED
      BY <1>5, <3>1 DEF Escaped
  <2>2. ASSUME NEW i \in 1 .. Len(ss) PROVE Len(ss[i]) = 1 /\ ss[i][1] = s[i]
    <3>1. ss[i] = <<s[i]>> /\ s[i] \in Byte
      BY <1>2, <1>5, <2>1
    <3> QED
      BY <3>1, One
  <2>3. /\ FlattenSeq(ss) \in Seq(Byte) /\ Len(FlattenSeq(ss)) = Len(ss)
        /\ \A i \in 1 .. Len(ss) : FlattenSeq(ss)[i] = ss[i][1]
    BY <1>5, <2>2, FlattenSingles
  <2>4. PICK f \in Seq(Byte) : f = FlattenSeq(ss)
    BY <2>3
  <2>5. Len(f) = n /\ \A i \in 1 .. n : f[i] = s[i]
    BY <1>5, <2>2, <2>3, <2>4
  <2>6. f = s
    BY <1>1, <2>5, SeqEqual
  <2> QED
    BY <1>3, <2>4, <2>6
<1> QED
  BY <1>6, <1>7

\* A quoted text is a text.
LEMMA QuotedType ==
  ASSUME NEW s \in Seq(Byte)
  PROVE  Quoted(s) \in Seq(Byte)
<1>1. PICK e \in Seq(Byte) : e = EscapeString(s)
  BY EscapeType
<1>2. PICK q \in Seq(Byte) : q = <<Quote>>
  <2>1. Quote \in Byte
    BY DEF Quote, Byte
  <2> QED
    BY <2>1, One
<1>3. q \o e \in Seq(Byte)
  BY ConcatProperties
<1>4. (q \o e) \o q \in Seq(Byte)
  BY <1>3, ConcatProperties
<1> QED
  BY <1>1, <1>2, <1>4 DEF Quoted

\* A text between two characters.
Framed(t, a, b, x) == t = <<a>> \o x \o <<b>>

\* Characters that are no blanks.
LEMMA FramedText ==
  ASSUME NEW a \in Byte \ Whitespace, NEW b \in Byte \ Whitespace, NEW x \in Seq(Byte),
         NEW t, Framed(t, a, b, x)
  PROVE  /\ t \in Seq(Byte) /\ Len(t) = Len(x) + 2
         /\ t[1] = a /\ t[Len(x) + 2] = b
         /\ Trim(t) = t
<1>1. PICK n \in Nat : n = Len(x)
  BY LenProperties
<1>2. PICK p \in Seq(Byte) : p = <<a>> /\ Len(p) = 1 /\ p[1] = a
  BY One
<1>3. PICK q \in Seq(Byte) : q = <<b>> /\ Len(q) = 1 /\ q[1] = b
  BY One
<1>4. PICK y \in Seq(Byte) : y = p \o x
  BY ConcatProperties
<1>5. Len(y) = n + 1 /\ y[1] = a
  <2>1. Len(y) = Len(p) + Len(x)
    BY <1>4, ConcatProperties
  <2>2. \A i \in 1 .. Len(p) + Len(x) : y[i] = IF i <= Len(p) THEN p[i] ELSE x[i - Len(p)]
    BY <1>4, ConcatProperties
  <2>3. 1 \in 1 .. Len(p) + Len(x) /\ 1 <= Len(p)
    BY <1>1, <1>2
  <2> QED
    BY <1>1, <1>2, <2>1, <2>2, <2>3
<1>6. PICK z \in Seq(Byte) : z = y \o q
  BY ConcatProperties
<1>7. Len(z) = n + 2 /\ z[1] = a /\ z[n + 2] = b
  <2>1. Len(z) = Len(y) + Len(q)
    BY <1>6, ConcatProperties
  <2>2. \A i \in 1 .. Len(y) + Len(q) : z[i] = IF i <= Len(y) THEN y[i] ELSE q[i - Len(y)]
    BY <1>6, ConcatProperties
  <2>3. /\ 1 \in 1 .. Len(y) + Len(q) /\ 1 <= Len(y)
        /\ n + 2 \in 1 .. Len(y) + Len(q) /\ ~ (n + 2 <= Len(y)) /\ (n + 2) - Len(y) = 1
    BY <1>3, <1>5
  <2>4. z[1] = y[1] /\ z[n + 2] = q[1]
    BY <2>2, <2>3
  <2> QED
    BY <1>3, <1>5, <2>1, <2>4
<1>8. Trim(z) = z
  <2> DEFINE black == {i \in 1 .. n + 2 : z[i] \notin Whitespace}
  <2>1. 1 \in black /\ n + 2 \in black /\ black \in SUBSET Nat
    BY <1>7
  <2>2. \A i \in black : 1 <= i /\ i <= n + 2
    OBVIOUS
  <2>3. DOMAIN z = 1 .. n + 2
    BY <1>7, LenProperties
  <2>4. Trim(z) = IF black = {} THEN <<>> ELSE SubSeq(z, Min(black), Max(black))
    BY <2>3 DEF Trim
  <2> HIDE DEF black
  <2>5. Min(black) = 1
    BY <2>1, <2>2, MinIs
  <2>6. Max(black) = n + 2
    <3>1. Max(black) \in black /\ \A i \in black : Max(black) >= i
      BY <2>1, <2>2, Zenon DEF Max
    <3>2. PICK m \in Nat : m = Max(black)
      BY <2>1, <3>1
    <3>3. m <= n + 2 /\ m >= n + 2
      BY <2>1, <2>2, <3>1, <3>2
    <3> QED
      BY <3>2, <3>3
  <2>7. SubSeq(z, 1, n + 2) = z
    BY <1>7, SubSeqFull
  <2> QED
    BY <2>1, <2>4, <2>5, <2>6, <2>7
<1> QED
  BY <1>1, <1>2, <1>3, <1>4, <1>6, <1>7, <1>8 DEF Framed

Braces   == <<123, 125>>
Brackets == <<91, 93>>

\* Whatever stands between braces or brackets is valid for IsValidJson, which looks at
\* the first and the last character that is no white space.
LEMMA FramedIsValid ==
  ASSUME NEW a, NEW b, <<a, b>> \in {Braces, Brackets}, NEW x \in Seq(Byte)
  PROVE  IsValidJson(<<a>> \o x \o <<b>>)
<1>1. a \in Byte \ Whitespace /\ b \in Byte \ Whitespace
  BY DEF Byte, Whitespace, Braces, Brackets
<1>2. PICK n \in Nat : n = Len(x)
  BY LenProperties
<1>3. PICK z : z = <<a>> \o x \o <<b>>
  OBVIOUS
<1>4. z \in Seq(Byte) /\ Len(z) = n + 2 /\ z[1] = a /\ z[n + 2] = b /\ Trim(z) = z
  <2>1. PICK c \in Byte \ Whitespace : c = a
    BY <1>1
  <2>2. PICK d \in Byte \ Whitespace : d = b
    BY <1>1
  <2>3. Framed(z, c, d, x)
    BY <1>3, <2>1, <2>2 DEF Framed
  <2>4. z \in Seq(Byte) /\ Len(z) = Len(x) + 2 /\ z[1] = c /\ z[Len(x) + 2] = d /\ Trim(z) = z
    BY <2>3, FramedText
  <2> QED
    BY <1>2, <2>1, <2>2, <2>4
<1>5. z # <<>>
  BY <1>4, EmptySeq
<1> QED
  BY <1>3, <1>4, <1>5, ZenonT(60) DEF IsValidJson, Braces, Brackets

Pairs == [key : Seq(Byte), value : Seq(Byte)]

\* What BuildObject and BuildArray write is valid for IsValidJson, whatever is in it.
THEOREM BuiltIsValid ==
  /\ \A pairs \in Seq(Pairs) : IsValidJson(BuildObject(pairs))
  /\ \A values \in Seq(Seq(Byte)) : IsValidJson(BuildArray(values))
<1>1. <<Comma>> \in Seq(Byte) /\ <<Colon>> \in Seq(Byte)
  BY One DEF Byte, Comma, Colon
<1>2. ASSUME NEW pairs \in Seq(Pairs) PROVE IsValidJson(BuildObject(pairs))
  <2>1. PICK n \in Nat : n = Len(pairs) /\ DOMAIN pairs = 1 .. n
    BY LenProperties
  <2> DEFINE field(p) == Quoted(p.key) \o <<Colon>> \o Quoted(p.value)
             ts == [i \in 1 .. n |-> field(pairs[i])]
  <2>2. ASSUME NEW i \in 1 .. n PROVE field(pairs[i]) \in Seq(Byte)
    <3>1. pairs[i] \in Pairs
      BY <2>1, ElementOfSeq
    <3>2. pairs[i].key \in Seq(Byte) /\ pairs[i].value \in Seq(Byte)
      BY <3>1 DEF Pairs
    <3>3. PICK k \in Seq(Byte) : k = Quoted(pairs[i].key)
      BY <3>2, QuotedType
    <3>4. PICK v \in Seq(Byte) : v = Quoted(pairs[i].value)
      BY <3>2, QuotedType
    <3>5. PICK c \in Seq(Byte) : c = <<Colon>>
      BY <1>1
    <3>6. k \o c \in Seq(Byte)
      BY ConcatProperties
    <3>7. (k \o c) \o v \in Seq(Byte)
      BY <3>6, ConcatProperties
    <3> QED
      BY <3>3, <3>4, <3>5, <3>7
  <2> HIDE DEF field
  <2>3. ts \in Seq(Seq(Byte))
    BY <2>2
  <2>4. Join(ts, <<Comma>>) \in Seq(Byte)
    <3> HIDE DEF ts
    <3> QED
      BY <1>1, <2>3, JoinType
  <2>5. BuildObject(pairs) = <<123>> \o Join(ts, <<Comma>>) \o <<125>>
    BY <2>1 DEF BuildObject, field
  <2> HIDE DEF ts
  <2> QED
    BY <2>4, <2>5, FramedIsValid DEF Braces, Brackets
<1>3. ASSUME NEW values \in Seq(Seq(Byte)) PROVE IsValidJson(BuildArray(values))
  <2>1. PICK n \in Nat : n = Len(values) /\ DOMAIN values = 1 .. n
    BY LenProperties
  <2> DEFINE ts == [i \in 1 .. n |-> Quoted(values[i])]
  <2>2. ASSUME NEW i \in 1 .. n PROVE Quoted(values[i]) \in Seq(Byte)
    <3>1. values[i] \in Seq(Byte)
      BY <2>1, ElementOfSeq
    <3> QED
      BY <3>1, QuotedType
  <2>3. ts \in Seq(Seq(Byte))
    BY <2>2
  <2>4. Join(ts, <<Comma>>) \in Seq(Byte)
    <3> HIDE DEF ts
    <3> QED
      BY <1>1, <2>3, JoinType
  <2>5. BuildArray(values) = <<91>> \o Join(ts, <<Comma>>) \o <<93>>
    BY <2>1 DEF BuildArray
  <2> HIDE DEF ts
  <2> QED
    BY <2>4, <2>5, FramedIsValid DEF Braces, Brackets
<1> QED
  BY <1>2, <1>3
-----------------------------------------------------------------------------
(* The object of FieldsAreFound.                                           *)

\* Where a plain text stands in quotes, it stands unchanged between two of them.
LEMMA QuotedStands ==
  ASSUME NEW o, NEW i \in Nat, NEW s \in Seq(Byte), Plain(s), Stands(o, i, Quoted(s))
  PROVE  /\ Len(Quoted(s)) = Len(s) + 2
         /\ o[i + 1] = Quote /\ Stands(o, i + 1, s) /\ o[i + Len(s) + 2] = Quote
<1>1. PICK n \in Nat : n = Len(s)
  BY LenProperties
<1>2. Quote \in Byte
  BY DEF Quote, Byte
<1>3. PICK q \in Seq(Byte) : q = <<Quote>> /\ Len(q) = 1
  BY <1>2, One
<1>4. PICK x \in Seq(Byte) : x = q \o s
  BY ConcatProperties
<1>5. Quoted(s) = x \o q
  BY <1>3, <1>4, EscapeType DEF Quoted
<1>6. Len(x) = n + 1 /\ Len(x \o q) = n + 2
  <2>1. Len(x) = Len(q) + Len(s)
    BY <1>4, ConcatProperties
  <2>2. Len(x \o q) = Len(x) + Len(q)
    BY ConcatProperties
  <2> QED
    BY <1>1, <1>3, <2>1, <2>2
<1>7. Stands(o, i, x) /\ Stands(o, i + Len(x), q)
  BY <1>5, StandsConcat
<1>8. Stands(o, i, q) /\ Stands(o, i + Len(q), s)
  BY <1>4, <1>7, StandsConcat
<1>9. o[i + 1] = Quote
  BY <1>3, <1>8, StandsOne
<1>10. o[i + n + 2] = Quote
  <2>1. PICK k \in Nat : k = i + n + 1
    BY <1>1
  <2>2. Stands(o, k, <<Quote>>)
    BY <1>3, <1>6, <1>7, <2>1
  <2>3. o[k + 1] = Quote
    BY <2>2, StandsOne
  <2> QED
    BY <2>1, <2>3
<1> QED
  BY <1>1, <1>3, <1>5, <1>6, <1>8, <1>9, <1>10

\* The pair of the key c and the value v, as BuildObject writes it.
Field(c, v) == Quoted(<<c>>) \o <<Colon>> \o Quoted(v)

FieldStands(o, i, c, v) ==
  /\ o[i + 1] = Quote /\ o[i + 2] = c /\ o[i + 3] = Quote /\ o[i + 4] = Colon
  /\ o[i + 5] = Quote /\ Stands(o, i + 5, v) /\ o[i + Len(v) + 6] = Quote

\* The characters of a field with a key of one character and a plain value.
LEMMA FieldReads ==
  ASSUME NEW c \in Byte, Plain(<<c>>), NEW v \in Seq(Byte), Plain(v)
  PROVE  /\ Field(c, v) \in Seq(Byte) /\ Len(Field(c, v)) = Len(v) + 6
         /\ \A o : \A i \in Nat : Stands(o, i, Field(c, v)) => FieldStands(o, i, c, v)
<1>1. PICK n \in Nat : n = Len(v)
  BY LenProperties
<1>2. PICK k \in Seq(Byte) : k = <<c>> /\ Len(k) = 1
  BY One
<1>3. PICK d \in Seq(Byte) : d = <<Colon>> /\ Len(d) = 1
  <2>1. Colon \in Byte
    BY DEF Colon, Byte
  <2> QED
    BY <2>1, One
<1>4. PICK a \in Seq(Byte) : a = Quoted(k)
  BY QuotedType
<1>5. PICK b \in Seq(Byte) : b = Quoted(v)
  BY QuotedType
<1>6. Len(a) = 3
  <2>1. Stands(a, 0, Quoted(k))
    BY <1>4 DEF Stands
  <2>2. Plain(k)
    BY <1>2
  <2>3. Len(Quoted(k)) = Len(k) + 2
    BY <2>1, <2>2, QuotedStands
  <2> QED
    BY <1>2, <1>4, <2>3
<1>7. Len(b) = n + 2
  <2>1. Stands(b, 0, b)
    BY DEF Stands
  <2> QED
    BY <1>1, <1>5, <2>1, QuotedStands
<1>8. PICK x \in Seq(Byte) : x = a \o d
  BY ConcatProperties
<1>9. PICK y \in Seq(Byte) : y = x \o b
  BY ConcatProperties
<1>10. y = Field(c, v)
  BY <1>2, <1>3, <1>4, <1>5, <1>8, <1>9 DEF Field
<1>11. Len(x) = 4 /\ Len(y) = n + 6
  <2>1. Len(x) = Len(a) + Len(d)
    BY <1>8, ConcatProperties
  <2>2. Len(y) = Len(x) + Len(b)
    BY <1>9, ConcatProperties
  <2> QED
    BY <1>3, <1>6, <1>7, <2>1, <2>2
<1>12. ASSUME NEW o, NEW i \in Nat, Stands(o, i, y) PROVE FieldStands(o, i, c, v)
  <2>1. Stands(o, i, x) /\ Stands(o, i + 4, b)
    BY <1>9, <1>11, <1>12, StandsConcat
  <2>2. Stands(o, i, a) /\ Stands(o, i + 3, d)
    BY <1>6, <1>8, <2>1, StandsConcat
  <2>3. o[i + 1] = Quote /\ Stands(o, i + 1, k) /\ o[i + Len(k) + 2] = Quote
    BY <1>2, <1>4, <2>2, QuotedStands
  <2>4. PICK e \in Nat : e = i + 1
    OBVIOUS
  <2>5. o[e + 1] = c
    BY <1>2, <2>3, <2>4, StandsOne
  <2>6. PICK f \in Nat : f = i + 3
    OBVIOUS
  <2>7. o[f + 1] = Colon
    BY <1>3, <2>2, <2>6, StandsOne
  <2>8. PICK g \in Nat : g = i + 4
    OBVIOUS
  <2>9. o[g + 1] = Quote /\ Stands(o, g + 1, v) /\ o[g + Len(v) + 2] = Quote
    BY <1>5, <2>1, <2>8, QuotedStands
  <2>10. /\ e + 1 = i + 2 /\ i + Len(k) + 2 = i + 3 /\ f + 1 = i + 4 /\ g + 1 = i + 5
         /\ g + Len(v) + 2 = i + Len(v) + 6
    BY <1>1, <1>2, <2>4, <2>6, <2>8
  <2> QED
    BY <2>3, <2>5, <2>7, <2>9, <2>10 DEF FieldStands
<1> QED
  BY <1>1, <1>10, <1>11, <1>12

TheObject(t) ==
  BuildObject(<<Pair(<<70>>, t), Pair(<<98>>, <<66>>), Pair(<<65>>, t)>>)

\* Where everything is in the object, for a value t of length n.
Layout(o, t, n) ==
  /\ o \in Seq(Byte) /\ Len(o) = 2 * n + 23
  /\ o[1] = 123 /\ FieldStands(o, 1, 70, t)
  /\ o[n + 8] = Comma /\ FieldStands(o, n + 8, 98, <<66>>)
  /\ o[n + 16] = Comma /\ FieldStands(o, n + 16, 65, t)
  /\ o[2 * n + 23] = 125

\* A character without an escape is a plain text.
LEMMA PlainOne ==
  ASSUME NEW c \in Byte, c \notin DOMAIN EscapeOf
  PROVE  Plain(<<c>>)
<1>1. PICK s \in Seq(Byte) : s = <<c>> /\ Len(s) = 1 /\ s[1] = c
  BY One
<1>2. DOMAIN s = {1}
  BY <1>1, LenProperties
<1> QED
  BY <1>1, <1>2 DEF Plain

\* A sequence of three elements is a triple.
LEMMA ThreeAre ==
  ASSUME NEW X, NEW s \in Seq(X), Len(s) = 3, NEW a \in X, NEW b \in X, NEW c \in X,
         s[1] = a, s[2] = b, s[3] = c
  PROVE  s = <<a, b, c>>
<1>1. PICK t \in Seq(X) : t = <<a, b, c>>
  <2>1. <<a, b, c>> \in Seq(X)
    OBVIOUS
  <2> QED
    BY <2>1
<1>2. Len(t) = 3 /\ t[1] = a /\ t[2] = b /\ t[3] = c
  BY <1>1
<1>3. ASSUME NEW i \in 1 .. 3 PROVE s[i] = t[i]
  <2>1. i = 1 \/ i = 2 \/ i = 3
    OBVIOUS
  <2> QED
    BY <1>2, <2>1
<1>4. s = t
  BY <1>2, <1>3, SeqEqual
<1> QED
  BY <1>1, <1>4

JoinsThree(a, b, c, d) == Join(<<a, b, c>>, d) = a \o (d \o (b \o (d \o c)))

\* Three texts joined by Join.
LEMMA JoinThree ==
  ASSUME NEW a \in Seq(Byte), NEW b \in Seq(Byte), NEW c \in Seq(Byte), NEW d \in Seq(Byte)
  PROVE  JoinsThree(a, b, c, d)
<1>1. PICK ts \in Seq(Seq(Byte)) : ts = <<c>>
  <2>1. <<c>> \in Seq(Seq(Byte))
    OBVIOUS
  <2> QED
    BY <2>1
<1>2. PICK us \in Seq(Seq(Byte)) : us = <<b>> \o ts
  BY PutFirst
<1>3. PICK vs \in Seq(Seq(Byte)) : vs = <<a>> \o us
  BY PutFirst
<1>4. Len(ts) = 1 /\ ts[1] = c
  BY <1>1
<1>5. Len(us) = 2 /\ us[1] = b /\ us[2] = c
  <2>1. Len(us) = Len(ts) + 1 /\ us[1] = b /\ \A i \in 1 .. Len(ts) : us[i + 1] = ts[i]
    BY <1>2, PutFirst
  <2> QED
    BY <1>4, <2>1
<1>6. Len(vs) = 3 /\ vs[1] = a /\ vs[2] = b /\ vs[3] = c
  <2>1. Len(vs) = Len(us) + 1 /\ vs[1] = a /\ \A i \in 1 .. Len(us) : vs[i + 1] = us[i]
    BY <1>3, PutFirst
  <2>2. 1 \in 1 .. Len(us) /\ 2 \in 1 .. Len(us) /\ 1 + 1 = 2 /\ 2 + 1 = 3
    BY <1>5
  <2>3. vs[2] = us[1] /\ vs[3] = us[2]
    BY <2>1, <2>2
  <2> QED
    BY <1>5, <2>1, <2>3
<1>7. vs = <<a, b, c>>
  BY <1>6, ThreeAre
<1>8. Join(ts, d) = c
  BY <1>1, JoinOne
<1>9. Len(ts) > 0 /\ Len(us) > 0
  BY <1>4, <1>5
<1>10. Join(us, d) = b \o (d \o Join(ts, d))
  BY <1>2, <1>9, JoinFirst
<1>11. Join(vs, d) = a \o (d \o Join(us, d))
  BY <1>3, <1>9, JoinFirst
<1> QED
  BY <1>7, <1>8, <1>10, <1>11 DEF JoinsThree

\* The places of the braces, the commas and the three fields in the object.
LEMMA ObjectLayout ==
  ASSUME NEW t \in Seq(Byte), Plain(t), NEW n \in Nat, n = Len(t)
  PROVE  Layout(TheObject(t), t, n)
<1>1. DOMAIN EscapeOf = {34, 92, 8, 12, 10, 13, 9}
  BY DEF EscapeOf, Quote, Backslash
<1>2. Plain(<<70>>) /\ Plain(<<98>>) /\ Plain(<<65>>) /\ Plain(<<66>>)
  <2>1. \A c \in {70, 98, 65, 66} : c \in Byte /\ c \notin DOMAIN EscapeOf
    BY <1>1 DEF Byte
  <2> QED
    BY <2>1, PlainOne
<1>3. 70 \in Byte /\ 98 \in Byte /\ 65 \in Byte /\ 66 \in Byte /\ Comma \in Byte
      /\ 123 \in Byte /\ 125 \in Byte
  BY DEF Byte, Comma
<1>4. PICK b \in Seq(Byte) : b = <<66>> /\ Len(b) = 1
  BY <1>3, One
<1>5. PICK com \in Seq(Byte) : com = <<Comma>> /\ Len(com) = 1
  BY <1>3, One
<1>6. PICK f1 \in Seq(Byte) : f1 = Field(70, t) /\ Len(f1) = n + 6
  BY <1>2, <1>3, FieldReads
<1>7. PICK f2 \in Seq(Byte) : f2 = Field(98, b) /\ Len(f2) = 7
  <2>1. Field(98, b) \in Seq(Byte) /\ Len(Field(98, b)) = Len(b) + 6
    BY <1>2, <1>3, <1>4, FieldReads
  <2> QED
    BY <1>4, <2>1
<1>8. PICK f3 \in Seq(Byte) : f3 = Field(65, t) /\ Len(f3) = n + 6
  BY <1>2, <1>3, FieldReads
<1>9. PICK z : z = TheObject(t)
  OBVIOUS
<1> DEFINE ps == <<Pair(<<70>>, t), Pair(<<98>>, <<66>>), Pair(<<65>>, t)>>
<1>10. z = <<123>> \o Join(<<f1, f2, f3>>, com) \o <<125>>
  <2> DEFINE fs == [i \in DOMAIN ps |-> Quoted(ps[i].key) \o <<Colon>> \o Quoted(ps[i].value)]
  <2>0. /\ DOMAIN ps = 1 .. 3 /\ ps[1] = Pair(<<70>>, t) /\ ps[2] = Pair(<<98>>, <<66>>)
        /\ ps[3] = Pair(<<65>>, t)
    OBVIOUS
  <2> HIDE DEF ps
  <2>2. fs[1] = f1 /\ fs[2] = f2 /\ fs[3] = f3
    <3>1. /\ ps[1].key = <<70>> /\ ps[1].value = t
          /\ ps[2].key = <<98>> /\ ps[2].value = b
          /\ ps[3].key = <<65>> /\ ps[3].value = t
      BY <1>4, <2>0 DEF Pair
    <3>2. 1 \in DOMAIN ps /\ 2 \in DOMAIN ps /\ 3 \in DOMAIN ps
      BY <2>0
    <3>3. \A i \in DOMAIN ps : fs[i] = Quoted(ps[i].key) \o <<Colon>> \o Quoted(ps[i].value)
      OBVIOUS
    <3> HIDE DEF fs
    <3>4. fs[1] = Quoted(<<70>>) \o <<Colon>> \o Quoted(t)
      BY <3>1, <3>2, <3>3, ZenonT(60)
    <3>5. fs[2] = Quoted(<<98>>) \o <<Colon>> \o Quoted(b)
      BY <3>1, <3>2, <3>3
    <3>6. fs[3] = Quoted(<<65>>) \o <<Colon>> \o Quoted(t)
      BY <3>1, <3>2, <3>3
    <3> QED
      BY <1>6, <1>7, <1>8, <3>4, <3>5, <3>6, Zenon DEF Field
  <2>3. ASSUME NEW i \in 1 .. 3 PROVE fs[i] \in Seq(Byte)
    <3>1. i = 1 \/ i = 2 \/ i = 3
      OBVIOUS
    <3> HIDE DEF fs
    <3> QED
      BY <2>2, <3>1
  <2>4. fs = [i \in 1 .. 3 |-> fs[i]]
    BY <2>0
  <2> HIDE DEF fs
  <2>5. fs \in Seq(Seq(Byte)) /\ Len(fs) = 3
    BY <2>3, <2>4
  <2>1. fs = <<f1, f2, f3>>
    BY <2>2, <2>5, ThreeAre
  <2> USE DEF fs, ps
  <2> QED
    BY <1>5, <1>9, <2>1 DEF TheObject, BuildObject
<1>11. PICK g1 \in Seq(Byte) : g1 = com \o f3 /\ Len(g1) = n + 7
  <2>1. PICK x \in Seq(Byte) : x = com \o f3
    BY ConcatProperties
  <2>2. Len(x) = Len(com) + Len(f3)
    BY <2>1, ConcatProperties
  <2>3. Len(x) = n + 7
    BY <1>5, <1>8, <2>2
  <2> QED
    BY <2>1, <2>3
<1>12. PICK g2 \in Seq(Byte) : g2 = f2 \o g1 /\ Len(g2) = n + 14
  <2>1. PICK x \in Seq(Byte) : x = f2 \o g1
    BY ConcatProperties
  <2>2. Len(x) = Len(f2) + Len(g1)
    BY <2>1, ConcatProperties
  <2>3. Len(x) = n + 14
    BY <1>7, <1>11, <2>2
  <2> QED
    BY <2>1, <2>3
<1>13. PICK g3 \in Seq(Byte) : g3 = com \o g2 /\ Len(g3) = n + 15
  <2>1. PICK x \in Seq(Byte) : x = com \o g2
    BY ConcatProperties
  <2>2. Len(x) = Len(com) + Len(g2)
    BY <2>1, ConcatProperties
  <2>3. Len(x) = n + 15
    BY <1>5, <1>12, <2>2
  <2> QED
    BY <2>1, <2>3
<1>14. PICK g4 \in Seq(Byte) : g4 = f1 \o g3 /\ Len(g4) = 2 * n + 21
  <2>1. PICK x \in Seq(Byte) : x = f1 \o g3
    BY ConcatProperties
  <2>2. Len(x) = Len(f1) + Len(g3)
    BY <2>1, ConcatProperties
  <2>3. Len(x) = 2 * n + 21
    BY <1>6, <1>13, <2>2
  <2> QED
    BY <2>1, <2>3
<1>15. Join(<<f1, f2, f3>>, com) = g4
  <2>1. JoinsThree(f1, f2, f3, com)
    BY JoinThree
  <2> QED
    BY <1>11, <1>12, <1>13, <1>14, <2>1 DEF JoinsThree
<1>16. /\ z \in Seq(Byte) /\ Len(z) = 2 * n + 23 /\ z[1] = 123 /\ z[2 * n + 23] = 125
  <2>1. Framed(z, 123, 125, g4)
    BY <1>10, <1>15 DEF Framed
  <2>2. 123 \in Byte \ Whitespace /\ 125 \in Byte \ Whitespace
    BY DEF Byte, Whitespace
  <2>3. z \in Seq(Byte) /\ Len(z) = Len(g4) + 2 /\ z[1] = 123 /\ z[Len(g4) + 2] = 125
    BY <2>1, <2>2, FramedText
  <2>4. Len(g4) + 2 = 2 * n + 23
    BY <1>14
  <2> QED
    BY <2>3, <2>4
<1>17. Stands(z, 1, g4)
  <2>1. PICK h \in Seq(Byte) : h = <<123>> /\ Len(h) = 1
    BY <1>3, One
  <2>2. PICK e \in Seq(Byte) : e = <<125>>
    BY <1>3, One
  <2>3. PICK x \in Seq(Byte) : x = h \o g4
    BY ConcatProperties
  <2>4. Stands(z, 0, x \o e)
    BY <1>10, <1>15, <2>1, <2>2, <2>3 DEF Stands
  <2>5. Stands(z, 0, x)
    BY <2>4, StandsConcat
  <2>6. Stands(z, 0 + Len(h), g4)
    BY <2>3, <2>5, StandsConcat
  <2> QED
    BY <2>1, <2>6
<1>18. Stands(z, 1, f1) /\ Stands(z, n + 7, g3)
  <2>1. Stands(z, 1, f1) /\ Stands(z, 1 + Len(f1), g3)
    BY <1>14, <1>17, StandsConcat
  <2>2. 1 + Len(f1) = n + 7
    BY <1>6
  <2> QED
    BY <2>1, <2>2
<1>19. z[n + 8] = Comma /\ Stands(z, n + 8, g2)
  <2>1. PICK i \in Nat : i = n + 7
    OBVIOUS
  <2>2. Stands(z, i, com) /\ Stands(z, i + Len(com), g2)
    BY <1>13, <1>18, <2>1, StandsConcat
  <2>3. z[i + 1] = Comma
    BY <1>5, <2>2, StandsOne
  <2>4. i + 1 = n + 8 /\ i + Len(com) = n + 8
    BY <1>5, <2>1
  <2> QED
    BY <2>2, <2>3, <2>4
<1>20. Stands(z, n + 8, f2) /\ Stands(z, n + 15, g1)
  <2>1. PICK i \in Nat : i = n + 8
    OBVIOUS
  <2>2. Stands(z, i, f2) /\ Stands(z, i + Len(f2), g1)
    BY <1>12, <1>19, <2>1, StandsConcat
  <2>3. i + Len(f2) = n + 15
    <3>1. Len(f2) = 7
      BY <1>7
    <3> QED
      BY <2>1, <3>1
  <2> QED
    BY <2>1, <2>2, <2>3
<1>21. z[n + 16] = Comma /\ Stands(z, n + 16, f3)
  <2>1. PICK i \in Nat : i = n + 15
    OBVIOUS
  <2>2. Stands(z, i, com) /\ Stands(z, i + Len(com), f3)
    BY <1>11, <1>20, <2>1, StandsConcat
  <2>3. z[i + 1] = Comma
    BY <1>5, <2>2, StandsOne
  <2>4. i + 1 = n + 16 /\ i + Len(com) = n + 16
    BY <1>5, <2>1
  <2> QED
    BY <2>2, <2>3, <2>4
<1>22. FieldStands(z, 1, 70, t)
  BY <1>2, <1>3, <1>6, <1>18, FieldReads
<1>23. FieldStands(z, n + 8, 98, <<66>>)
  <2>1. n + 8 \in Nat /\ Plain(b)
    BY <1>2, <1>4
  <2>2. FieldStands(z, n + 8, 98, b)
    BY <1>2, <1>3, <1>7, <1>20, <2>1, FieldReads
  <2> QED
    BY <1>4, <2>2
<1>24. FieldStands(z, n + 16, 65, t)
  <2>1. n + 16 \in Nat
    OBVIOUS
  <2> QED
    BY <1>2, <1>3, <1>8, <1>21, <2>1, FieldReads
<1> QED
  BY <1>9, <1>16, <1>19, <1>21, <1>22, <1>23, <1>24 DEF Layout

\* The characters of the object one by one, for a value without quotes.
ObjectCharacters(o, t, n) ==
  /\ o[1] = 123
  /\ o[2] = 34 /\ o[3] = 70 /\ o[4] = 34 /\ o[5] = 58 /\ o[6] = 34
  /\ \A j \in 1 .. n : o[6 + j] = t[j]
  /\ o[n + 7] = 34 /\ o[n + 8] = 44
  /\ o[n + 9] = 34 /\ o[n + 10] = 98 /\ o[n + 11] = 34 /\ o[n + 12] = 58 /\ o[n + 13] = 34
  /\ o[n + 14] = 66 /\ o[n + 15] = 34 /\ o[n + 16] = 44
  /\ o[n + 17] = 34 /\ o[n + 18] = 65 /\ o[n + 19] = 34 /\ o[n + 20] = 58 /\ o[n + 21] = 34
  /\ \A j \in 1 .. n : o[n + 21 + j] = t[j]
  /\ o[2 * n + 22] = 34 /\ o[2 * n + 23] = 125

FieldCharacters(o, i, c, v, m) ==
  /\ o[i + 1] = 34 /\ o[i + 2] = c /\ o[i + 3] = 34 /\ o[i + 4] = 58
  /\ o[i + 5] = 34 /\ o[i + m + 6] = 34
  /\ \A j \in 1 .. m : o[i + 5 + j] = v[j]

\* The characters of a field, as codes.
LEMMA FieldIsCharacters ==
  ASSUME NEW o, NEW i, NEW c, NEW v, NEW m, m = Len(v), FieldStands(o, i, c, v)
  PROVE  FieldCharacters(o, i, c, v, m)
BY DEF FieldStands, FieldCharacters, Stands, Quote, Colon

\* The characters of the object, as codes.
LEMMA CharactersStand ==
  ASSUME NEW o, NEW t \in Seq(Byte), NEW n \in Nat, n = Len(t), Layout(o, t, n)
  PROVE  ObjectCharacters(o, t, n)
<1>1. /\ o[1] = 123 /\ o[n + 8] = 44 /\ o[n + 16] = 44 /\ o[2 * n + 23] = 125
  BY DEF Layout, Comma
<1>2. PICK b \in Seq(Byte) : b = <<66>> /\ Len(b) = 1 /\ b[1] = 66
  <2>1. 66 \in Byte
    BY DEF Byte
  <2> QED
    BY <2>1, One
<1>4. /\ FieldStands(o, 1, 70, t) /\ FieldStands(o, n + 8, 98, b) /\ FieldStands(o, n + 16, 65, t)
  BY <1>2 DEF Layout
<1>5. FieldCharacters(o, 1, 70, t, n)
  BY <1>4, FieldIsCharacters
<1>6. FieldCharacters(o, n + 8, 98, b, 1)
  BY <1>2, <1>4, FieldIsCharacters
<1>7. FieldCharacters(o, n + 16, 65, t, n)
  BY <1>4, FieldIsCharacters
<1>8. o[n + 14] = 66
  <2>1. n + 8 + 5 + 1 = n + 14 /\ 1 \in 1 .. 1
    OBVIOUS
  <2> QED
    BY <1>2, <1>6, <2>1 DEF FieldCharacters
<1>9. /\ 1 + n + 6 = n + 7 /\ n + 8 + 1 = n + 9 /\ n + 8 + 2 = n + 10 /\ n + 8 + 3 = n + 11
      /\ n + 8 + 4 = n + 12 /\ n + 8 + 5 = n + 13 /\ n + 8 + 1 + 6 = n + 15
      /\ n + 16 + 1 = n + 17 /\ n + 16 + 2 = n + 18 /\ n + 16 + 3 = n + 19
      /\ n + 16 + 4 = n + 20 /\ n + 16 + 5 = n + 21 /\ n + 16 + n + 6 = 2 * n + 22
  OBVIOUS
<1> QED
  BY <1>1, <1>5, <1>6, <1>7, <1>8, <1>9 DEF FieldCharacters, ObjectCharacters

QuotePlaces(n) ==
  {2, 4, 6, n + 7, n + 9, n + 11, n + 13, n + 15, n + 17, n + 19, n + 21, 2 * n + 22}

\* The quotes of the object are those that Quoted wrote, if the values hold none.
LEMMA QuotesStand ==
  ASSUME NEW o, NEW t, NEW n \in Nat, ObjectCharacters(o, t, n), \A j \in 1 .. n : t[j] # 34,
         NEW i \in 1 .. 2 * n + 23
  PROVE  o[i] = 34 <=> i \in QuotePlaces(n)
<1>1. CASE i <= 6
  <2>1. i = 1 \/ i = 2 \/ i = 3 \/ i = 4 \/ i = 5 \/ i = 6
    BY <1>1
  <2> QED
    BY <1>1, <2>1 DEF ObjectCharacters, QuotePlaces
<1>2. CASE i \in 7 .. n + 6
  <2>1. PICK j \in 1 .. n : i = 6 + j
    <3>1. i - 6 \in 1 .. n /\ i = 6 + (i - 6)
      BY <1>2
    <3> QED
      BY <3>1
  <2>2. o[i] # 34
    <3>1. o[6 + j] = t[j] /\ t[j] # 34
      BY DEF ObjectCharacters
    <3> QED
      BY <2>1, <3>1
  <2> QED
    BY <1>2, <2>2 DEF QuotePlaces
<1>3. CASE i \in n + 7 .. n + 21
  <2>1. \/ i = n + 7 \/ i = n + 8 \/ i = n + 9 \/ i = n + 10 \/ i = n + 11 \/ i = n + 12
        \/ i = n + 13 \/ i = n + 14 \/ i = n + 15 \/ i = n + 16 \/ i = n + 17 \/ i = n + 18
        \/ i = n + 19 \/ i = n + 20 \/ i = n + 21
    BY <1>3
  <2>2. i \in QuotePlaces(n) <=> ~ (\/ i = n + 8 \/ i = n + 10 \/ i = n + 12 \/ i = n + 14
                                    \/ i = n + 16 \/ i = n + 18 \/ i = n + 20)
    BY <2>1 DEF QuotePlaces
  <2>3. o[i] = 34 <=> ~ (\/ i = n + 8 \/ i = n + 10 \/ i = n + 12 \/ i = n + 14
                         \/ i = n + 16 \/ i = n + 18 \/ i = n + 20)
    BY <2>1 DEF ObjectCharacters
  <2> QED
    BY <2>2, <2>3
<1>4. CASE i \in n + 22 .. 2 * n + 21
  <2>1. PICK j \in 1 .. n : i = n + 21 + j
    <3>1. i - (n + 21) \in 1 .. n /\ i = n + 21 + (i - (n + 21))
      BY <1>4
    <3> QED
      BY <3>1
  <2>2. o[i] # 34
    <3>1. o[n + 21 + j] = t[j] /\ t[j] # 34
      BY DEF ObjectCharacters
    <3> QED
      BY <2>1, <3>1
  <2> QED
    BY <1>4, <2>2 DEF QuotePlaces
<1>5. CASE i >= 2 * n + 22
  <2>1. i = 2 * n + 22 \/ i = 2 * n + 23
    BY <1>5
  <2> QED
    BY <1>5, <2>1 DEF ObjectCharacters, QuotePlaces
<1> QED
  BY <1>1, <1>2, <1>3, <1>4, <1>5

\* Between two quotes that are one character apart is a key, a separator, the other
\* value, or the value if it is one character long.
LEMMA BetweenQuotes ==
  ASSUME NEW o, NEW t, NEW n \in Nat, ObjectCharacters(o, t, n), \A j \in 1 .. n : t[j] # 34,
         NEW i \in 1 .. 2 * n + 21, o[i] = 34, o[i + 2] = 34,
         NEW c \in {65, 98, 37}, o[i + 1] = c, ~ (n = 1 /\ t[1] = c)
  PROVE  (c = 98 /\ i = n + 9) \/ (c = 65 /\ i = n + 17)
<1>1. i \in QuotePlaces(n) /\ i + 2 \in QuotePlaces(n)
  <2>1. i \in 1 .. 2 * n + 23 /\ i + 2 \in 1 .. 2 * n + 23
    OBVIOUS
  <2> QED
    BY <2>1, QuotesStand
<1>2. \/ i = 2 \/ i = 4 \/ (n = 1 /\ i = 6) \/ i = n + 7 \/ i = n + 9 \/ i = n + 11
      \/ i = n + 13 \/ i = n + 15 \/ i = n + 17 \/ i = n + 19 \/ (n = 1 /\ i = n + 21)
  BY <1>1 DEF QuotePlaces
<1>3. CASE n = 1 /\ i = 6
  BY <1>3 DEF ObjectCharacters
<1>4. CASE n = 1 /\ i = n + 21
  <2>1. o[n + 21 + 1] = t[1] /\ i + 1 = n + 21 + 1
    BY <1>4 DEF ObjectCharacters
  <2> QED
    BY <1>4, <2>1
<1>5. CASE i = 2 \/ i = 4
  BY <1>5 DEF ObjectCharacters
<1>6. CASE \/ i = n + 7 \/ i = n + 9 \/ i = n + 11 \/ i = n + 13
           \/ i = n + 15 \/ i = n + 17 \/ i = n + 19
  <2>1. \/ (i = n + 7 /\ o[i + 1] = 44) \/ (i = n + 9 /\ o[i + 1] = 98)
        \/ (i = n + 11 /\ o[i + 1] = 58) \/ (i = n + 13 /\ o[i + 1] = 66)
        \/ (i = n + 15 /\ o[i + 1] = 44) \/ (i = n + 17 /\ o[i + 1] = 65)
        \/ (i = n + 19 /\ o[i + 1] = 58)
    BY <1>6 DEF ObjectCharacters
  <2> QED
    BY <2>1
<1> QED
  BY <1>2, <1>3, <1>4, <1>5, <1>6

\* The pattern that ValueStart looks for is the key between two quotes.
LEMMA KeyPattern ==
  ASSUME NEW c \in Byte, Plain(<<c>>), NEW p, p = <<Quote>> \o <<c>> \o <<Quote>>
  PROVE  p \in Seq(Byte) /\ Len(p) = 3 /\ p[1] = 34 /\ p[2] = c /\ p[3] = 34
<1>1. PICK k \in Seq(Byte) : k = <<c>> /\ Len(k) = 1
  BY One
<1>2. p = Quoted(k)
  BY <1>1, EscapeType DEF Quoted
<1>3. p \in Seq(Byte)
  BY <1>2, QuotedType
<1>4. Stands(p, 0, Quoted(k)) /\ Plain(k)
  BY <1>1, <1>2 DEF Stands
<1>5. /\ Len(Quoted(k)) = Len(k) + 2 /\ p[0 + 1] = Quote /\ Stands(p, 0 + 1, k)
      /\ p[0 + Len(k) + 2] = Quote
  BY <1>4, QuotedStands
<1>6. p[1 + 1] = c
  <2>1. Stands(p, 1, <<c>>)
    BY <1>1, <1>5
  <2> QED
    BY <2>1, StandsOne
<1> QED
  BY <1>1, <1>2, <1>3, <1>5, <1>6 DEF Quote

\* Where a key of the object is found.
KeyAt(c, n) == IF c = 98 THEN n + 9 ELSE IF c = 65 THEN n + 17 ELSE 0

\* The first place at which a key stands between quotes: its own field, and none for an
\* unknown key, unless the first value is the key.
LEMMA KeyIsFound ==
  ASSUME NEW o, NEW t \in Seq(Byte), NEW n \in Nat, n = Len(t), Layout(o, t, n),
         ObjectCharacters(o, t, n), \A j \in 1 .. n : t[j] # 34,
         NEW c \in {65, 98, 37}, t # <<c>>
  PROVE  Find(o, <<Quote>> \o <<c>> \o <<Quote>>, 1) = KeyAt(c, n)
<1>1. o \in Seq(Byte) /\ Len(o) = 2 * n + 23
  BY DEF Layout
<1>2. PICK p : p = <<Quote>> \o <<c>> \o <<Quote>>
  OBVIOUS
<1>3. p \in Seq(Byte) /\ Len(p) = 3 /\ p[1] = 34 /\ p[2] = c /\ p[3] = 34
  <2>1. c \in Byte /\ c \notin DOMAIN EscapeOf
    BY DEF EscapeOf, Quote, Backslash, Byte
  <2> QED
    BY <1>2, <2>1, KeyPattern, PlainOne, ZenonT(60)
<1>4. ~ (n = 1 /\ t[1] = c)
  <2>1. SUFFICES ASSUME n = 1, t[1] = c PROVE FALSE
    OBVIOUS
  <2>2. c \in Byte
    BY DEF Byte
  <2>3. PICK u \in Seq(Byte) : u = <<c>> /\ Len(u) = 1 /\ u[1] = c
    BY <2>2, One
  <2>4. \A i \in 1 .. Len(t) : t[i] = u[i]
    BY <2>1, <2>3
  <2>5. Len(t) = Len(u)
    BY <2>1, <2>3
  <2>6. t = u
    BY <2>4, <2>5, SeqEqual
  <2> QED
    BY <2>3, <2>6
<1>5. ASSUME NEW i \in Nat
      PROVE  Occurs(o, p, i) <=> i \in 1 .. 2 * n + 21 /\ o[i] = 34 /\ o[i + 1] = c /\ o[i + 2] = 34
  <2>1. Occurs(o, p, i) <=> i \in 1 .. 2 * n + 21 /\ \A j \in 1 .. 3 : o[i + j - 1] = p[j]
    BY <1>1, <1>3 DEF Occurs
  <2>2. (\A j \in 1 .. 3 : o[i + j - 1] = p[j])
          <=> o[i + 1 - 1] = p[1] /\ o[i + 2 - 1] = p[2] /\ o[i + 3 - 1] = p[3]
    <3>1. \A j \in 1 .. 3 : j = 1 \/ j = 2 \/ j = 3
      OBVIOUS
    <3>2. 1 \in 1 .. 3 /\ 2 \in 1 .. 3 /\ 3 \in 1 .. 3
      OBVIOUS
    <3> QED
      BY <3>1, <3>2
  <2>3. i + 1 - 1 = i /\ i + 2 - 1 = i + 1 /\ i + 3 - 1 = i + 2
    OBVIOUS
  <2> QED
    BY <1>3, <2>1, <2>2, <2>3
<1>6. ASSUME NEW i \in Nat, Occurs(o, p, i)
      PROVE  (c = 98 /\ i = n + 9) \/ (c = 65 /\ i = n + 17)
  BY <1>4, <1>5, <1>6, BetweenQuotes
<1>7. IsFirst(o, p, 1, KeyAt(c, n))
  <2>1. CASE c = 98
    <3>1. o[n + 9] = 34 /\ o[n + 10] = 98 /\ o[n + 11] = 34
      BY DEF ObjectCharacters
    <3>2. /\ n + 9 \in Nat /\ n + 9 \in 1 .. 2 * n + 21
          /\ n + 9 + 1 = n + 10 /\ n + 9 + 2 = n + 11
      OBVIOUS
    <3>3. Occurs(o, p, n + 9)
      BY <1>5, <2>1, <3>1, <3>2
    <3>4. KeyAt(c, n) = n + 9
      BY <2>1 DEF KeyAt
    <3>5. \A j \in Nat : Occurs(o, p, j) => n + 9 <= j
      BY <1>6, <2>1
    <3> QED
      BY <3>2, <3>3, <3>4, <3>5 DEF IsFirst
  <2>2. CASE c = 65
    <3>1. o[n + 17] = 34 /\ o[n + 18] = 65 /\ o[n + 19] = 34
      BY DEF ObjectCharacters
    <3>2. /\ n + 17 \in Nat /\ n + 17 \in 1 .. 2 * n + 21
          /\ n + 17 + 1 = n + 18 /\ n + 17 + 2 = n + 19
      <4>1. 17 <= 2 * n + 21 - n
        OBVIOUS
      <4> QED
        BY <4>1
    <3>3. Occurs(o, p, n + 17)
      BY <1>5, <2>2, <3>1, <3>2
    <3>4. KeyAt(c, n) = n + 17
      BY <2>2 DEF KeyAt
    <3>5. \A j \in Nat : Occurs(o, p, j) => n + 17 <= j
      BY <1>6, <2>2
    <3> QED
      BY <3>2, <3>3, <3>4, <3>5 DEF IsFirst
  <2>3. CASE c = 37
    <3>1. KeyAt(c, n) = 0
      BY <2>3 DEF KeyAt
    <3>2. \A j \in Nat : ~ Occurs(o, p, j)
      BY <1>6, <2>3
    <3> QED
      BY <3>1, <3>2 DEF IsFirst
  <2> QED
    BY <2>1, <2>2, <2>3
<1>8. IsFirst(o, p, 1, Find(o, p, 1))
  BY <1>1, <1>3, FindsFirst
<1>9. Find(o, p, 1) = KeyAt(c, n)
  BY <1>7, <1>8, FirstIsUnique
<1> QED
  BY <1>2, <1>9

\* The part of a text at the place where another stands is that other text.
LEMMA PartIs ==
  ASSUME NEW o \in Seq(Byte), NEW t \in Seq(Byte), NEW i \in Nat, i + Len(t) <= Len(o),
         Stands(o, i, t)
  PROVE  SubSeq(o, i + 1, i + Len(t)) = t
<1>1. PICK n \in Nat : n = Len(t)
  BY LenProperties
<1>2. PICK m \in Nat : m = Len(o)
  BY LenProperties
<1>3. /\ i + 1 \in 1 .. Len(o) + 1 /\ i + n \in (i + 1) - 1 .. Len(o) /\ i + n \in 0 .. Len(o)
  BY <1>1, <1>2
<1>4. PICK x \in Seq(Byte) : x = SubSeq(o, i + 1, i + n)
  BY <1>3, PartOfText
<1>5. Len(x) = (i + n) - (i + 1) + 1
  BY <1>3, <1>4, PartLength
<1>6. \A k \in 1 .. (i + n) - (i + 1) + 1 : x[k] = o[i + 1 + k - 1]
  BY <1>3, <1>4, PartOfText
<1>7. (i + n) - (i + 1) + 1 = n /\ \A k \in 1 .. n : i + 1 + k - 1 = i + k
  OBVIOUS
<1>8. \A k \in 1 .. n : x[k] = t[k]
  BY <1>1, <1>6, <1>7 DEF Stands
<1>9. x = t
  BY <1>1, <1>5, <1>7, <1>8, SeqEqual
<1> QED
  BY <1>1, <1>4, <1>9

\* A plain value is read again under its key, and an unknown key is not found, unless
\* the first value is the key.
THEOREM PlainFieldsAreRead ==
  \A t \in Seq(Byte) : Plain(t) =>
    /\ t # <<65>> => GetString(TheObject(t), <<65>>) = t
    /\ t # <<98>> => GetString(TheObject(t), <<98>>) = <<66>>
    /\ t # <<37>> => GetString(TheObject(t), <<37>>) = <<>>
<1> SUFFICES ASSUME NEW t \in Seq(Byte), Plain(t)
             PROVE  /\ t # <<65>> => GetString(TheObject(t), <<65>>) = t
                    /\ t # <<98>> => GetString(TheObject(t), <<98>>) = <<66>>
                    /\ t # <<37>> => GetString(TheObject(t), <<37>>) = <<>>
  OBVIOUS
<1>1. PICK n \in Nat : n = Len(t) /\ DOMAIN t = 1 .. n
  BY LenProperties
<1>2. PICK o : o = TheObject(t)
  OBVIOUS
<1>3. Layout(o, t, n)
  BY <1>1, <1>2, ObjectLayout
<1>4. ObjectCharacters(o, t, n)
  BY <1>1, <1>3, CharactersStand
<1>5. \A j \in 1 .. n : t[j] # 34
  BY <1>1 DEF Plain, EscapeOf, Quote
<1>6. o \in Seq(Byte) /\ Len(o) = 2 * n + 23
  BY <1>3 DEF Layout
<1>7. PICK l \in Nat : l = 2 * n + 23
  OBVIOUS
<1>8. <<65>> \in Seq(Byte) /\ <<98>> \in Seq(Byte) /\ <<66>> \in Seq(Byte) /\ Len(<<66>>) = 1
  <2>1. 65 \in Byte /\ 98 \in Byte /\ 66 \in Byte
    BY DEF Byte
  <2> QED
    BY <2>1, One
<1>9. ASSUME t # << 65 >> PROVE GetString(o, <<65>>) = t
  <2>1. Find(o, <<Quote>> \o <<65>> \o <<Quote>>, 1) = n + 17
    <3>1. 65 \in {65, 98, 37} /\ KeyAt(65, n) = n + 17
      BY DEF KeyAt
    <3>2. Find(o, <<Quote>> \o <<65>> \o <<Quote>>, 1) = KeyAt(65, n)
      BY <1>1, <1>3, <1>4, <1>5, <1>9, <3>1, KeyIsFound
    <3> QED
      BY <3>1, <3>2
  <2>2. /\ o[n + 17] # Colon /\ o[n + 18] # Colon /\ o[n + 19] # Colon /\ o[n + 20] = Colon
        /\ o[n + 21] = Quote /\ o[2 * n + 22] = Quote
    BY <1>4 DEF ObjectCharacters, Colon, Quote
  <2>3. /\ n + 17 \in 1 .. l /\ n + 20 \in n + 17 .. l /\ 2 * n + 22 \in n + 20 + 2 .. l
        /\ n + 20 + 1 = n + 21 /\ l = Len(o)
    BY <1>6, <1>7
  <2>4. \A j \in n + 17 .. n + 20 - 1 : o[j] # Colon
    <3>1. \A j \in n + 17 .. n + 20 - 1 : j = n + 17 \/ j = n + 18 \/ j = n + 19
      OBVIOUS
    <3> QED
      BY <2>2, <3>1
  <2>5. ASSUME NEW j \in n + 20 + 2 .. 2 * n + 22 - 1 PROVE o[j] # Quote
    <3>1. PICK k \in 1 .. n : j = n + 21 + k
      <4>1. j - (n + 21) \in 1 .. n /\ j = n + 21 + (j - (n + 21))
        OBVIOUS
      <4> QED
        BY <4>1
    <3>2. o[n + 21 + k] = t[k] /\ t[k] # 34
      BY <1>4, <1>5 DEF ObjectCharacters
    <3> QED
      BY <3>1, <3>2 DEF Quote
  <2>6. GetString(o, <<65>>) = SubSeq(o, n + 20 + 2, 2 * n + 22 - 1)
    <3>1. StringAt(o, <<65>>, n + 17, n + 20, 2 * n + 22)
      BY <2>1, <2>2, <2>3, <2>4, <2>5 DEF StringAt
    <3>2. PICK at, c, q : at = n + 17 /\ c = n + 20 /\ q = 2 * n + 22
      OBVIOUS
    <3>3. PICK key \in Seq(Byte) : key = <<65>>
      BY <1>8
    <3>4. StringAt(o, key, at, c, q)
      BY <3>1, <3>2, <3>3
    <3>5. GetString(o, key) = SubSeq(o, c + 2, q - 1)
      BY <1>6, <3>4, StringIsRead
    <3> QED
      BY <3>2, <3>3, <3>5
  <2>7. Stands(o, n + 21, t)
    BY <1>1, <1>4 DEF ObjectCharacters, Stands
  <2>8. SubSeq(o, (n + 21) + 1, (n + 21) + Len(t)) = t
    <3>1. n + 21 \in Nat /\ n + 21 + Len(t) <= Len(o)
      BY <1>1, <1>6
    <3> QED
      BY <1>6, <2>7, <3>1, PartIs
  <2>9. (n + 21) + 1 = n + 20 + 2 /\ (n + 21) + Len(t) = 2 * n + 22 - 1
    BY <1>1
  <2> QED
    BY <2>6, <2>8, <2>9
<1>10. ASSUME t # << 98 >> PROVE GetString(o, <<98>>) = <<66>>
  <2>1. Find(o, <<Quote>> \o <<98>> \o <<Quote>>, 1) = n + 9
    <3>1. 98 \in {65, 98, 37} /\ KeyAt(98, n) = n + 9
      BY DEF KeyAt
    <3>2. Find(o, <<Quote>> \o <<98>> \o <<Quote>>, 1) = KeyAt(98, n)
      BY <1>1, <1>3, <1>4, <1>5, <1>10, <3>1, KeyIsFound
    <3> QED
      BY <3>1, <3>2
  <2>2. /\ o[n + 9] # Colon /\ o[n + 10] # Colon /\ o[n + 11] # Colon /\ o[n + 12] = Colon
        /\ o[n + 13] = Quote /\ o[n + 14] = 66 /\ o[n + 15] = Quote
    BY <1>4 DEF ObjectCharacters, Colon, Quote
  <2>3. /\ n + 9 \in 1 .. l /\ n + 12 \in n + 9 .. l /\ n + 15 \in n + 12 + 2 .. l
        /\ n + 12 + 1 = n + 13 /\ l = Len(o)
    BY <1>6, <1>7
  <2>4. \A j \in n + 9 .. n + 12 - 1 : o[j] # Colon
    <3>1. \A j \in n + 9 .. n + 12 - 1 : j = n + 9 \/ j = n + 10 \/ j = n + 11
      OBVIOUS
    <3> QED
      BY <2>2, <3>1
  <2>5. ASSUME NEW j \in n + 12 + 2 .. n + 15 - 1 PROVE o[j] # Quote
    <3>1. j = n + 14
      OBVIOUS
    <3> QED
      BY <2>2, <3>1 DEF Quote
  <2>6. GetString(o, <<98>>) = SubSeq(o, n + 12 + 2, n + 15 - 1)
    <3>1. StringAt(o, <<98>>, n + 9, n + 12, n + 15)
      BY <2>1, <2>2, <2>3, <2>4, <2>5 DEF StringAt
    <3>2. PICK at, c, q : at = n + 9 /\ c = n + 12 /\ q = n + 15
      OBVIOUS
    <3>3. PICK key \in Seq(Byte) : key = <<98>>
      BY <1>8
    <3>4. StringAt(o, key, at, c, q)
      BY <3>1, <3>2, <3>3
    <3>5. GetString(o, key) = SubSeq(o, c + 2, q - 1)
      BY <1>6, <3>4, StringIsRead
    <3> QED
      BY <3>2, <3>3, <3>5
  <2>7. PICK b \in Seq(Byte) : b = <<66>> /\ Len(b) = 1 /\ b[1] = 66
    BY <1>8
  <2>8. Stands(o, n + 13, b)
    <3>1. \A j \in 1 .. Len(b) : j = 1 /\ n + 13 + j = n + 14
      BY <2>7
    <3> QED
      BY <2>2, <2>7, <3>1 DEF Stands
  <2>9. SubSeq(o, (n + 13) + 1, (n + 13) + Len(b)) = b
    <3>1. n + 13 \in Nat /\ n + 13 + Len(b) <= Len(o)
      BY <1>6, <2>7
    <3> QED
      BY <1>6, <2>8, <3>1, PartIs
  <2>10. (n + 13) + 1 = n + 12 + 2 /\ (n + 13) + Len(b) = n + 15 - 1
    BY <2>7
  <2> QED
    BY <2>6, <2>7, <2>9, <2>10
<1>11. ASSUME t # << 37 >> PROVE GetString(o, <<37>>) = <<>>
  <2>1. Find(o, <<Quote>> \o <<37>> \o <<Quote>>, 1) = 0
    <3>1. 37 \in {65, 98, 37} /\ KeyAt(37, n) = 0
      BY DEF KeyAt
    <3>2. Find(o, <<Quote>> \o <<37>> \o <<Quote>>, 1) = KeyAt(37, n)
      BY <1>1, <1>3, <1>4, <1>5, <1>11, <3>1, KeyIsFound
    <3> QED
      BY <3>1, <3>2
  <2>2. ValueStart(o, <<37>>) = 0
    BY <2>1 DEF ValueStart
  <2>3. ExtractValue(o, <<37>>) = <<>>
    BY <2>2 DEF ExtractValue
  <2>4. Len(<<>>) = 0
    OBVIOUS
  <2> QED
    BY <2>3, <2>4 DEF GetString, RemoveQuotes
<1> QED
  BY <1>2, <1>9, <1>10, <1>11

\* FieldsAreFound for texts of any length.
THEOREM FieldsAreAlwaysFound == Spec => []FieldsAreFound
<1>1. TextOK => FieldsAreFound
  <2> SUFFICES ASSUME TextOK PROVE FieldsAreFound
    OBVIOUS
  <2>1. text \in Seq(Byte)
    BY DEF TextOK
  <2>2. <<70>> \in Seq(Byte) /\ <<98>> \in Seq(Byte) /\ <<66>> \in Seq(Byte) /\ <<65>> \in Seq(Byte)
    <3>1. 70 \in Byte /\ 98 \in Byte /\ 65 \in Byte /\ 66 \in Byte
      BY DEF Byte
    <3> QED
      BY <3>1, One
  <2>3. IsValidJson(TheObject(text))
    <3>1. /\ Pair(<<70>>, text) \in Pairs /\ Pair(<<98>>, <<66>>) \in Pairs
          /\ Pair(<<65>>, text) \in Pairs
      BY <2>1, <2>2 DEF Pair, Pairs
    <3>2. <<Pair(<<70>>, text), Pair(<<98>>, <<66>>), Pair(<<65>>, text)>> \in Seq(Pairs)
      BY <3>1
    <3> QED
      BY <3>2, BuiltIsValid DEF TheObject
  <2>4. IsValidJson(BuildArray(<<text, text>>))
    <3>1. <<text, text>> \in Seq(Seq(Byte))
      BY <2>1
    <3> QED
      BY <3>1, BuiltIsValid
  <2> QED
    BY <2>1, <2>3, <2>4, PlainFieldsAreRead DEF FieldsAreFound, TheObject
<1> QED
  BY <1>1, TextIsBytes, PTL
=============================================================================

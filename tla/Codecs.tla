------------------------------- MODULE Codecs -------------------------------
(***************************************************************************)
(* The pure functions of src/HMACUtils.cpp: hex, URL encoding, Base64,     *)
(* Split and ReplaceAll, and JSON.  A text is a sequence of bytes.         *)
(*                                                                         *)
(* Indices are 1-based where the code's are 0-based.  What a loop over all *)
(* bytes appends for each is an element of a sequence that is flattened; a *)
(* loop that moves its index by itself is a Scan; and a loop with state is *)
(* the function of the states after each of its rounds.                    *)
(***************************************************************************)
EXTENDS Integers, Sequences, SequencesExt

CONSTANT Word    \* the accumulator `val' of Base64 is kept modulo Word, 2^32 in the code

\* The twelve bits that are read again survive the overflow.
ASSUME WordAssumption == Word \in Nat \ {0} /\ Word % 4096 = 0

Byte == 0 .. 255

Space     == 32
Quote     == 34
Percent   == 37
Plus      == 43
Comma     == 44
Colon     == 58
Pad       == 61
Backslash == 92

Digits     == 48 .. 57
UpperCase  == 65 .. 90
LowerCase  == 97 .. 122
Whitespace == {9, 10, 11, 12, 13, 32}

\* A loop that at position i appends piece[i] and goes on at position next[i].
Scan(piece, next) ==
  LET n == Len(next)
      from[i \in 1 .. n + 1] == IF i = n + 1 THEN <<>> ELSE piece[i] \o from[next[i]]
  IN  from[1]
-----------------------------------------------------------------------------
(* Hex and URL encoding.                                                   *)

IsHexChar(c) == c \in Digits \cup 65 .. 70 \cup 97 .. 102

HexCharToValue(c) ==
  IF c \in Digits THEN c - 48 ELSE IF c \in LowerCase THEN c - 87 ELSE c - 55

LowerHex(n) == IF n < 10 THEN 48 + n ELSE 87 + n
UpperHex(n) == IF n < 10 THEN 48 + n ELSE 55 + n

HexByte(c, d) == 16 * HexCharToValue(c) + HexCharToValue(d)

BytesToHex(b) ==
  FlattenSeq([i \in DOMAIN b |-> <<LowerHex(b[i] \div 16), LowerHex(b[i] % 16)>>])

\* A pair that is not hex is skipped without a word, and so is an odd digit.
HexToBytes(s) ==
  FlattenSeq([i \in 1 .. Len(s) \div 2 |->
    LET c == s[2 * i - 1]
        d == s[2 * i]
    IN  IF IsHexChar(c) /\ IsHexChar(d) THEN <<HexByte(c, d)>> ELSE <<>>])

\* Mutant: the plus sign counts as unreserved.
Unreserved_Plus(c, letters) ==
  c \in Digits \cup UpperCase \cup LowerCase \cup {45, 95, 46, 126, Plus} \cup letters

\* isalnum of a negative char is undefined: letters are the bytes above 127 that
\* it takes for letters.
Unreserved(c, letters) ==
  c \in Digits \cup UpperCase \cup LowerCase \cup {45, 95, 46, 126} \cup letters

UrlEncode(s, letters) ==
  FlattenSeq([i \in DOMAIN s |->
    IF Unreserved(s[i], letters) THEN <<s[i]>>
    ELSE <<Percent, UpperHex(s[i] \div 16), UpperHex(s[i] % 16)>>])

IsUrlEscape(s, i) ==
  /\ s[i] = Percent /\ i + 2 <= Len(s)
  /\ IsHexChar(s[i + 1]) /\ IsHexChar(s[i + 2])

UrlDecode(s) ==
  Scan([i \in DOMAIN s |-> IF IsUrlEscape(s, i) THEN <<HexByte(s[i + 1], s[i + 2])>>
                           ELSE IF s[i] = Plus THEN <<Space>> ELSE <<s[i]>>],
       [i \in DOMAIN s |-> IF IsUrlEscape(s, i) THEN i + 3 ELSE i + 1])
-----------------------------------------------------------------------------
(* Base64.                                                                 *)

\* base64_chars[n].
Base64Char(n) ==
  IF n < 26 THEN 65 + n ELSE IF n < 52 THEN 71 + n
  ELSE IF n < 62 THEN n - 4 ELSE IF n = 62 THEN 43 ELSE 47

IsBase64Char(c) == c \in Digits \cup UpperCase \cup LowerCase \cup {43, 47}

\* (val >> shift) & (2^bits - 1).
Bits(val, shift, bits) == (val \div 2^shift) % 2^bits

\* (val << by) + n, in the width of `val'.
Shifted(val, by, n) == (val * 2^by + n) % Word

\* One round of the for loop of Encode: the inner while takes six bits at a time.
EncodeByte(st, byte) ==
  LET val  == Shifted(st.val, 8, byte)
      valb == st.valb + 8
      n    == valb \div 6 + 1
  IN  [val |-> val, valb |-> valb - 6 * n,
       out |-> st.out \o [k \in 1 .. n |-> Base64Char(Bits(val, valb - 6 * (k - 1), 6))]]

\* The state after each round.
EncodeLoop(data) ==
  LET st[i \in 0 .. Len(data)] ==
        IF i = 0 THEN [val |-> 0, valb |-> -6, out |-> <<>>]
        ELSE EncodeByte(st[i - 1], data[i])
  IN  st

Padding(n) == [k \in 1 .. ((4 - (n % 4)) % 4) |-> Pad]

\* Mutant: the bits that are left over are not moved to the top of the sextet.
Encode_LastNotShifted(data) ==
  LET st   == EncodeLoop(data)[Len(data)]
      last == IF st.valb > -6 THEN <<Base64Char(Bits(st.val, 0, 6))>> ELSE <<>>
  IN  st.out \o last \o Padding(Len(st.out \o last))

Encode(data) ==
  LET st   == EncodeLoop(data)[Len(data)]
      last == IF st.valb > -6
              THEN <<Base64Char(Bits(Shifted(st.val, 8, 0), st.valb + 8, 6))>>
              ELSE <<>>
  IN  st.out \o last \o Padding(Len(st.out \o last))

DecodeChar(st, c) ==
  LET val  == Shifted(st.val, 6, CHOOSE n \in 0 .. 63 : Base64Char(n) = c)
      valb == st.valb + 6
  IN  IF valb >= 0
      THEN [val |-> val, valb |-> valb - 8, out |-> Append(st.out, Bits(val, valb, 8))]
      ELSE [val |-> val, valb |-> valb, out |-> st.out]

DecodeLoop(s) ==
  LET st[i \in 0 .. Len(s)] ==
        IF i = 0 THEN [val |-> 0, valb |-> -8, out |-> <<>>]
        ELSE DecodeChar(st[i - 1], s[i])
  IN  st

\* Mutant: the first character that is no Base64 character is not the end.
DecodeToBytes_Skips(s) ==
  LET chars == SelectSeq(s, IsBase64Char)
  IN  DecodeLoop(chars)[Len(chars)].out

\* The loop ends at the first character that is no Base64 character.
DecodeToBytes(s) ==
  LET end   == SelectInSeq(s, LAMBDA c : ~IsBase64Char(c))
      chars == IF end = 0 THEN s ELSE SubSeq(s, 1, end - 1)
  IN  DecodeLoop(chars)[Len(chars)].out

IsValidBase64(s) ==
  /\ Len(s) % 4 = 0
  /\ \A i \in DOMAIN s : (i >= Len(s) - 1 /\ s[i] = Pad) \/ IsBase64Char(s[i])
-----------------------------------------------------------------------------
(* Split, Join, Trim and ReplaceAll.                                       *)

\* str.find(pattern, from), 0 for npos.
Find(s, pattern, from) ==
  LET found == {i \in from .. Len(s) - Len(pattern) + 1 :
                  SubSeq(s, i, i + Len(pattern) - 1) = pattern}
  IN  IF found = {} THEN 0 ELSE Min(found)

\* The first position from `from' on that holds one of the characters, or 0.
FindOneOf(s, chars, from) ==
  LET found == {i \in from .. Len(s) : s[i] \in chars}
  IN  IF found = {} THEN 0 ELSE Min(found)

\* Where the token that starts at i ends; the last one ends with the text.
TokenEnd(s, delimiter, i) ==
  LET end == Find(s, delimiter, i) IN IF end = 0 THEN Len(s) ELSE end - 1

\* Mutant: the search goes on one character after the start of a match.
Split_Overlaps(s, delimiter) ==
  Scan([i \in 1 .. Len(s) + 1 |-> <<SubSeq(s, i, TokenEnd(s, delimiter, i))>>],
       [i \in 1 .. Len(s) + 1 |-> IF Find(s, delimiter, i) = 0 THEN Len(s) + 2
                                  ELSE Find(s, delimiter, i) + 1])

\* A token may start at any position, also behind the text.  With an empty delimiter
\* the loop does not end.
Split(s, delimiter) ==
  Scan([i \in 1 .. Len(s) + 1 |-> <<SubSeq(s, i, TokenEnd(s, delimiter, i))>>],
       [i \in 1 .. Len(s) + 1 |-> IF Find(s, delimiter, i) = 0 THEN Len(s) + 2
                                  ELSE Find(s, delimiter, i) + Len(delimiter)])

Join(tokens, delimiter) ==
  FlattenSeq([i \in DOMAIN tokens |->
    IF i = 1 THEN tokens[i] ELSE delimiter \o tokens[i]])

Trim(s) ==
  LET black == {i \in DOMAIN s : s[i] \notin Whitespace}
  IN  IF black = {} THEN <<>> ELSE SubSeq(s, Min(black), Max(black))

\* Mutant: the search goes on one character too far.
ReplaceNext_SkipsOne(st, from, to) ==
  LET at == Find(st.result, from, st.pos)
  IN  IF at = 0 THEN st
      ELSE [result |-> SubSeq(st.result, 1, at - 1) \o to
                         \o SubSeq(st.result, at + Len(from), Len(st.result)),
            pos    |-> at + Len(to) + 1]

\* A round of the while loop of ReplaceAll.
ReplaceNext(st, from, to) ==
  LET at == Find(st.result, from, st.pos)
  IN  IF at = 0 THEN st
      ELSE [result |-> SubSeq(st.result, 1, at - 1) \o to
                         \o SubSeq(st.result, at + Len(from), Len(st.result)),
            pos    |-> at + Len(to)]

\* ReplaceAll.  Each round that finds the pattern passes a character of s at least,
\* and there are no others; with an empty pattern the loop does not end.
ReplaceEach(s, from, to) ==
  LET st[k \in 0 .. Len(s)] ==
        IF k = 0 THEN [result |-> s, pos |-> 1] ELSE ReplaceNext(st[k - 1], from, to)
  IN  st[Len(s)].result
-----------------------------------------------------------------------------
(* JSON.                                                                   *)

\* What stands for a character after the backslash.
EscapeOf == [c \in {Quote, Backslash, 8, 12, 10, 13, 9} |->
               CASE c = Quote -> Quote [] c = Backslash -> Backslash
                 [] c = 8 -> 98 [] c = 12 -> 102 [] c = 10 -> 110
                 [] c = 13 -> 114 [] c = 9 -> 116]

\* Mutant: the backslash is not escaped.
EscapeString_KeepsBackslash(s) ==
  FlattenSeq([i \in DOMAIN s |->
    IF s[i] \in DOMAIN EscapeOf \ {Backslash} THEN <<Backslash, EscapeOf[s[i]]>>
    ELSE <<s[i]>>])

EscapeString(s) ==
  FlattenSeq([i \in DOMAIN s |->
    IF s[i] \in DOMAIN EscapeOf THEN <<Backslash, EscapeOf[s[i]]>> ELSE <<s[i]>>])

IsJsonEscape(s, i) ==
  /\ s[i] = Backslash /\ i < Len(s)
  /\ \E c \in DOMAIN EscapeOf : EscapeOf[c] = s[i + 1]

UnescapeString(s) ==
  Scan([i \in DOMAIN s |-> IF IsJsonEscape(s, i)
                           THEN <<CHOOSE c \in DOMAIN EscapeOf : EscapeOf[c] = s[i + 1]>>
                           ELSE <<s[i]>>],
       [i \in DOMAIN s |-> IF IsJsonEscape(s, i) THEN i + 2 ELSE i + 1])

Quoted(s) == <<Quote>> \o EscapeString(s) \o <<Quote>>

\* The pairs are records [key, value].
BuildObject(pairs) ==
  <<123>> \o Join([i \in DOMAIN pairs |->
                     Quoted(pairs[i].key) \o <<Colon>> \o Quoted(pairs[i].value)],
                  <<Comma>>) \o <<125>>

BuildArray(values) ==
  <<91>> \o Join([i \in DOMAIN values |-> Quoted(values[i])], <<Comma>>) \o <<93>>

IsValidJson(json) ==
  LET s == Trim(json)
  IN  /\ s # <<>>
      /\ <<s[1], s[Len(s)]>> \in {<<123, 125>>, <<91, 93>>}

\* Mutant: the value is looked for from the start of the text.
ValueStart_FirstColon(json, key) ==
  IF Find(json, <<Quote>> \o key \o <<Quote>>, 1) = 0 THEN 0
  ELSE LET colon == FindOneOf(json, {Colon}, 1)
           black == {i \in colon + 1 .. Len(json) : json[i] \notin Whitespace}
       IN  IF colon = 0 \/ black = {} THEN 0 ELSE Min(black)

\* Where the value of the first text "key" begins, which need not be a key.
ValueStart(json, key) ==
  LET at    == Find(json, <<Quote>> \o key \o <<Quote>>, 1)
      colon == FindOneOf(json, {Colon}, at)
      black == {i \in colon + 1 .. Len(json) : json[i] \notin Whitespace}
  IN  IF at = 0 \/ colon = 0 \/ black = {} THEN 0 ELSE Min(black)

\* A string ends at the next quote, escaped or not.
ExtractValue(json, key) ==
  LET start == ValueStart(json, key)
      quote == FindOneOf(json, {Quote}, start + 1)
      end   == FindOneOf(json, {Comma, 125}, start)
  IN  IF start = 0 THEN <<>>
      ELSE IF json[start] = Quote
      THEN IF quote = 0 THEN <<>> ELSE SubSeq(json, start, quote)
      ELSE Trim(SubSeq(json, start, IF end = 0 THEN Len(json) ELSE end - 1))

RemoveQuotes(s) ==
  IF Len(s) >= 2 /\ s[1] = Quote /\ s[Len(s)] = Quote
  THEN SubSeq(s, 2, Len(s) - 1) ELSE s

\* GetString does not unescape.
GetString(json, key) == RemoveQuotes(ExtractValue(json, key))
=============================================================================

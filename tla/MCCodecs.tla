------------------------------ MODULE MCCodecs ------------------------------
(***************************************************************************)
(* The functions of Codecs over every text up to a length.  A text grows   *)
(* by one character of the alphabet per step, so that a state is an input. *)
(***************************************************************************)
EXTENDS Codecs

CONSTANTS Alphabet, MaxLength

ASSUME AlphabetAssumption == Alphabet \subseteq Byte /\ MaxLength \in Nat

VARIABLE text

Init == text = <<>>

Next ==
  /\ Len(text) < MaxLength
  /\ \E c \in Alphabet : text' = Append(text, c)

Spec == Init /\ [][Next]_text

\* A character of each kind that some function treats in its own way: control
\* characters, separators, digits and letters that are hex or an escape, the
\* highest byte.
Characters == {8, Quote, Percent, Plus, Comma, Colon, Pad, 65, Backslash, 98, 255}

Patterns == {<<65>>, <<98>>, <<65, 65>>, <<65, 98>>, <<65, 98, 65>>}
-----------------------------------------------------------------------------
\* What was encoded for a URL or as hex is decoded to the same bytes, whatever
\* isalnum says of bytes above 127.
UrlAndHexRoundTrip ==
  /\ \A letters \in {{}, 128 .. 255} : UrlDecode(UrlEncode(text, letters)) = text
  /\ HexToBytes(BytesToHex(text)) = text

\* The sextets of the encoding are the bits of the data, six at a time, filled
\* up with zeros, although the accumulator overflows.
BitsOf(s) == [b \in 1 .. 8 * Len(s) |-> (s[(b + 7) \div 8] \div 2^((8 * Len(s) - b) % 8)) % 2]

Base64IsTheBits ==
  LET bits == BitsOf(text) \o <<0, 0, 0, 0, 0>>
      n    == Len(bits) \div 6
      sextet(j) == 32 * bits[6 * j - 5] + 16 * bits[6 * j - 4] + 8 * bits[6 * j - 3]
                     + 4 * bits[6 * j - 2] + 2 * bits[6 * j - 1] + bits[6 * j]
      code == [j \in 1 .. n |-> Base64Char(sextet(j))]
  IN  Encode(text) = code \o Padding(n)

\* Encoded data is valid, and is decoded to itself with whatever follows it
\* after the padding.
Base64RoundTrip ==
  /\ IsValidBase64(Encode(text))
  /\ DecodeToBytes(Encode(text)) = text
  /\ DecodeToBytes(Encode(text) \o <<Pad>> \o Encode(text)) = text

\* Split cuts at the delimiters and nowhere else.
SplitIsExact ==
  \A d \in Patterns :
    /\ Join(Split(text, d), d) = text
    /\ \A i \in DOMAIN Split(text, d) : Find(Split(text, d)[i], d, 1) = 0

\* ReplaceAll replaces what Split cuts at, once, also where the replacement
\* holds the pattern.
ReplaceIsSplitJoin ==
  \A from, to \in Patterns : ReplaceEach(text, from, to) = Join(Split(text, from), to)

\* Escaping can be undone.
JsonRoundTrip == UnescapeString(EscapeString(text)) = text

Plain(s) == \A i \in DOMAIN s : s[i] \notin DOMAIN EscapeOf

Pair(key, value) == [key |-> key, value |-> value]

\* A value that needs no escapes is found again under its key, and an unknown
\* key is not, unless an earlier value reads like the key.
FieldsAreFound ==
  LET object == BuildObject(<<Pair(<<70>>, text), Pair(<<98>>, <<66>>),
                              Pair(<<65>>, text)>>)
  IN  /\ IsValidJson(object)
      /\ IsValidJson(BuildArray(<<text, text>>))
      /\ Plain(text) /\ text # <<65>> => GetString(object, <<65>>) = text
      /\ Plain(text) /\ text # <<98>> => GetString(object, <<98>>) = <<66>>
      /\ Plain(text) /\ text # <<37>> => GetString(object, <<37>>) = <<>>
=============================================================================

\* Every text of up to five characters.
SPECIFICATION Spec
CONSTANTS
  Word = 4096
  Alphabet <- Characters
  MaxLength = 5
INVARIANTS UrlAndHexRoundTrip Base64IsTheBits Base64RoundTrip SplitIsExact ReplaceIsSplitJoin JsonRoundTrip FieldsAreFound
CHECK_DEADLOCK FALSE

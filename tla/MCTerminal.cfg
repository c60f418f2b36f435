\* The terminal in every mode, with characters of one and of two bytes.
SPECIFICATION Spec
CONSTANTS
  CharWidth = 2
  CharHeight = 2
  Modes <- MCModes
  Glyphs = {"a", "b"}
  Wide = {"e"}
  Texts <- MCTexts
  Calls <- MCCalls
  Names <- MCNames
  InitialLen = 2
  BufSize = 5
  PrefixSize = 3
  MaxChars = 6
INVARIANTS
  DrawInBuffer
  ShowsLastLines
  SerialInStep
  PrintExact
CHECK_DEADLOCK FALSE

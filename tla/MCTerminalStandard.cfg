\* The terminal, every call held to the C standard.
SPECIFICATION Spec
CONSTANTS
  CharWidth = 2
  CharHeight = 2
  Modes <- MCModes
  Glyphs = {"a", "b"}
  Wide = {"e"}
  Texts <- MCTexts
  Calls <- MCCalls
  Names = {}
  InitialLen = 2
  BufSize = 5
  PrefixSize = 3
  MaxChars = 6
INVARIANT PrintStandard
CHECK_DEADLOCK FALSE

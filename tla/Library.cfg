CONSTANTS
  MEM = 6
  CHAR = 4
  W = 8
  Formats <- AllFormats
  Ints <- SomeInts
  Stars <- SomeStars
  Glyph <- Glyphs
  Numbers <- SomeNumbers
SPECIFICATION Spec
INVARIANTS
  Copies
  Finds
  TokensAll
  StaysInFormat
  RoundTrip
  Inside
  PtrInside
CHECK_DEADLOCK FALSE

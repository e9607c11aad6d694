CONSTANTS
  ROWS = 3
  COLS = 4
  TAB = 2
  Plain = {"newline", "backspace", "tab", "letter", "other"}
  Coloured = {"newline", "backspace", "tab", "letter", "other"}
  CLEARS = TRUE
  MARGIN = 1
  BYTE = 256
  CURSOR = 3
SPECIFICATION Spec
INVARIANTS RowShown BlankAfter

SPECIFICATION Spec
CONSTANTS
  TERMINAL_NUM = 2
  NUM_ROWS = 2
  NUM_COLS = 2
  INPUT_SIZE = 2
  MaxRow = 2
  Char = {ink}
  LF = LF
  BLANK = BLANK
  FishCells <- Corner
  Masked <- Windows
INVARIANTS TypeOK CursorAhead CursorShown
PROPERTIES ImplementsConsoles

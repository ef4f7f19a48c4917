SPECIFICATION FairSpec
CONSTANTS
  COLS = 4
  ROWS = 3
  TAB = 2
  CELLS = 14
  Glyph = {"a"}
  MaxLines = 5
  Texts = {0, 2}
  MaxTexts = 3
  MaxKeys = 2
INVARIANTS
  TextsArrive
  ShowsPaper
PROPERTIES
  KprintfReturns
CHECK_DEADLOCK FALSE

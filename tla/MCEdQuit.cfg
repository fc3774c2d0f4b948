SPECIFICATION Spec
CONSTANTS
  SN_SIZE = 5
  SN_MAX = 6
  TET_ROWS = 4
  TET_COLS = 4
  TET_PIECES = {0, 1, 2, 3, 4, 5, 6}
  BRK_ROWS = 1
  BRK_COLS = 2
  BRK_W = 60
  BRK_H = 70
  PONG_W = 40
  PONG_H = 24
  PONG_PAD_H = 8
  PONG_BX = 13
  PONG_BY = 8
  PONG_PY = 6
  MS_SIZE = 3
  MS_MINES = 2
  SLOT_CREDITS = 5
  CALC_BITS = 5
  FM_MAX = 3
  WIN_TEXT_BUF = 11
  CMD_MAX = 4
  Typed = {"gt", "sp", "clear"}
  Outputs <- MCOutputs
  FrameTicks = {32, 40}
  Pointer = {0, 12, 30, 60}
  CalcButtons = {0, 1, 7, 10, 11, 12, 13, 14, 15}
  MaxCredits = 60
  ED_MAX_LINES = 4
  ED_LINE_LEN = 3
  MAX_LINES = 2
  LINE_LEN = 3
  LOAD_BUF = 6
  Chars = {"v"}
  Files <- MCFiles
  Texts <- MCTexts
  Room <- MCRoom
  SHELL_MAX_HISTORY = 2
  SHELL_MAX_LINE = 4
  LineChars = {"v", "sp"}
  MaxEntered = 3
INVARIANT EdQuits
CHECK_DEADLOCK FALSE
